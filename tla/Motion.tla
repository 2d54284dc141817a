------------------------------- MODULE Motion -------------------------------
(***************************************************************************)
(* Where the head is (lbp-simulator/movement.cpp, in full): four axes,     *)
(* linear ones that clip at their travel and at most one rotary that       *)
(* wraps, moves and jogs at a rate, and the raster powers of a move.       *)
(* Module MovementSim is what the protocol sees of the same code; here     *)
(* step() is a function of the machine, called with any dt.                *)
(*                                                                         *)
(* Coordinates are whole, as in the code.  Of time there are Unit parts in *)
(* what a head of rate 1 needs for a distance of 1, and every rate divides *)
(* Unit, so that the code's divisions are exact: what floating point adds  *)
(* to them is left out.  One laser stands for two, which share nothing.    *)
(***************************************************************************)
EXTENDS Loops, Sequences

CONSTANTS Travel,            \* m_max_pos
          UserOrigin,        \* cfg_user_origin_x and _y
          Unit, Rates,
          MaxInt32,          \* of the int32_t that beginJog() takes: 2^31 - 1
          MaxDwell, QueueCap,
          NoAxis,            \* no axis is rotary
          Command,           \* what may be queued: op, and what that needs
          Jogs,              \* directions and the rates they use
          MaxCommands,       \* commands that are queued
          MaxEvents,         \* stops, jogs, and changes of configuration
          MaxDt,             \* longest step
          MaxJog             \* how far a jog goes

Axes == {"x", "y", "z", "u"}
Groups == {"xy", "z", "u"}   \* axes that share a rate
Point == [Axes -> Int]

(* "abs" is a programmed move, cmd_travel_abs_* or cmd_cut_abs_*; "jog_to" *)
(* an operator's.  "rel" stands for steps, travels and cuts.               *)
MoveOps == {"rel", "abs", "jog_to", "home"}
CanBeQueued(c) ==
    \/ c.op \in MoveOps /\ \A a \in DOMAIN c.args : a \in Axes /\ c.args[a] \in Int
    \/ c.op = "speed" /\ c.group \in Groups /\ c.value \in Rates
    \/ c.op \in {"laser_on", "laser_off", "job_end"}
    \/ c.op = "power" /\ c.value \in Int
    \/ c.op = "raster" /\ c.powers \in Seq(Int)
    \/ c.op = "dwell" /\ c.value \in Nat
    \/ c.op = "cut_from" /\ c.code \in {"current", "user", "absolute"}

ASSUME MotionAssumption ==
    /\ NoAxis \notin Axes
    /\ Travel \in [Axes -> Nat \ {0}] /\ UserOrigin \in [{"x", "y"} -> Int]
    /\ Unit \in Nat \ {0} /\ \A r \in Rates : r \in Nat /\ (r > 0 => Unit % r = 0)
    /\ MaxInt32 \in Nat /\ \A r \in Rates : r <= 2 * MaxInt32 + 1
    /\ MaxDwell \in Nat /\ QueueCap \in Nat /\ MaxDt \in Nat
    /\ \A c \in Command : CanBeQueued(c)
    /\ Jogs \subseteq [dir : Point, group : Groups]

VARIABLES m,                 \* the members of MovementSim, as a record
          rotaryAxis,        \* what the committed configuration says
          commands, events   \* how many there were

vars == <<m, rotaryAxis, commands, events>>

MotionStates == {"Idle", "Jogging", "Moving", "Dwelling", "Paused"}
Machine ==
    [state : MotionStates, queue : Seq(Command),
     pos : Point, origin : Point, rate : [Groups -> Nat],
     move : [start : Point, delta : Point, length : Nat, speed : Nat, traveled : Nat],
     jog : [start : Point, dir : Point, speed : Nat, traveled : Nat],
     dwell : Nat, rotary : Axes \cup {NoAxis},
     stale : BOOLEAN,        \* history: the origin is of a job that was stopped
     laser : [on : BOOLEAN, power : Int, rasters : Seq(Int)],
     paused : [state : MotionStates, on : BOOLEAN]]

Zero == [a \in Axes |-> 0]

Init == /\ m = [state |-> "Idle", queue |-> <<>>,
                pos |-> Zero, origin |-> Zero, rate |-> [g \in Groups |-> 0],
                move |-> [start |-> Zero, delta |-> Zero, length |-> 0, speed |-> 0,
                          traveled |-> 0],
                jog |-> [start |-> Zero, dir |-> Zero, speed |-> 0, traveled |-> 0],
                dwell |-> 0, rotary |-> NoAxis, stale |-> FALSE,
                laser |-> [on |-> FALSE, power |-> 0, rasters |-> <<>>],
                paused |-> [state |-> "Idle", on |-> FALSE]]
        /\ rotaryAxis = NoAxis
        /\ commands = 0 /\ events = 0

-----------------------------------------------------------------------------
(* Numbers: clampTo(), wrapTo(), llround() of n / d, hypot() rounded down. *)
Magnitude(v) == IF v < 0 THEN -v ELSE v

ClampTo(v, limit) == IF v < 0 THEN 0 ELSE IF v > limit THEN limit ELSE v

(* Mutant: the remainder of a negative number stays negative. *)
MutWrapTo(v, limit) == IF v < 0 THEN -((-v) % limit) ELSE v % limit

WrapTo(v, limit) == v % limit

Rounded(n, d) == IF n < 0 THEN -((d - 2 * n) \div (2 * d)) ELSE (d + 2 * n) \div (2 * d)

Hypot(a, b) == CHOOSE l \in 0..(Magnitude(a) + Magnitude(b)) :
                  l * l <= a * a + b * b /\ (l + 1) * (l + 1) > a * a + b * b

ApplyLimits(rotary, v) == [a \in Axes |-> IF a = rotary THEN WrapTo(v[a], Travel[a])
                                          ELSE ClampTo(v[a], Travel[a])]

-----------------------------------------------------------------------------
(* takeNextCommand().                                                      *)

(* decodeMoveDelta(), for which a go-to is as absolute as any other move.   *)
Delta(s, c) ==
    [a \in Axes |->
       IF a \notin DOMAIN c.args THEN 0
       ELSE CASE c.op = "home" -> IF a = s.rotary THEN 0 ELSE -s.pos[a]
              [] c.op \in {"abs", "jog_to"} ->
                    ClampTo(c.args[a] + s.origin[a], Travel[a]) - s.pos[a]
              [] c.op = "rel"  -> IF a = s.rotary THEN c.args[a]
                                  ELSE ClampTo(s.pos[a] + c.args[a], Travel[a]) - s.pos[a]]

(* pacingFor(): the axes that decide how long a move takes. *)
Pacing(d) == IF d.x # 0 \/ d.y # 0 THEN "xy" ELSE IF d.z # 0 THEN "z" ELSE "u"

PathLength(d) == CASE Pacing(d) = "xy" -> Hypot(d.x, d.y)
                   [] Pacing(d) = "z"  -> Magnitude(d.z)
                   [] OTHER            -> Magnitude(d.u)

(* beginMove(): a move of no length, or without a rate, is used up. *)
Goes(s, d) == d # Zero /\ s.rate[Pacing(d)] # 0

BeginMove(s, d) ==
    IF Goes(s, d)
    THEN [s EXCEPT !.state = "Moving",
                   !.move = [start |-> s.pos, delta |-> d, length |-> PathLength(d),
                             speed |-> s.rate[Pacing(d)], traveled |-> 0]]
    ELSE s

CutFrom(s, code) ==
    CASE code = "current" -> [s.origin EXCEPT !.x = s.pos.x, !.y = s.pos.y]
      [] code = "user"    -> [s.origin EXCEPT !.x = UserOrigin.x, !.y = UserOrigin.y]
      [] OTHER            -> Zero

Execute(s, c) ==
    CASE c.op \in MoveOps   -> BeginMove(s, Delta(s, c))
      [] c.op = "speed"    -> [s EXCEPT !.rate[c.group] = c.value]
      [] c.op \in {"laser_on", "laser_off"} -> [s EXCEPT !.laser.on = (c.op = "laser_on")]
      [] c.op = "power"    -> [s EXCEPT !.laser.power = c.value, !.laser.rasters = <<>>]
      [] c.op = "raster"   -> [s EXCEPT !.laser.rasters = c.powers]
      [] c.op = "dwell"    -> [s EXCEPT !.state = "Dwelling",
                                        !.dwell = IF c.value < MaxDwell THEN c.value
                                                  ELSE MaxDwell]
      [] c.op = "cut_from" -> [s EXCEPT !.origin = CutFrom(s, c.code), !.stale = FALSE]
      [] c.op = "job_end"  -> [s EXCEPT !.origin = Zero, !.stale = FALSE]

TakeNext(s, rotary) == LET r == [s EXCEPT !.rotary = rotary]
                       IN  IF r.queue = <<>> THEN r
                           ELSE Execute([r EXCEPT !.queue = Tail(@)], Head(r.queue))

-----------------------------------------------------------------------------
(* step()                                                                  *)

(* progressRaster() and clearRaster(): each power has an equal share of    *)
(* the path, and the last of them stays.                                   *)
Rastered(laser, traveled, path) ==
    LET n == Len(laser.rasters)
        i == (traveled * n) \div path
    IN  IF n = 0 THEN laser
        ELSE [laser EXCEPT !.power = laser.rasters[1 + (IF i < n THEN i ELSE n - 1)],
                           !.rasters = IF traveled = path THEN <<>> ELSE @]

(* Mutant: a move goes on from where the head is, already rounded. *)
MutMoved(s, dist) ==
    LET path == s.move.length * Unit
        traveled == s.move.traveled + dist
        step == [a \in Axes |-> Rounded(s.move.delta[a] * dist, path)]
    IN  [s EXCEPT !.move.traveled = traveled,
                  !.pos = ApplyLimits(s.rotary, [a \in Axes |-> s.pos[a] + step[a]]),
                  !.laser = Rastered(@, traveled, path),
                  !.state = IF traveled = path THEN "Idle" ELSE @]

(* A move that has come dist further. *)
Moved(s, dist) ==
    LET path == s.move.length * Unit
        traveled == s.move.traveled + dist
        offset == [a \in Axes |-> Rounded(s.move.delta[a] * traveled, path)]
    IN  [s EXCEPT !.move.traveled = traveled,
                  !.pos = ApplyLimits(s.rotary,
                             [a \in Axes |-> s.move.start[a] + offset[a]]),
                  !.laser = Rastered(@, traveled, path),
                  !.state = IF traveled = path THEN "Idle" ELSE @]

Jogged(s, dt) ==
    LET traveled == s.jog.traveled + s.jog.speed * dt
    IN  [s EXCEPT !.jog.traveled = traveled,
                  !.pos = ApplyLimits(s.rotary,
                             [a \in Axes |->
                                s.jog.start[a] + Rounded(s.jog.dir[a] * traveled, Unit)])]

(* Mutant: what a move leaves of dt is lost. *)
MutLeftOver(dt, used) == 0

LeftOver(dt, used) == dt - used

(* A pass of the loop of step(), with dt left.  None but these change the  *)
(* machine: there is no dt left, it is paused, or it has nothing to do.    *)
Pass(s, rotary, dt) ==
    LET left == (s.move.length * Unit - s.move.traveled) \div s.move.speed
    IN  IF dt = 0 \/ s.state = "Paused" THEN <<s, dt>>
        ELSE CASE s.state = "Idle"     -> <<TakeNext(s, rotary), dt>>
               [] s.state = "Moving"   -> IF dt < left THEN <<Moved(s, s.move.speed * dt), 0>>
                                          ELSE <<Moved(s, s.move.speed * left),
                                                 LeftOver(dt, left)>>
               [] s.state = "Jogging"  -> <<Jogged(s, dt), 0>>
               [] s.state = "Dwelling" -> IF dt < s.dwell THEN <<[s EXCEPT !.dwell = @ - dt], 0>>
                                          ELSE <<[s EXCEPT !.dwell = 0, !.state = "Idle"],
                                                 LeftOver(dt, s.dwell)>>

(* A command is taken in one pass and used up in another.                  *)
MaxPasses == 2 * QueueCap + 2

Loop(rotary) ==
    [k \in 1..MaxPasses |-> [at \in Machine \X Nat |-> Pass(at[1], rotary, at[2])]]

Stepped(s, rotary, dt) == AfterLoop(MaxPasses, <<s, dt>>, Loop(rotary))[1]

-----------------------------------------------------------------------------
(* The operations.                                                         *)
Step(dt) == /\ m.state = "Jogging" => m.jog.traveled <= MaxJog
            /\ m' = Stepped(m, rotaryAxis, dt)
            /\ UNCHANGED <<rotaryAxis, commands, events>>

Enqueue(c) == /\ commands < MaxCommands /\ commands' = commands + 1
              /\ Len(m.queue) < QueueCap
              /\ m' = [m EXCEPT !.queue = Append(@, c)]
              /\ UNCHANGED <<rotaryAxis, events>>

Pause == /\ m.state # "Paused"
         /\ m' = [m EXCEPT !.paused = [state |-> m.state, on |-> m.laser.on],
                           !.laser.on = FALSE, !.state = "Paused"]
         /\ UNCHANGED <<rotaryAxis, commands, events>>

Resume == /\ m.state = "Paused"
          /\ m' = [m EXCEPT !.laser.on = m.paused.on, !.state = m.paused.state]
          /\ UNCHANGED <<rotaryAxis, commands, events>>

Event == events < MaxEvents /\ events' = events + 1 /\ UNCHANGED commands

(* Origin, rates and raster powers are left to what comes next.            *)
Stop == /\ Event
        /\ m' = [m EXCEPT !.state = "Idle", !.queue = <<>>, !.laser.on = FALSE,
                          !.dwell = 0, !.stale = (m.origin # Zero)]
        /\ UNCHANGED rotaryAxis

(* A rate is a uint32_t, and passed to a jog as an int32_t. *)
AsInt32(rate) == IF rate <= MaxInt32 THEN rate ELSE rate - 2 * (MaxInt32 + 1)

(* beginJog(): a jog that is refused still looks the rotary axis up.       *)
JogStart(j) ==
    LET s == [m EXCEPT !.rotary = rotaryAxis]
        speed == AsInt32(s.rate[j.group])
    IN  /\ Event
        /\ m' = IF speed <= 0 THEN s
                ELSE [s EXCEPT !.state = "Jogging",
                               !.jog = [start |-> s.pos, dir |-> j.dir,
                                        speed |-> speed, traveled |-> 0]]
        /\ UNCHANGED rotaryAxis

JogStop == /\ m.state = "Jogging" /\ Event
           /\ m' = [m EXCEPT !.state = "Idle"]
           /\ UNCHANGED rotaryAxis

(* The host commits another rotary axis, any or none (module Configuration). *)
Configure(a) == /\ Event
                /\ rotaryAxis' = a
                /\ UNCHANGED m

Next == \/ \E dt \in 1..MaxDt : Step(dt)
        \/ \E c \in Command : Enqueue(c)
        \/ Pause
        \/ Resume
        \/ Stop
        \/ \E j \in Jogs : JogStart(j)
        \/ JogStop
        \/ \E a \in (Axes \cup {NoAxis}) \ {rotaryAxis} : Configure(a)

Spec == Init /\ [][Next]_vars

-----------------------------------------------------------------------------
(* step() is exact for any dt: however time is cut into steps, the machine *)
(* is the same in the end, rounding, wrapping and rasters included         *)
(* (movement.h, MovementSim::step; simworker.cpp cuts ticks into steps).   *)
ExactForAnyDt ==
    \A a \in 1..MaxDt :
       LET half == Stepped(m, rotaryAxis, a)
       IN  \A b \in 1..MaxDt : Stepped(half, rotaryAxis, b) = Stepped(m, rotaryAxis, a + b)

TypeOK == /\ m \in Machine
          /\ rotaryAxis \in Axes \cup {NoAxis} /\ commands \in Nat /\ events \in Nat

(* The head stays within its travel, whatever is asked and even when the   *)
(* rotary axis changes under a move or a jog (applyLimits, toWire).        *)
InBounds == \A a \in Axes : m.pos[a] \in 0..Travel[a]

-----------------------------------------------------------------------------
(* Where the commands ask the head to go, by what the documents say.       *)

(* What the code does otherwise: a go-to is measured from the origin, too; *)
(* an absolute move is measured from the origin of a job that was stopped; *)
(* a move without a rate does not go, where spec.md:309 has it "move at    *)
(* the rate specified by configured defaults".                             *)
Differences == {"go_to", "stale_origin", "no_rate"}

(* All that is queued leads a head along a course, with no regard to time; *)
(* differs tells on which of the differences it came.                      *)
Course == [pos : Point, origin : Point, rate : [Groups -> Nat], rotary : Axes \cup {NoAxis},
           stale : BOOLEAN, differs : SUBSET Differences]

(* spec.md:383: "Go To command coordinates are to be interpreted relative  *)
(* to the machine's absolute zero."  movement.h:151: the origin is an      *)
(* "origin offset for absolute moves during the current job".              *)
AsToOrigin(h, c) ==
    IF c.op = "jog_to" \/ (c.op = "abs" /\ h.stale) THEN [h EXCEPT !.origin = Zero] ELSE h

(* Each axis that is named goes where it is told, within its travel.  What *)
(* follows is the code's, where the documents leave it open: a rotary axis *)
(* has no home (homeDelta()), an absolute move of it is clipped before it  *)
(* wraps (absoluteDelta()), and home is 0.                                 *)
Target(h, c) ==
    LET asked == [a \in Axes |->
          IF a \notin DOMAIN c.args THEN h.pos[a]
          ELSE CASE c.op = "home" -> IF a = h.rotary THEN h.pos[a] ELSE 0
                 [] c.op = "rel"  -> h.pos[a] + c.args[a]
                 [] c.op \in {"abs", "jog_to"} ->
                       IF a = h.rotary THEN ClampTo(c.args[a] + h.origin[a], Travel[a])
                       ELSE c.args[a] + h.origin[a]]
    IN  ApplyLimits(h.rotary, asked)

HasNoRate(h, d) == d # Zero /\ h.rate[Pacing(d)] = 0

(* A move that goes nowhere does not wrap the other axes, either.          *)
MovedTo(h, c) ==
    LET g == AsToOrigin(h, c)
        d == Delta(g, c)
    IN  [h EXCEPT !.pos = IF d = Zero THEN @ ELSE Target(g, c),
                  !.differs = @ \cup
                     {k \in Differences :
                        CASE k = "go_to"        -> c.op = "jog_to" /\ h.origin # Zero
                          [] k = "stale_origin" -> c.op = "abs" /\ h.stale
                          [] k = "no_rate"      -> HasNoRate(g, d)}]

Carried(h, c) ==
    CASE c.op \in MoveOps  -> MovedTo(h, c)
      [] c.op = "speed"    -> [h EXCEPT !.rate[c.group] = c.value]
      [] c.op = "cut_from" -> [h EXCEPT !.origin = CutFrom(h, c.code), !.stale = FALSE]
      [] c.op = "job_end"  -> [h EXCEPT !.origin = Zero, !.stale = FALSE]
      [] OTHER             -> h

Led(h, queue) ==
    AfterLoop(Len(queue), h,
              [k \in 1..Len(queue) |-> [g \in Course |-> Carried(g, queue[k])]])

Destination(s) ==
    LET end == [a \in Axes |-> s.move.start[a] + s.move.delta[a]]
        arrived == IF s.state = "Moving" THEN ApplyLimits(s.rotary, end) ELSE s.pos
    IN  Led([pos |-> arrived, origin |-> s.origin, rate |-> s.rate, rotary |-> rotaryAxis,
             stale |-> s.stale, differs |-> {}], s.queue)

(* The head ends where its commands ask it to be, clipped and wrapped      *)
(* once, however its way is cut and rounded: they are measured from where  *)
(* the one before leads, a go-to from machine zero, a programmed absolute  *)
(* move from the origin of its job (decodeMoveDelta, step, applyLimits).   *)
(* It says nothing of queues with a command of Differences in them, nor    *)
(* of jogs, which have no end.                                             *)
EndsWhereAsked ==
    m.state # "Jogging" /\ Destination(m).differs = {} =>
       \A dt \in 1..MaxDt :
          Destination(Stepped(m, rotaryAxis, dt)).pos = Destination(m).pos
=============================================================================
