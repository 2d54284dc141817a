---------------------------- MODULE MotionProofs ----------------------------
(***************************************************************************)
(* What is proved about module Motion, for every travel, queue, rate and   *)
(* list of commands.  A move is a whole number of parts of time long, so   *)
(* that no division loses anything; a pass of the loop of step() ends in a *)
(* machine of lower rank or in one that is done, so that there are passes  *)
(* enough and one of them may go first; and a pass with more time to it    *)
(* does the same and keeps the rest.  So two steps are one.                *)
(***************************************************************************)
EXTENDS Motion, Induction, TLAPS

-----------------------------------------------------------------------------
(* Arithmetic.                                                             *)

LEMMA Product == \A a, b, c \in Int : /\ a * b \in Int /\ a * (b + c) = a * b + a * c
                                      /\ a * b = b * a /\ a * (-b) = -(a * b) /\ a * (b - c) = a * b - a * c
  OBVIOUS

LEMMA Sign == \A a, b \in Nat : a * b \in Nat /\ (a > 0 /\ b > 0 => a * b > 0)
  OBVIOUS

LEMMA Monotone == \A v \in Nat \ {0}, a, b \in Int : a < b <=> v * a < v * b
  <1> SUFFICES ASSUME NEW v \in Nat \ {0}, NEW a \in Int, NEW b \in Int
               PROVE  a < b <=> v * a < v * b
    OBVIOUS
  <1>1. ASSUME NEW x \in Int, NEW y \in Int, x < y PROVE v * x < v * y
    <2> DEFINE d == y - x
    <2>1. d \in Nat \ {0} /\ y = x + d
      BY <1>1
    <2> HIDE DEF d
    <2>2. v * d > 0 /\ v * d \in Int
      BY <2>1, Sign
    <2>3. v * y = v * x + v * d
      BY <2>1, Product
    <2>4. v * x \in Int
      OBVIOUS
    <2> QED
      BY <2>2, <2>3, <2>4
  <1>2. CASE a < b
    BY <1>1, <1>2
  <1>3. CASE a = b
    BY <1>3
  <1>4. CASE b < a
    <2>1. v * b < v * a /\ v * a \in Int /\ v * b \in Int
      BY <1>1, <1>4
    <2> QED
      BY <2>1, <1>4
  <1> QED
    BY <1>2, <1>3, <1>4

(* A quotient by what it says. *)
LEMMA QuotientIs ==
    ASSUME NEW v \in Nat \ {0}, NEW n \in Int, NEW q \in Int, v * q <= n, n < v * (q + 1)
    PROVE  n \div v = q
  <1> DEFINE d == n \div v
  <1>1. d \in Int /\ v * d <= n /\ n < v * d + v
    OBVIOUS
  <1> HIDE DEF d
  <1>2. v * (d + 1) = v * d + v /\ v * d \in Int /\ v * q \in Int /\ v * (q + 1) \in Int
    BY <1>1
  <1>3. v * q < v * (d + 1) /\ v * d < v * (q + 1)
    BY <1>1, <1>2
  <1>4. q < d + 1 /\ d < q + 1
    BY <1>1, <1>3, Monotone
  <1> QED
    BY <1>1, <1>4 DEF d

LEMMA ExactQuotient ==
    ASSUME NEW v \in Nat \ {0}, NEW q \in Int PROVE (v * q) \div v = q
  <1>1. v * q \in Int /\ v * (q + 1) = v * q + v
    OBVIOUS
  <1> QED
    BY <1>1, QuotientIs

LEMMA RoundedIs ==
    ASSUME NEW p \in Nat \ {0}
    PROVE  /\ \A n \in Int : Rounded(n, p) \in Int
           /\ \A x \in Int : Rounded(x * p, p) = x
  <1>1. ASSUME NEW n \in Int PROVE Rounded(n, p) \in Int
    <2>1. 2 * p \in Nat \ {0} /\ p - 2 * n \in Int /\ p + 2 * n \in Int
      OBVIOUS
    <2> QED
      BY <2>1 DEF Rounded
  <1>2. ASSUME NEW y \in Nat PROVE (p + 2 * (y * p)) \div (2 * p) = y
    <2>1. y * p \in Int /\ (2 * p) * y = 2 * (y * p) /\ (2 * p) * (y + 1) = 2 * (y * p) + 2 * p
      OBVIOUS
    <2> QED
      BY <2>1, QuotientIs
  <1>3. ASSUME NEW x \in Int PROVE Rounded(x * p, p) = x
    <2>1. CASE x < 0
      <3> DEFINE y == -x
      <3>1. y \in Nat /\ y * p = -(x * p) /\ x * p \in Int /\ x * p < 0
        BY <2>1
      <3>2. p - 2 * (x * p) = p + 2 * (y * p)
        BY <3>1
      <3> QED
        BY <1>2, <3>1, <3>2 DEF Rounded
    <2>2. CASE x >= 0
      <3>1. x \in Nat /\ x * p \in Nat
        BY <2>2
      <3> QED
        BY <1>2, <3>1 DEF Rounded
    <2> QED
      BY <2>1, <2>2
  <1> QED
    BY <1>1, <1>3

(* The length of a path is a number, and none only if it goes nowhere. *)
LEMMA HypotIs ==
    ASSUME NEW a \in Int, NEW b \in Int, a # 0 \/ b # 0
    PROVE  Hypot(a, b) \in Nat \ {0}
  <1> DEFINE c == a * a + b * b
             s == Magnitude(a) + Magnitude(b)
             Small(l) == l * l <= c /\ (l + 1) * (l + 1) > c
  <1>1. s \in Nat /\ c \in Nat \ {0} /\ (s + 1) * (s + 1) > c
    BY DEF Magnitude
  <1> HIDE DEF c, s
  <1>2. \E l \in 0..s : Small(l)
    <2> DEFINE S == {l \in Nat : (l + 1) * (l + 1) > c}
    <2>1. PICK l \in S : \A k \in S : l <= k
      BY <1>1, LeastNumber
    <2>2. l \in 0..s
      BY <1>1, <2>1
    <2>3. l * l <= c
      <3>1. CASE l = 0
        BY <1>1, <3>1
      <3>2. CASE l > 0
        <4>1. l - 1 \in Nat /\ l - 1 \notin S /\ (l - 1) + 1 = l
          BY <2>1, <3>2
        <4> QED
          BY <1>1, <4>1
      <3> QED
        BY <2>1, <3>1, <3>2
    <2> QED
      BY <2>1, <2>2, <2>3
  <1>3. Hypot(a, b) \in 0..s /\ Small(Hypot(a, b))
    BY <1>2 DEF Hypot, s, c
  <1> QED
    BY <1>1, <1>3

-----------------------------------------------------------------------------
(* The machine, its limits and its moves.                                  *)

MoveIsSound(s) ==
    /\ \E p, t \in Nat : /\ t <= p /\ s.move.length * Unit = s.move.speed * p
                         /\ s.move.traveled = s.move.speed * t
    /\ s.move.speed > 0 => s.move.length > 0
    /\ s.state = "Moving" \/ s.paused.state = "Moving" => s.move.speed > 0

Sound(s) == /\ s \in Machine /\ MoveIsSound(s) /\ Len(s.queue) <= QueueCap
            /\ \A a \in Axes : s.pos[a] \in 0..Travel[a]
            /\ \A g \in Groups : s.rate[g] > 0 => Unit % s.rate[g] = 0

LEMMA LimitsAre ==
    ASSUME NEW rotary, NEW v \in Point
    PROVE  /\ ApplyLimits(rotary, v) \in Point
           /\ \A a \in Axes : ApplyLimits(rotary, v)[a] \in 0..Travel[a]
  <1> SUFFICES ASSUME NEW a \in Axes PROVE ApplyLimits(rotary, v)[a] \in 0..Travel[a]
    <2>1. Travel \in [Axes -> Nat]
      BY MotionAssumption
    <2> QED
      BY <2>1 DEF ApplyLimits, Point
  <1>1. Travel[a] \in Nat \ {0} /\ v[a] \in Int
    BY MotionAssumption DEF Point
  <1> QED
    BY <1>1 DEF ApplyLimits, ClampTo, WrapTo

LEMMA DeltaIs ==
    ASSUME NEW s, s.pos \in Point, s.origin \in Point, NEW c, CanBeQueued(c), c.op \in MoveOps
    PROVE  Delta(s, c) \in Point
  <1> SUFFICES ASSUME NEW a \in Axes PROVE Delta(s, c)[a] \in Int
    BY DEF Delta, Point
  <1>1. s.pos[a] \in Int /\ s.origin[a] \in Int /\ Travel[a] \in Nat
    BY MotionAssumption DEF Point
  <1>2. a \in DOMAIN c.args => c.args[a] \in Int
    BY DEF CanBeQueued, MoveOps
  <1> QED
    BY <1>1, <1>2 DEF Delta, ClampTo, MoveOps

LEMMA PathIs ==
    ASSUME NEW d \in Point
    PROVE  PathLength(d) \in Nat /\ (d # Zero => PathLength(d) > 0) /\ Pacing(d) \in Groups
  <1>0. d.x \in Int /\ d.y \in Int /\ d.z \in Int /\ d.u \in Int
    BY DEF Point, Axes
  <1>1. Pacing(d) \in Groups
    BY DEF Pacing, Groups
  <1>2. CASE d.x # 0 \/ d.y # 0
    BY <1>0, <1>1, <1>2, HypotIs DEF PathLength, Pacing
  <1>3. CASE d.x = 0 /\ d.y = 0 /\ d.z # 0
    BY <1>0, <1>1, <1>3 DEF PathLength, Pacing, Magnitude
  <1>4. CASE d.x = 0 /\ d.y = 0 /\ d.z = 0
    <2>1. d # Zero => d.u # 0
      BY <1>4 DEF Point, Zero, Axes
    <2> QED
      BY <1>0, <1>1, <1>4, <2>1 DEF PathLength, Pacing, Magnitude
  <1> QED
    BY <1>2, <1>3, <1>4

(* The path of a move in parts of time, at a rate that divides Unit. *)
LEMMA PathDivides ==
    ASSUME NEW v \in Nat \ {0}, Unit % v = 0, NEW l \in Nat
    PROVE  \E p \in Nat : l * Unit = v * p
  <1> DEFINE q == Unit \div v
  <1>1. Unit \in Nat \ {0}
    BY MotionAssumption
  <1>2. q \in Nat /\ Unit = v * q
    BY <1>1
  <1> HIDE DEF q
  <1>3. l * Unit = v * (l * q) /\ l * q \in Nat
    BY <1>2
  <1> QED
    BY <1>3

LEMMA BeginMoveIs ==
    ASSUME NEW s, Sound(s), NEW d \in Point
    PROVE  /\ Sound(BeginMove(s, d)) /\ BeginMove(s, d).queue = s.queue
           /\ BeginMove(s, d).state \in {s.state, "Moving"}
  <1> DEFINE v == s.rate[Pacing(d)]
             l == PathLength(d)
             move == [start |-> s.pos, delta |-> d, length |-> l, speed |-> v, traveled |-> 0]
             r == [s EXCEPT !.state = "Moving", !.move = move]
  <1>1. CASE ~Goes(s, d)
    BY <1>1 DEF BeginMove
  <1>2. CASE Goes(s, d)
    <2>1. s \in Machine /\ l \in Nat \ {0} /\ v \in Nat \ {0} /\ Unit % v = 0
      <3>1. Pacing(d) \in Groups /\ l \in Nat \ {0}
        BY <1>2, PathIs DEF Goes
      <3>2. s \in Machine /\ s.rate \in [Groups -> Nat]
        BY DEF Sound, Machine
      <3>3. v # 0 /\ v \in Nat
        BY <1>2, <3>1, <3>2 DEF Goes
      <3>4. v > 0 => Unit % v = 0
        BY <3>1 DEF Sound
      <3> QED
        BY <3>1, <3>2, <3>3, <3>4
    <2> HIDE DEF v, l
    <2>2. /\ move \in [start : Point, delta : Point, length : Nat, speed : Nat, traveled : Nat]
          /\ move.length = l /\ move.speed = v /\ move.traveled = 0
      BY <2>1 DEF Machine
    <2> HIDE DEF move
    <2>3. /\ r \in Machine /\ r.move = move /\ r.queue = s.queue /\ r.pos = s.pos
          /\ r.rate = s.rate /\ r.state = "Moving"
      BY <2>1, <2>2 DEF Machine, MotionStates
    <2>4. \E p \in Nat : l * Unit = v * p
      BY <2>1, PathDivides
    <2>5. \E p, t \in Nat : t <= p /\ l * Unit = v * p /\ 0 = v * t
      <3>1. v * 0 = 0 /\ 0 \in Nat /\ \A p \in Nat : 0 <= p
        BY <2>1
      <3> QED
        BY <2>4, <3>1
    <2> HIDE DEF r
    <2>6. MoveIsSound(r)
      <3>1. r.move.length = l /\ r.move.speed = v /\ r.move.traveled = 0
        BY <2>2, <2>3
      <3>2. v > 0 /\ l > 0
        BY <2>1
      <3> QED
        BY <2>5, <3>1, <3>2 DEF MoveIsSound
    <2>7. BeginMove(s, d) = r
      BY <1>2 DEF BeginMove, r, move, v, l
    <2> QED
      BY <2>2, <2>3, <2>6, <2>7 DEF Sound
  <1> QED
    BY <1>1, <1>2

-----------------------------------------------------------------------------
(* What the parts of a pass make of a machine.                             *)

LEMMA RasteredIs ==
    ASSUME NEW laser \in [on : BOOLEAN, power : Int, rasters : Seq(Int)],
           NEW traveled \in Nat, NEW path \in Nat \ {0}
    PROVE  Rastered(laser, traveled, path) \in [on : BOOLEAN, power : Int, rasters : Seq(Int)]
  <1> DEFINE n == Len(laser.rasters)
             i == (traveled * n) \div path
             k == 1 + (IF i < n THEN i ELSE n - 1)
  <1>1. CASE n = 0
    BY <1>1 DEF Rastered
  <1>2. CASE n # 0
    <2>1. n \in Nat \ {0}
      BY <1>2
    <2>2. i \in Nat
      <3> HIDE DEF n
      <3>1. traveled * n \in Nat
        BY <2>1
      <3> QED
        BY <3>1
    <2>3. k \in 1..n
      <3> HIDE DEF n, i
      <3> QED
        BY <2>1, <2>2
    <2>4. laser.rasters[k] \in Int
      <3> HIDE DEF k
      <3> QED
        BY <2>3
    <2> DEFINE power == laser.rasters[k]
               rasters == IF traveled = path THEN <<>> ELSE laser.rasters
    <2>5. Rastered(laser, traveled, path) = [laser EXCEPT !.power = power, !.rasters = rasters]
      BY <1>2 DEF Rastered
    <2>6. power \in Int /\ rasters \in Seq(Int)
      BY <2>4
    <2> HIDE DEF power, rasters
    <2> QED
      BY <2>5, <2>6
  <1> QED
    BY <1>1, <1>2

LEMMA PathOf ==
    ASSUME NEW s, Sound(s), s.move.speed > 0
    PROVE  s.move.length * Unit \in Nat \ {0}
  <1>1. s.move.length \in Nat \ {0} /\ Unit \in Nat \ {0}
    BY MotionAssumption DEF Sound, MoveIsSound, Machine
  <1> QED
    BY <1>1

LEMMA MovedIs ==
    ASSUME NEW s, Sound(s), s.move.speed > 0, NEW u \in Nat,
           s.move.traveled + s.move.speed * u <= s.move.length * Unit
    PROVE  /\ Sound(Moved(s, s.move.speed * u))
           /\ Moved(s, s.move.speed * u).queue = s.queue
           /\ Moved(s, s.move.speed * u).move
                = [s.move EXCEPT !.traveled = @ + s.move.speed * u]
           /\ Moved(s, s.move.speed * u).state
                = IF s.move.traveled + s.move.speed * u = s.move.length * Unit THEN "Idle"
                  ELSE s.state
  <1> DEFINE v == s.move.speed
             path == s.move.length * Unit
             traveled == s.move.traveled + v * u
             offset == [a \in Axes |-> Rounded(s.move.delta[a] * traveled, path)]
             to == ApplyLimits(s.rotary, [a \in Axes |-> s.move.start[a] + offset[a]])
             laser == Rastered(s.laser, traveled, path)
             state == IF traveled = path THEN "Idle" ELSE s.state
             r == [s EXCEPT !.move.traveled = traveled, !.pos = to, !.laser = laser,
                            !.state = state]
  <1>1. s \in Machine /\ v \in Nat \ {0} /\ path \in Nat \ {0} /\ v * u \in Nat /\ traveled \in Nat
    <2>1. s \in Machine /\ v \in Nat \ {0} /\ s.move.traveled \in Nat
      BY DEF Sound, Machine
    <2>2. v * u \in Nat
      BY <2>1, Sign
    <2> QED
      BY <2>1, <2>2, PathOf
  <1>2. Moved(s, v * u) = r
    BY DEF Moved
  <1>3. to \in Point /\ \A a \in Axes : to[a] \in 0..Travel[a]
    <2> HIDE DEF traveled, path
    <2>1. ASSUME NEW a \in Axes PROVE s.move.start[a] \in Int /\ offset[a] \in Int
      <3>1. s.move.start[a] \in Int /\ s.move.delta[a] \in Int
        BY <1>1 DEF Machine, Point
      <3>2. s.move.delta[a] * traveled \in Int
        BY <1>1, <3>1
      <3> QED
        BY <1>1, <3>1, <3>2, RoundedIs
    <2> HIDE DEF offset
    <2>2. [a \in Axes |-> s.move.start[a] + offset[a]] \in Point
      BY <2>1 DEF Point
    <2> QED
      BY <2>2, LimitsAre
  <1>4. laser \in [on : BOOLEAN, power : Int, rasters : Seq(Int)]
    <2>1. s.laser \in [on : BOOLEAN, power : Int, rasters : Seq(Int)]
      BY <1>1 DEF Machine
    <2> HIDE DEF traveled, path
    <2> QED
      BY <1>1, <2>1, RasteredIs
  <1>5. state \in MotionStates /\ (state = "Moving" => s.state = "Moving")
    BY <1>1 DEF Machine, MotionStates
  <1>6. \E p, t \in Nat : t <= p /\ path = v * p /\ traveled = v * t
    <2>1. PICK p, t \in Nat : t <= p /\ path = v * p /\ s.move.traveled = v * t
      BY DEF Sound, MoveIsSound
    <2>2. traveled = v * (t + u) /\ t + u \in Nat
      <3>1. v * (t + u) = v * t + v * u
        BY <1>1, <2>1, Product
      <3> QED
        BY <2>1, <3>1
    <2>3. t + u <= p
      <3>1. v * (t + u) <= v * p
        BY <2>1, <2>2
      <3>2. ~(v * p < v * (t + u))
        <4>1. v * p \in Int /\ v * (t + u) \in Int
          BY <1>1, <2>1, <2>2
        <4> HIDE DEF v
        <4> QED
          BY <3>1, <4>1
      <3>3. ~(p < t + u)
        <4> HIDE DEF v
        <4> QED
          BY <1>1, <2>2, <3>2, Monotone
      <3> QED
        BY <2>2, <3>3
    <2> HIDE DEF v, path, traveled
    <2> QED
      BY <2>1, <2>2, <2>3
  <1>7. s.move.length > 0
    BY DEF Sound, MoveIsSound
  <1> HIDE DEF v, traveled, to, laser, state
  <1>8. /\ r \in Machine /\ r.pos = to /\ r.queue = s.queue /\ r.rate = s.rate
        /\ r.move = [s.move EXCEPT !.traveled = traveled] /\ r.state = state
        /\ r.paused = s.paused
    BY <1>1, <1>3, <1>4, <1>5 DEF Machine
  <1>9. /\ r.move.length = s.move.length /\ r.move.speed = s.move.speed
        /\ r.move.traveled = traveled
    BY <1>1, <1>8 DEF Machine
  <1>10. Sound(r)
    <2> HIDE DEF r
    <2> QED
      BY <1>3, <1>5, <1>6, <1>7, <1>8, <1>9 DEF Sound, MoveIsSound, v
  <1> QED
    BY <1>2, <1>8, <1>10 DEF v, traveled, state

LEMMA JoggedIs ==
    ASSUME NEW s, Sound(s), NEW dt \in Nat
    PROVE  /\ Sound(Jogged(s, dt)) /\ Jogged(s, dt).queue = s.queue
           /\ Jogged(s, dt).state = s.state
  <1> DEFINE traveled == s.jog.traveled + s.jog.speed * dt
             to == ApplyLimits(s.rotary, [a \in Axes |->
                                 s.jog.start[a] + Rounded(s.jog.dir[a] * traveled, Unit)])
             r == [s EXCEPT !.jog.traveled = traveled, !.pos = to]
  <1>1. s \in Machine /\ traveled \in Nat /\ Unit \in Nat \ {0}
    <2>1. s \in Machine /\ s.jog.speed \in Nat /\ s.jog.traveled \in Nat
      BY DEF Sound, Machine
    <2>2. s.jog.speed * dt \in Nat
      BY <2>1, Sign
    <2> QED
      BY <2>1, <2>2, MotionAssumption
  <1>2. Jogged(s, dt) = r
    BY DEF Jogged
  <1>3. to \in Point /\ \A a \in Axes : to[a] \in 0..Travel[a]
    <2> HIDE DEF traveled
    <2>1. ASSUME NEW a \in Axes
          PROVE  s.jog.start[a] \in Int /\ Rounded(s.jog.dir[a] * traveled, Unit) \in Int
      <3>1. s.jog.start[a] \in Int /\ s.jog.dir[a] \in Int
        BY <1>1 DEF Machine, Point
      <3>2. s.jog.dir[a] * traveled \in Int
        BY <1>1, <3>1
      <3> QED
        BY <1>1, <3>1, <3>2, RoundedIs
    <2>2. [a \in Axes |-> s.jog.start[a] + Rounded(s.jog.dir[a] * traveled, Unit)] \in Point
      BY <2>1 DEF Point
    <2> QED
      BY <2>2, LimitsAre
  <1> HIDE DEF traveled, to
  <1>4. /\ r \in Machine /\ r.pos = to /\ r.queue = s.queue /\ r.rate = s.rate
        /\ r.move = s.move /\ r.state = s.state /\ r.paused = s.paused
    BY <1>1, <1>3 DEF Machine
  <1> HIDE DEF r
  <1> QED
    BY <1>2, <1>3, <1>4 DEF Sound, MoveIsSound

LEMMA ExecuteIs ==
    ASSUME NEW s, Sound(s), NEW c \in Command
    PROVE  /\ Sound(Execute(s, c)) /\ Execute(s, c).queue = s.queue
           /\ Execute(s, c).state \in {s.state, "Moving", "Dwelling"}
  <1>1. CanBeQueued(c) /\ s \in Machine
    BY MotionAssumption DEF Sound
  <1>2. CASE c.op \in MoveOps
    <2>1. Execute(s, c) = BeginMove(s, Delta(s, c))
      BY <1>2 DEF Execute, MoveOps
    <2>2. Delta(s, c) \in Point
      BY <1>1, <1>2, DeltaIs DEF Machine
    <2> QED
      BY <2>1, <2>2, BeginMoveIs
  <1>3. CASE c.op = "speed"
    <2> DEFINE r == [s EXCEPT !.rate[c.group] = c.value]
    <2>1. Execute(s, c) = r
      BY <1>3 DEF Execute, MoveOps
    <2>2. c.group \in Groups /\ c.value \in Nat /\ (c.value > 0 => Unit % c.value = 0)
      BY <1>1, <1>3, MotionAssumption DEF CanBeQueued, MoveOps
    <2>3. /\ r \in Machine /\ r.rate = [s.rate EXCEPT ![c.group] = c.value] /\ r.pos = s.pos
          /\ r.queue = s.queue /\ r.move = s.move /\ r.state = s.state /\ r.paused = s.paused
      BY <1>1, <2>2 DEF Machine
    <2>4. \A g \in Groups : r.rate[g] > 0 => Unit % r.rate[g] = 0
      BY <1>1, <2>2, <2>3 DEF Sound, Machine
    <2> HIDE DEF r
    <2> QED
      BY <2>1, <2>3, <2>4 DEF Sound, MoveIsSound
  <1>4. CASE c.op \in {"laser_on", "laser_off", "power", "raster"}
    <2>1. \E laser \in [on : BOOLEAN, power : Int, rasters : Seq(Int)] :
             Execute(s, c) = [s EXCEPT !.laser = laser]
      <3>1. CASE c.op \in {"laser_on", "laser_off"}
        <4>1. Execute(s, c) = [s EXCEPT !.laser = [s.laser EXCEPT !.on = (c.op = "laser_on")]]
          BY <1>1, <3>1 DEF Execute, MoveOps, Machine
        <4>2. [s.laser EXCEPT !.on = (c.op = "laser_on")]
                \in [on : BOOLEAN, power : Int, rasters : Seq(Int)]
          BY <1>1 DEF Machine
        <4> QED
          BY <4>1, <4>2
      <3>2. CASE c.op = "power"
        <4>1. Execute(s, c) = [s EXCEPT !.laser = [s.laser EXCEPT !.power = c.value,
                                                                 !.rasters = <<>>]]
          BY <1>1, <3>2 DEF Execute, MoveOps, Machine
        <4>2. [s.laser EXCEPT !.power = c.value, !.rasters = <<>>]
                \in [on : BOOLEAN, power : Int, rasters : Seq(Int)]
          <5>1. c.value \in Int
            BY <1>1, <3>2 DEF CanBeQueued, MoveOps
          <5>2. s.laser \in [on : BOOLEAN, power : Int, rasters : Seq(Int)] /\ <<>> \in Seq(Int)
            BY <1>1 DEF Machine
          <5> QED
            BY <5>1, <5>2
        <4> QED
          BY <4>1, <4>2
      <3>3. CASE c.op = "raster"
        <4>1. Execute(s, c) = [s EXCEPT !.laser = [s.laser EXCEPT !.rasters = c.powers]]
          BY <1>1, <3>3 DEF Execute, MoveOps, Machine
        <4>2. [s.laser EXCEPT !.rasters = c.powers]
                \in [on : BOOLEAN, power : Int, rasters : Seq(Int)]
          BY <1>1, <3>3 DEF Machine, CanBeQueued, MoveOps
        <4> QED
          BY <4>1, <4>2
      <3> QED
        BY <1>4, <3>1, <3>2, <3>3
    <2>2. PICK laser \in [on : BOOLEAN, power : Int, rasters : Seq(Int)] :
             Execute(s, c) = [s EXCEPT !.laser = laser]
      BY <2>1
    <2> DEFINE r == [s EXCEPT !.laser = laser]
    <2>3. /\ r \in Machine /\ r.rate = s.rate /\ r.pos = s.pos /\ r.queue = s.queue
          /\ r.move = s.move /\ r.state = s.state /\ r.paused = s.paused
      BY <1>1 DEF Machine
    <2> HIDE DEF r
    <2>4. Sound(r)
      BY <2>3 DEF Sound, MoveIsSound
    <2>5. Execute(s, c) = r
      BY <2>2 DEF r
    <2> QED
      BY <2>3, <2>4, <2>5
  <1>5. CASE c.op = "dwell"
    <2> DEFINE dwell == IF c.value < MaxDwell THEN c.value ELSE MaxDwell
               r == [s EXCEPT !.state = "Dwelling", !.dwell = dwell]
    <2>1. Execute(s, c) = r
      BY <1>5 DEF Execute, MoveOps
    <2>2. dwell \in Nat
      BY <1>1, <1>5, MotionAssumption DEF CanBeQueued, MoveOps
    <2> HIDE DEF dwell
    <2>3. /\ r \in Machine /\ r.rate = s.rate /\ r.pos = s.pos /\ r.queue = s.queue
          /\ r.move = s.move /\ r.state = "Dwelling" /\ r.paused = s.paused
      BY <1>1, <2>2 DEF Machine, MotionStates
    <2> HIDE DEF r
    <2> QED
      BY <2>1, <2>3 DEF Sound, MoveIsSound
  <1>6. CASE c.op \in {"cut_from", "job_end"}
    <2>1. \E origin \in Point : Execute(s, c) = [s EXCEPT !.origin = origin, !.stale = FALSE]
      <3>1. Zero \in Point
        BY DEF Zero, Point
      <3>2. CutFrom(s, c.code) \in Point
        <4>1. /\ s.pos \in Point /\ s.origin \in Point
              /\ UserOrigin.x \in Int /\ UserOrigin.y \in Int
          BY <1>1, MotionAssumption DEF Machine
        <4> QED
          BY <3>1, <4>1 DEF CutFrom, Point, Axes
      <3> QED
        BY <1>6, <3>1, <3>2 DEF Execute, MoveOps
    <2>2. PICK origin \in Point : Execute(s, c) = [s EXCEPT !.origin = origin, !.stale = FALSE]
      BY <2>1
    <2> DEFINE r == [s EXCEPT !.origin = origin, !.stale = FALSE]
    <2>3. /\ r \in Machine /\ r.rate = s.rate /\ r.pos = s.pos /\ r.queue = s.queue
          /\ r.move = s.move /\ r.state = s.state /\ r.paused = s.paused
      BY <1>1 DEF Machine
    <2> HIDE DEF r
    <2>4. Sound(r)
      BY <2>3 DEF Sound, MoveIsSound
    <2>5. Execute(s, c) = r
      BY <2>2 DEF r
    <2> QED
      BY <2>3, <2>4, <2>5
  <1> QED
    BY <1>1, <1>2, <1>3, <1>4, <1>5, <1>6 DEF CanBeQueued

LEMMA TakeNextIs ==
    ASSUME NEW s, Sound(s), NEW rotary \in Axes \cup {NoAxis}
    PROVE  /\ Sound(TakeNext(s, rotary))
           /\ s.queue = <<>> => TakeNext(s, rotary) = [s EXCEPT !.rotary = rotary]
           /\ s.queue # <<>> =>
                 /\ Len(TakeNext(s, rotary).queue) = Len(s.queue) - 1
                 /\ TakeNext(s, rotary).state \in {s.state, "Moving", "Dwelling"}
  <1> DEFINE r == [s EXCEPT !.rotary = rotary]
             t == [r EXCEPT !.queue = Tail(@)]
  <1>1. s \in Machine /\ r \in Machine /\ r.queue = s.queue
    BY DEF Sound, Machine
  <1>2. Sound(r)
    <2>1. /\ r.rate = s.rate /\ r.pos = s.pos /\ r.move = s.move /\ r.state = s.state
          /\ r.paused = s.paused
      BY <1>1 DEF Machine
    <2> HIDE DEF r
    <2> QED
      BY <1>1, <2>1 DEF Sound, MoveIsSound
  <1>3. CASE s.queue = <<>>
    BY <1>1, <1>2, <1>3 DEF TakeNext
  <1>4. CASE s.queue # <<>>
    <2>1. /\ s.queue \in Seq(Command) /\ Head(s.queue) \in Command /\ Tail(s.queue) \in Seq(Command)
          /\ Len(Tail(s.queue)) = Len(s.queue) - 1
      BY <1>1, <1>4 DEF Machine
    <2>2. TakeNext(s, rotary) = Execute(t, Head(s.queue))
      <3>1. TakeNext(s, rotary) = IF r.queue = <<>> THEN r ELSE Execute(t, Head(r.queue))
        BY DEF TakeNext
      <3> HIDE DEF r, t
      <3> QED
        BY <1>1, <1>4, <3>1
    <2>3. /\ t \in Machine /\ t.queue = Tail(s.queue) /\ t.rate = s.rate /\ t.pos = s.pos
          /\ t.move = s.move /\ t.state = s.state /\ t.paused = s.paused
      BY <1>1, <2>1 DEF Machine
    <2> HIDE DEF r, t
    <2>4. Len(t.queue) <= QueueCap
      <3>1. Len(s.queue) \in Nat /\ Len(s.queue) <= QueueCap /\ QueueCap \in Nat
        BY <2>1, MotionAssumption DEF Sound
      <3> QED
        BY <2>1, <2>3, <3>1
    <2>5. Sound(t)
      BY <2>3, <2>4 DEF Sound, MoveIsSound
    <2>6. /\ Sound(Execute(t, Head(s.queue))) /\ Execute(t, Head(s.queue)).queue = t.queue
          /\ Execute(t, Head(s.queue)).state \in {t.state, "Moving", "Dwelling"}
      BY <2>1, <2>5, ExecuteIs
    <2> QED
      BY <1>4, <2>1, <2>2, <2>3, <2>6
  <1> QED
    BY <1>3, <1>4

-----------------------------------------------------------------------------
(* A pass: how long there is to go, and what it makes of the machine.      *)

Left(s) == (s.move.length * Unit - s.move.traveled) \div s.move.speed

LEMMA LeftIs ==
    ASSUME NEW s, Sound(s), s.move.speed > 0
    PROVE  /\ Left(s) \in Nat
           /\ s.move.traveled + s.move.speed * Left(s) = s.move.length * Unit
           /\ \A u \in Nat : u < Left(s) <=>
                 s.move.traveled + s.move.speed * u < s.move.length * Unit
  <1> DEFINE v == s.move.speed
             path == s.move.length * Unit
  <1>1. PICK p, t \in Nat : t <= p /\ path = v * p /\ s.move.traveled = v * t
    BY DEF Sound, MoveIsSound
  <1>2. v \in Nat \ {0}
    BY DEF Sound, Machine
  <1>3. Left(s) = p - t
    <2>1. path - s.move.traveled = v * (p - t)
      BY <1>1, <1>2, Product
    <2>2. p - t \in Int
      BY <1>1
    <2> HIDE DEF v, path
    <2>3. (v * (p - t)) \div v = p - t
      BY <1>2, <2>2, ExactQuotient
    <2> QED
      BY <2>1, <2>3 DEF Left, v, path
  <1>4. \A u \in Int : s.move.traveled + v * u = v * (t + u)
    BY <1>1, <1>2, Product
  <1> HIDE DEF v, path
  <1>5. ASSUME NEW u \in Nat PROVE u < Left(s) <=> s.move.traveled + v * u < path
    <2>1. t + u < p <=> v * (t + u) < v * p
      BY <1>1, <1>2, Monotone
    <2> QED
      BY <1>1, <1>3, <1>4, <2>1
  <1>6. s.move.traveled + v * (p - t) = path
    <2>1. p - t \in Int /\ t + (p - t) = p
      BY <1>1
    <2> QED
      BY <1>1, <1>4, <2>1
  <1> QED
    BY <1>1, <1>3, <1>5, <1>6 DEF v, path

(* What there is of the machine and of dt. *)
Good == {at \in Machine \X Nat : Sound(at[1])}

Finished(s, rotary, dt) ==
    \/ dt = 0 \/ s.state = "Paused"
    \/ s.state = "Idle" /\ s.queue = <<>> /\ s.rotary = rotary

Rank(s) == 2 * Len(s.queue) + IF s.state = "Idle" THEN 1 ELSE 2

LEMMA PassIs ==
    ASSUME NEW s, Sound(s), NEW rotary \in Axes \cup {NoAxis}, NEW dt \in Nat
    PROVE  \E r, d : /\ Pass(s, rotary, dt) = <<r, d>> /\ Sound(r) /\ d \in Nat
                     /\ Finished(s, rotary, dt) => r = s /\ d = dt
                     /\ Finished(r, rotary, d) \/ Rank(r) < Rank(s)
  <1>0. s \in Machine /\ s.state \in MotionStates /\ Len(s.queue) \in Nat
    BY DEF Sound, Machine
  <1>1. CASE dt = 0 \/ s.state = "Paused"
    BY <1>1 DEF Pass, Finished
  <1>2. CASE dt # 0 /\ s.state = "Idle"
    <2> DEFINE r == TakeNext(s, rotary)
    <2>1. Pass(s, rotary, dt) = <<r, dt>>
      BY <1>2 DEF Pass
    <2>2. Sound(r)
      BY TakeNextIs
    <2>3. CASE s.queue = <<>>
      <3>1. r = [s EXCEPT !.rotary = rotary]
        BY <2>3, TakeNextIs
      <3>2. r.state = "Idle" /\ r.queue = <<>> /\ r.rotary = rotary
        BY <1>0, <1>2, <2>3, <3>1 DEF Machine
      <3>3. s.rotary = rotary => r = s
        BY <1>0, <3>1 DEF Machine
      <3> HIDE DEF r
      <3> QED
        BY <1>2, <2>1, <2>2, <3>2, <3>3 DEF Finished
    <2>4. CASE s.queue # <<>>
      <3>1. Len(r.queue) = Len(s.queue) - 1
        BY <2>4, TakeNextIs
      <3> HIDE DEF r
      <3>2. Rank(r) < Rank(s)
        <4>1. Rank(s) = 2 * Len(s.queue) + 1
          BY <1>2 DEF Rank
        <4>2. Len(r.queue) \in Nat /\ (Rank(r) = 2 * Len(r.queue) + 1 \/ Rank(r) = 2 * Len(r.queue) + 2)
          <5>1. Len(r.queue) \in Nat
            BY <2>2 DEF Sound, Machine
          <5> QED
            BY <5>1 DEF Rank
        <4> QED
          BY <1>0, <3>1, <4>1, <4>2
      <3> QED
        BY <1>2, <2>1, <2>2, <2>4, <3>2 DEF Finished
    <2> QED
      BY <2>3, <2>4
  <1>3. CASE dt # 0 /\ s.state = "Moving"
    <2>0. s.move.speed > 0
      BY <1>3 DEF Sound, MoveIsSound
    <2>1. /\ Left(s) \in Nat
          /\ s.move.traveled + s.move.speed * Left(s) = s.move.length * Unit
          /\ \A u \in Nat : u < Left(s) <=>
                s.move.traveled + s.move.speed * u < s.move.length * Unit
      BY <2>0, LeftIs
    <2>2. CASE dt < Left(s)
      <3> DEFINE r == Moved(s, s.move.speed * dt)
      <3>1. Pass(s, rotary, dt) = <<r, 0>>
        BY <1>3, <2>2 DEF Pass, Left
      <3>2. Sound(r)
        <4>1. s.move.traveled + s.move.speed * dt <= s.move.length * Unit
          <5>1. /\ s.move.traveled + s.move.speed * dt \in Int
                /\ s.move.length * Unit \in Int
            BY <1>0, MotionAssumption DEF Machine
          <5> QED
            BY <2>1, <2>2, <5>1
        <4> QED
          BY <2>0, <4>1, MovedIs
      <3> HIDE DEF r
      <3> QED
        BY <1>3, <3>1, <3>2 DEF Finished
    <2>3. CASE ~(dt < Left(s))
      <3> DEFINE r == Moved(s, s.move.speed * Left(s))
      <3>1. Pass(s, rotary, dt) = <<r, dt - Left(s)>> /\ dt - Left(s) \in Nat
        BY <1>3, <2>1, <2>3 DEF Pass, Left, LeftOver
      <3>2. Sound(r) /\ r.queue = s.queue /\ r.state = "Idle"
        <4>1. s.move.length * Unit \in Nat
          BY <2>0, PathOf
        <4>2. s.move.traveled + s.move.speed * Left(s) <= s.move.length * Unit
          BY <2>1, <4>1
        <4> QED
          BY <2>0, <2>1, <4>2, MovedIs
      <3> HIDE DEF r
      <3>3. Rank(r) < Rank(s)
        BY <1>0, <1>3, <3>2 DEF Rank
      <3> QED
        BY <1>3, <3>1, <3>2, <3>3 DEF Finished
    <2> QED
      BY <2>2, <2>3
  <1>4. CASE dt # 0 /\ s.state = "Jogging"
    <2>1. Pass(s, rotary, dt) = <<Jogged(s, dt), 0>>
      BY <1>4 DEF Pass
    <2>2. Sound(Jogged(s, dt))
      BY JoggedIs
    <2> QED
      BY <1>4, <2>1, <2>2 DEF Finished
  <1>5. CASE dt # 0 /\ s.state = "Dwelling"
    <2>0. s.dwell \in Nat
      BY <1>0 DEF Machine
    <2>1. CASE dt < s.dwell
      <3> DEFINE left == s.dwell - dt
                 r == [s EXCEPT !.dwell = left]
      <3>1. Pass(s, rotary, dt) = <<r, 0>> /\ left \in Nat
        <4>1. Pass(s, rotary, dt) = <<r, 0>>
          BY <1>5, <2>1 DEF Pass
        <4> QED
          BY <2>0, <2>1, <4>1
      <3> HIDE DEF left
      <3>2. /\ r \in Machine /\ r.rate = s.rate /\ r.pos = s.pos /\ r.queue = s.queue
            /\ r.move = s.move /\ r.state = s.state /\ r.paused = s.paused
        BY <1>0, <3>1 DEF Machine
      <3> HIDE DEF r
      <3>3. Sound(r)
        BY <3>2 DEF Sound, MoveIsSound
      <3> QED
        BY <1>5, <3>1, <3>3 DEF Finished
    <2>2. CASE ~(dt < s.dwell)
      <3> DEFINE r == [s EXCEPT !.dwell = 0, !.state = "Idle"]
      <3>1. Pass(s, rotary, dt) = <<r, dt - s.dwell>> /\ dt - s.dwell \in Nat
        BY <1>5, <2>0, <2>2 DEF Pass, LeftOver
      <3>2. /\ r \in Machine /\ r.rate = s.rate /\ r.pos = s.pos /\ r.queue = s.queue
            /\ r.move = s.move /\ r.state = "Idle" /\ r.paused = s.paused
        BY <1>0 DEF Machine, MotionStates
      <3> HIDE DEF r
      <3>3. Sound(r)
        BY <3>2 DEF Sound, MoveIsSound
      <3>4. Rank(r) < Rank(s)
        BY <1>0, <1>5, <3>2 DEF Rank
      <3> QED
        BY <1>5, <3>1, <3>3, <3>4 DEF Finished
    <2> QED
      BY <2>1, <2>2
  <1> QED
    BY <1>0, <1>1, <1>2, <1>3, <1>4, <1>5 DEF MotionStates

-----------------------------------------------------------------------------
(* The loop: there are passes enough.                                      *)

LEMMA RankIs == ASSUME NEW s, Sound(s) PROVE Rank(s) \in Nat \ {0} /\ Rank(s) <= MaxPasses
  <1>1. Len(s.queue) \in Nat /\ Len(s.queue) <= QueueCap /\ QueueCap \in Nat
    BY MotionAssumption DEF Sound, Machine
  <1>2. Rank(s) = 2 * Len(s.queue) + 1 \/ Rank(s) = 2 * Len(s.queue) + 2
    BY DEF Rank
  <1> QED
    BY <1>1, <1>2 DEF MaxPasses

LEMMA PassOf ==
    ASSUME NEW rotary \in Axes \cup {NoAxis}, NEW at \in Good
    PROVE  LET to == Pass(at[1], rotary, at[2])
           IN  /\ to \in Good
               /\ Finished(at[1], rotary, at[2]) => to = at
               /\ Finished(to[1], rotary, to[2]) \/ Rank(to[1]) < Rank(at[1])
  <1> DEFINE s == at[1]
             dt == at[2]
             to == Pass(s, rotary, dt)
  <1>1. Sound(s) /\ dt \in Nat /\ at = <<s, dt>>
    BY DEF Good
  <1> HIDE DEF s, dt
  <1>2. PICK r, d : /\ Pass(s, rotary, dt) = <<r, d>> /\ Sound(r) /\ d \in Nat
                    /\ Finished(s, rotary, dt) => r = s /\ d = dt
                    /\ Finished(r, rotary, d) \/ Rank(r) < Rank(s)
    BY <1>1, PassIs
  <1>3. to[1] = r /\ to[2] = d /\ to = <<r, d>>
    BY <1>2
  <1>4. to \in Good
    BY <1>2, <1>3 DEF Good, Sound
  <1> HIDE DEF to
  <1>5. /\ to \in Good
        /\ Finished(s, rotary, dt) => to = at
        /\ Finished(to[1], rotary, to[2]) \/ Rank(to[1]) < Rank(s)
    BY <1>1, <1>2, <1>3, <1>4
  <1> QED
    BY <1>5 DEF s, dt, to

LEMMA LoopIsPass ==
    ASSUME NEW rotary \in Axes \cup {NoAxis}
    PROVE  /\ MaxPasses \in Nat /\ MaxPasses >= 2
           /\ \A n \in Nat : n <= MaxPasses => Keeps(Loop(rotary), n, Good)
           /\ \A k \in 1..MaxPasses, at \in Good :
                 Loop(rotary)[k][at] = Pass(at[1], rotary, at[2])
  <1>1. MaxPasses \in Nat /\ MaxPasses >= 2
    BY MotionAssumption DEF MaxPasses
  <1>2. ASSUME NEW k \in 1..MaxPasses, NEW at \in Good
        PROVE  Loop(rotary)[k][at] = Pass(at[1], rotary, at[2])
    <2>1. at \in Machine \X Nat
      BY DEF Good
    <2> QED
      BY <2>1 DEF Loop
  <1>3. ASSUME NEW at \in Good PROVE Pass(at[1], rotary, at[2]) \in Good
    BY PassOf
  <1> QED
    BY <1>1, <1>2, <1>3 DEF Keeps

(* What the loop makes of a machine, and what it leaves of dt. *)
Ended(at, rotary) == AfterLoop(MaxPasses, at, Loop(rotary))

LEMMA FinishedStays ==
    ASSUME NEW rotary \in Axes \cup {NoAxis}, NEW at \in Good, Finished(at[1], rotary, at[2])
    PROVE  Ended(at, rotary) = at
  <1> DEFINE f == [k \in 0..MaxPasses |-> at]
  <1>1. Pass(at[1], rotary, at[2]) = at
    BY PassOf
  <1>2. RunIs(f, MaxPasses, at, Loop(rotary))
    <2>1. f[0] = at
      BY LoopIsPass
    <2>2. \A k \in 1..MaxPasses : f[k] = Loop(rotary)[k][f[k - 1]]
      BY <1>1, LoopIsPass
    <2> QED
      BY <2>1, <2>2 DEF RunIs
  <1>3. f[MaxPasses] = at
    BY LoopIsPass
  <1>4. MaxPasses \in Nat /\ Keeps(Loop(rotary), MaxPasses, Good)
    BY LoopIsPass
  <1> HIDE DEF f
  <1> QED
    BY <1>2, <1>3, <1>4, AfterLoopEnds DEF Ended

(* There are passes enough. *)
LEMMA PassesSuffice ==
    ASSUME NEW rotary \in Axes \cup {NoAxis}, NEW at \in Good
    PROVE  Ended(at, rotary) \in Good
           /\ Finished(Ended(at, rotary)[1], rotary, Ended(at, rotary)[2])
  <1>1. MaxPasses \in Nat /\ Keeps(Loop(rotary), MaxPasses, Good)
    BY LoopIsPass
  <1>2. PICK f \in [0..MaxPasses -> Good] :
               RunIs(f, MaxPasses, at, Loop(rotary)) /\ f[MaxPasses] = Ended(at, rotary)
    BY <1>1, AfterLoopWithin DEF Ended
  <1> DEFINE Ok(k) == \/ Finished(f[k][1], rotary, f[k][2])
                      \/ Rank(f[k][1]) <= MaxPasses - k
             S == {k \in 0..MaxPasses : Ok(k)}
  <1>3. \A k \in 0..MaxPasses : f[k] \in Good /\ Rank(f[k][1]) \in Nat \ {0}
    <2>1. \A g \in Good : Sound(g[1])
      BY DEF Good
    <2> QED
      BY <2>1, RankIs
  <1>4. 0 \in S
    <2>1. f[0] = at /\ Sound(at[1])
      BY <1>2 DEF RunIs, Good
    <2>2. Rank(at[1]) <= MaxPasses - 0
      BY <1>1, <2>1, RankIs
    <2> QED
      BY <1>1, <2>1, <2>2
  <1>5. ASSUME NEW k \in 0..(MaxPasses - 1), k \in S PROVE k + 1 \in S
    <2>1. k + 1 \in 1..MaxPasses /\ k + 1 \in 0..MaxPasses /\ (k + 1) - 1 = k /\ k \in 0..MaxPasses
      BY <1>1
    <2>2. f[k + 1] = Pass(f[k][1], rotary, f[k][2])
      <3>1. f[k + 1] = Loop(rotary)[k + 1][f[k]]
        BY <1>2, <2>1 DEF RunIs
      <3> QED
        BY <1>3, <2>1, <3>1, LoopIsPass
    <2>3. /\ Finished(f[k][1], rotary, f[k][2]) => f[k + 1] = f[k]
          /\ Finished(f[k + 1][1], rotary, f[k + 1][2]) \/ Rank(f[k + 1][1]) < Rank(f[k][1])
      BY <1>3, <2>1, <2>2, PassOf
    <2>4. CASE Finished(f[k][1], rotary, f[k][2]) \/ Finished(f[k + 1][1], rotary, f[k + 1][2])
      BY <2>1, <2>3, <2>4
    <2>5. CASE Rank(f[k][1]) <= MaxPasses - k /\ Rank(f[k + 1][1]) < Rank(f[k][1])
      <3>1. Rank(f[k + 1][1]) <= MaxPasses - (k + 1)
        BY <1>1, <1>3, <2>1, <2>5
      <3> QED
        BY <2>1, <3>1
    <2> QED
      BY <1>5, <2>3, <2>4, <2>5
  <1>6. Ok(MaxPasses)
    <2>1. 0..MaxPasses \subseteq S
      <3> HIDE DEF S
      <3> QED
        BY <1>1, <1>4, <1>5, BoundedInduction
    <2> QED
      BY <1>1, <2>1
  <1>7. MaxPasses \in 0..MaxPasses /\ MaxPasses - MaxPasses = 0
    BY <1>1
  <1>8. Finished(f[MaxPasses][1], rotary, f[MaxPasses][2])
    <2>1. Rank(f[MaxPasses][1]) \in Nat \ {0}
      BY <1>3, <1>7
    <2>2. ~(Rank(f[MaxPasses][1]) <= 0)
      BY <2>1
    <2> QED
      BY <1>6, <1>7, <2>2
  <1> QED
    BY <1>2, <1>3, <1>7, <1>8

(* And so a pass may go first. *)
LEMMA PassFirst ==
    ASSUME NEW rotary \in Axes \cup {NoAxis}, NEW at \in Good
    PROVE  Ended(Pass(at[1], rotary, at[2]), rotary) = Ended(at, rotary)
  <1> DEFINE n == MaxPasses
             passes == [k \in 1..(n + 1) |-> Loop(rotary)[1]]
  <1>1. n \in Nat /\ n + 1 \in Nat /\ n >= 2 /\ 1 \in 1..n
    BY LoopIsPass
  <1>2. \A k \in 1..n : Loop(rotary)[k] = passes[k + 1] /\ Loop(rotary)[k] = passes[k]
    BY <1>1 DEF Loop
  <1>3. Keeps(passes, n + 1, Good)
    <2>1. Keeps(Loop(rotary), n, Good)
      BY <1>1, LoopIsPass
    <2> QED
      BY <1>1, <2>1 DEF Keeps
  <1>4. passes[1] = Loop(rotary)[1] /\ passes[n + 1] = Loop(rotary)[1]
    BY <1>1
  <1> HIDE DEF passes
  <1>5. PICK f \in [0..(n + 1) -> Good] :
               RunIs(f, n + 1, at, passes) /\ f[n + 1] = AfterLoop(n + 1, at, passes)
    BY <1>1, <1>3, AfterLoopWithin
  <1>6. f[n] = Ended(at, rotary)
    <2>1. RunIs(f, n, at, Loop(rotary))
      <3>1. \A k \in 1..n : k \in 1..(n + 1)
        BY <1>1
      <3> QED
        BY <1>2, <1>5, <3>1 DEF RunIs
    <2>2. Keeps(Loop(rotary), n, Good)
      BY <1>1, LoopIsPass
    <2> QED
      BY <1>1, <2>1, <2>2, AfterLoopEnds DEF Ended
  <1>7. f[n + 1] = f[n]
    <2>1. n + 1 \in 1..(n + 1) /\ (n + 1) - 1 = n
      BY <1>1
    <2>2. f[n + 1] = Loop(rotary)[1][f[n]]
      BY <1>4, <1>5, <2>1 DEF RunIs
    <2>3. f[n] \in Good /\ Finished(f[n][1], rotary, f[n][2])
      BY <1>6, PassesSuffice
    <2>4. f[n + 1] = Pass(f[n][1], rotary, f[n][2])
      BY <1>1, <2>2, <2>3, LoopIsPass
    <2> QED
      BY <2>3, <2>4, PassOf
  <1>8. passes[1][at] = Pass(at[1], rotary, at[2])
    BY <1>1, <1>4, LoopIsPass
  <1>9. AfterLoop(n + 1, at, passes) = AfterLoop(n, passes[1][at], Loop(rotary))
    BY <1>1, <1>2, <1>3, FirstPass
  <1> QED
    BY <1>5, <1>6, <1>7, <1>8, <1>9 DEF Ended

-----------------------------------------------------------------------------
(* What is cut in two.                                                     *)

LEMMA RasteredTwice ==
    ASSUME NEW laser \in [on : BOOLEAN, power : Int, rasters : Seq(Int)],
           NEW path \in Nat \ {0}, NEW t \in Nat, NEW u \in Nat, t # path
    PROVE  Rastered(Rastered(laser, t, path), u, path) = Rastered(laser, u, path)
  <1> DEFINE n == Len(laser.rasters)
             i(x) == (x * n) \div path
             k(x) == 1 + (IF i(x) < n THEN i(x) ELSE n - 1)
             rasters == IF u = path THEN <<>> ELSE laser.rasters
  <1>1. CASE n = 0
    BY <1>1 DEF Rastered
  <1>2. CASE n # 0
    <2>1. Rastered(laser, u, path) = [laser EXCEPT !.power = laser.rasters[k(u)],
                                                   !.rasters = rasters]
      BY <1>2 DEF Rastered
    <2> DEFINE half == [laser EXCEPT !.power = laser.rasters[k(t)]]
    <2>2. Rastered(laser, t, path) = half
      BY <1>2 DEF Rastered
    <2>3. half.rasters = laser.rasters
      OBVIOUS
    <2>4. Rastered(half, u, path) = [half EXCEPT !.power = laser.rasters[k(u)],
                                                 !.rasters = rasters]
      <3> HIDE DEF half
      <3> QED
        BY <1>2, <2>3 DEF Rastered
    <2> HIDE DEF k, rasters
    <2> QED
      BY <2>1, <2>2, <2>4
  <1> QED
    BY <1>1, <1>2

(* What a move changes, and a second time. *)
Changed(s, x, p, l, e) == [s EXCEPT !.move.traveled = x, !.pos = p, !.laser = l, !.state = e]

LEMMA ChangedTwice ==
    ASSUME NEW s \in Machine, NEW x1, NEW x2, NEW p1, NEW p2, NEW l1, NEW l2, NEW e1, NEW e2,
           NEW half, half = Changed(s, x1, p1, l1, e1)
    PROVE  /\ half.move.start = s.move.start /\ half.move.delta = s.move.delta
           /\ half.move.length = s.move.length /\ half.move.traveled = x1
           /\ half.rotary = s.rotary /\ half.laser = l1 /\ half.state = e1
           /\ Changed(half, x2, p2, l2, e2) = Changed(s, x2, p2, l2, e2)
  <1> DEFINE h1 == [s.move EXCEPT !.traveled = x1]
             h2 == [s.move EXCEPT !.traveled = x2]
  <1>1. h1.start = s.move.start /\ h1.delta = s.move.delta /\ h1.length = s.move.length
        /\ h1.traveled = x1 /\ [h1 EXCEPT !.traveled = x2] = h2
    BY DEF Machine
  <1> HIDE DEF h1, h2
  <1>2. half = [s EXCEPT !.move = h1, !.pos = p1, !.laser = l1, !.state = e1]
    BY DEF Machine, Changed, h1
  <1>3. Changed(s, x2, p2, l2, e2) = [s EXCEPT !.move = h2, !.pos = p2, !.laser = l2, !.state = e2]
    BY DEF Machine, Changed, h2
  <1>4. half.move = h1 /\ half.rotary = s.rotary /\ half.laser = l1 /\ half.state = e1
    BY <1>2 DEF Machine
  <1>5. Changed(half, x2, p2, l2, e2)
          = [half EXCEPT !.move = h2, !.pos = p2, !.laser = l2, !.state = e2]
    <2>1. Changed(half, x2, p2, l2, e2)
            = [half EXCEPT !.move = [half.move EXCEPT !.traveled = x2], !.pos = p2,
                           !.laser = l2, !.state = e2]
      BY DEF Changed
    <2>2. [half.move EXCEPT !.traveled = x2] = h2
      BY <1>1, <1>4
    <2> QED
      BY <2>1, <2>2
  <1>6. Changed(half, x2, p2, l2, e2) = Changed(s, x2, p2, l2, e2)
    BY <1>2, <1>3, <1>5, ZenonT(60) DEF Machine
  <1> QED
    BY <1>1, <1>4, <1>6

(* A move cut in two. *)
LEMMA MovedTwice ==
    ASSUME NEW s, Sound(s), s.move.speed > 0, NEW t \in Nat, NEW u \in Nat,
           s.move.traveled + s.move.speed * t < s.move.length * Unit
    PROVE  Moved(Moved(s, s.move.speed * t), s.move.speed * u)
             = Moved(s, s.move.speed * (t + u))
  <1> DEFINE v == s.move.speed
             path == s.move.length * Unit
             half == Moved(s, v * t)
             At(x) == ApplyLimits(s.rotary,
                        [a \in Axes |-> s.move.start[a] + Rounded(s.move.delta[a] * x, path)])
             x1 == s.move.traveled + v * t
             x2 == s.move.traveled + v * (t + u)
             laser(x) == Rastered(s.laser, x, path)
             state(x) == IF x = path THEN "Idle" ELSE s.state
  <1>1. /\ s \in Machine /\ v \in Nat \ {0} /\ path \in Nat \ {0} /\ x1 \in Nat /\ x2 \in Nat
        /\ x1 + v * u = x2 /\ x1 # path
    <2>1. s \in Machine /\ v \in Nat \ {0} /\ s.move.traveled \in Nat
      BY DEF Sound, Machine
    <2>2. /\ v * t \in Nat /\ v * u \in Nat /\ v * (t + u) = v * t + v * u
      BY <2>1, Sign, Product
    <2>3. path \in Nat \ {0}
      BY PathOf
    <2> HIDE DEF v, path
    <2>4. x1 < path
      BY DEF v, path
    <2> QED
      BY <2>1, <2>2, <2>3, <2>4
  <1>2. \A y \in Int : Moved(s, y)
            = Changed(s, s.move.traveled + y, At(s.move.traveled + y),
                      laser(s.move.traveled + y), state(s.move.traveled + y))
    BY DEF Moved, Changed
  <1>3. half = Changed(s, x1, At(x1), laser(x1), s.state)
    <2>1. v * t \in Int
      BY <1>1
    <2> QED
      BY <1>1, <1>2, <2>1
  <1>4. Moved(s, v * (t + u)) = Changed(s, x2, At(x2), laser(x2), state(x2))
    <2>1. v * (t + u) \in Int
      BY <1>1
    <2> QED
      BY <1>2, <2>1
  <1>5. /\ half.move.start = s.move.start /\ half.move.delta = s.move.delta
        /\ half.move.length = s.move.length /\ half.move.traveled = x1
        /\ half.rotary = s.rotary /\ half.laser = laser(x1) /\ half.state = s.state
        /\ Changed(half, x2, At(x2), laser(x2), state(x2))
             = Changed(s, x2, At(x2), laser(x2), state(x2))
    <2> HIDE DEF half, x1, x2, At, laser, state
    <2> QED
      BY <1>1, <1>3, ChangedTwice
  <1>6. Rastered(laser(x1), x2, path) = laser(x2)
    <2>1. s.laser \in [on : BOOLEAN, power : Int, rasters : Seq(Int)]
      BY <1>1 DEF Machine
    <2> HIDE DEF x1, x2, path, laser
    <2>2. x1 \in Nat /\ x2 \in Nat /\ path \in Nat \ {0} /\ x1 # path
      BY <1>1
    <2>3. Rastered(Rastered(s.laser, x1, path), x2, path) = Rastered(s.laser, x2, path)
      BY <2>1, <2>2, RasteredTwice
    <2> QED
      BY <2>3 DEF laser
  <1>7. Moved(half, v * u) = Changed(half, x2, At(x2), laser(x2), state(x2))
    <2>1. Moved(half, v * u) = Changed(half, x1 + v * u, At(x1 + v * u),
                                 Rastered(laser(x1), x1 + v * u, path), state(x1 + v * u))
      <3> HIDE DEF half, x1, laser
      <3> QED
        BY <1>5 DEF Moved, Changed
    <2> QED
      BY <1>1, <1>6, <2>1
  <1> HIDE DEF x1, x2, At, laser, state, half
  <1> QED
    BY <1>4, <1>5, <1>7 DEF half

LEMMA JoggedTwice ==
    ASSUME NEW s, Sound(s), NEW t \in Nat, NEW u \in Nat
    PROVE  Jogged(Jogged(s, t), u) = Jogged(s, t + u)
  <1> DEFINE v == s.jog.speed
             At(x) == ApplyLimits(s.rotary, [a \in Axes |->
                                 s.jog.start[a] + Rounded(s.jog.dir[a] * x, Unit)])
             x1 == s.jog.traveled + v * t
             x2 == s.jog.traveled + v * (t + u)
             half == Jogged(s, t)
  <1>1. s \in Machine /\ x1 + v * u = x2
    <2>1. s \in Machine /\ v \in Nat /\ s.jog.traveled \in Nat
      BY DEF Sound, Machine
    <2>2. v * t \in Nat /\ v * u \in Nat /\ v * (t + u) = v * t + v * u
      BY <2>1, Sign, Product
    <2> HIDE DEF v
    <2> QED
      BY <2>1, <2>2
  <1>2. half = [s EXCEPT !.jog.traveled = x1, !.pos = At(x1)]
    BY DEF Jogged
  <1>3. Jogged(s, t + u) = [s EXCEPT !.jog.traveled = x2, !.pos = At(x2)]
    BY DEF Jogged
  <1>4. /\ half.jog.start = s.jog.start /\ half.jog.dir = s.jog.dir /\ half.jog.speed = v
        /\ half.jog.traveled = x1 /\ half.rotary = s.rotary
    <2> HIDE DEF x1, At
    <2> QED
      BY <1>1, <1>2 DEF Machine
  <1>5. Jogged(half, u) = [half EXCEPT !.jog.traveled = x2, !.pos = At(x2)]
    <2>1. Jogged(half, u) = [half EXCEPT !.jog.traveled = x1 + v * u, !.pos = At(x1 + v * u)]
      <3> HIDE DEF half, x1, v
      <3> QED
        BY <1>4 DEF Jogged
    <2> QED
      BY <1>1, <2>1
  <1> HIDE DEF x1, x2, At
  <1>6. [half EXCEPT !.jog.traveled = x2, !.pos = At(x2)]
          = [s EXCEPT !.jog.traveled = x2, !.pos = At(x2)]
    <2> HIDE DEF half
    <2> QED
      BY <1>1, <1>2 DEF Machine
  <1> QED
    BY <1>3, <1>5, <1>6

(* What a pass with time left does. *)
LEMMA PassDoes ==
    ASSUME NEW s, NEW rotary, NEW n \in Nat, n # 0
    PROVE  /\ s.state = "Moving" =>
                /\ n < Left(s) => Pass(s, rotary, n) = <<Moved(s, s.move.speed * n), 0>>
                /\ ~(n < Left(s)) => Pass(s, rotary, n) = <<Moved(s, s.move.speed * Left(s)), n - Left(s)>>
           /\ s.state = "Jogging" => Pass(s, rotary, n) = <<Jogged(s, n), 0>>
           /\ s.state = "Dwelling" =>
                /\ n < s.dwell => Pass(s, rotary, n) = <<[s EXCEPT !.dwell = s.dwell - n], 0>>
                /\ ~(n < s.dwell) => Pass(s, rotary, n)
                                       = <<[s EXCEPT !.dwell = 0, !.state = "Idle"], n - s.dwell>>
  BY DEF Pass, Left, LeftOver

(* A pass with more time to it does the same, and keeps what is more; or  *)
(* it used its time up, and goes on.                                      *)
LEMMA PassSplits ==
    ASSUME NEW s, Sound(s), NEW rotary, NEW a \in Nat, NEW b \in Nat,
           NEW r, NEW d \in Nat, Pass(s, rotary, a) = <<r, d>>
    PROVE  \/ Pass(s, rotary, a + b) = <<r, d + b>>
           \/ d = 0 /\ Pass(s, rotary, a + b) = Pass(r, rotary, b)
  <1>0. s \in Machine /\ s.state \in MotionStates /\ a + b \in Nat
    BY DEF Sound, Machine
  <1>1. CASE a = 0
    <2>1. r = s /\ d = 0
      BY <1>1 DEF Pass
    <2> QED
      BY <1>1, <2>1
  <1>2. CASE b = 0
    BY <1>2
  <1>3. CASE s.state = "Paused"
    BY <1>3 DEF Pass
  <1> SUFFICES ASSUME a # 0, b # 0, s.state # "Paused"
               PROVE  \/ Pass(s, rotary, a + b) = <<r, d + b>>
                      \/ d = 0 /\ Pass(s, rotary, a + b) = Pass(r, rotary, b)
    BY <1>1, <1>2, <1>3
  <1> DEFINE n == a + b
  <1>4. n \in Nat /\ n # 0
    OBVIOUS
  <1> HIDE DEF n
  <1>5. CASE s.state = "Idle"
    <2>1. Pass(s, rotary, a) = <<TakeNext(s, rotary), a>>
          /\ Pass(s, rotary, n) = <<TakeNext(s, rotary), n>>
      BY <1>4, <1>5 DEF Pass
    <2> QED
      BY <2>1 DEF n
  <1>6. CASE s.state = "Moving"
    <2> DEFINE left == Left(s)
               v == s.move.speed
    <2>0. v \in Nat \ {0}
      BY <1>0, <1>6 DEF Sound, MoveIsSound, Machine
    <2>1. /\ left \in Nat
          /\ s.move.traveled + v * left = s.move.length * Unit
          /\ \A u \in Nat : u < left <=> s.move.traveled + v * u < s.move.length * Unit
      BY <2>0, LeftIs
    <2>2. CASE a < left
      <3>1. r = Moved(s, v * a) /\ d = 0
        BY <1>6, <2>2 DEF Pass, Left
      <3>2. s.move.traveled + v * a < s.move.length * Unit
        BY <2>1, <2>2
      <3>3. /\ Sound(r) /\ r.move = [s.move EXCEPT !.traveled = @ + v * a] /\ r.state = "Moving"
        <4>1. /\ s.move.traveled + v * a \in Int /\ s.move.length * Unit \in Int
          <5>1. s.move.traveled \in Nat /\ s.move.length \in Nat /\ Unit \in Nat
            BY <1>0, MotionAssumption DEF Machine
          <5> HIDE DEF v
          <5> QED
            BY <2>0, <5>1
        <4>2. /\ s.move.traveled + v * a <= s.move.length * Unit
              /\ s.move.traveled + v * a # s.move.length * Unit
          BY <3>2, <4>1
        <4> QED
          BY <1>6, <2>0, <3>1, <4>2, MovedIs
      <3>4. /\ r.move.speed = v /\ r.move.length = s.move.length
            /\ r.move.traveled = s.move.traveled + v * a
        BY <1>0, <3>3 DEF Machine
      <3>5. Left(r) = left - a
        <4>1. s.move.traveled \in Int /\ s.move.length * Unit \in Int
          BY <1>0, MotionAssumption DEF Machine
        <4> HIDE DEF left, v
        <4>2. left - a \in Int /\ v * (left - a) = v * left - v * a /\ v * left \in Int /\ v * a \in Int
          BY <2>0, <2>1, Product
        <4>3. s.move.length * Unit - (s.move.traveled + v * a) = v * (left - a)
          BY <2>1, <4>1, <4>2
        <4>4. (v * (left - a)) \div v = left - a
          BY <2>0, <4>2, ExactQuotient
        <4> QED
          BY <3>4, <4>3, <4>4 DEF Left
      <3>6. Moved(r, v * b) = Moved(s, v * (n))
        BY <2>0, <3>1, <3>2, MovedTwice DEF n
      <3>7. Moved(r, v * (left - a)) = Moved(s, v * left)
        <4>1. left - a \in Nat /\ a + (left - a) = left
          BY <2>1, <2>2
        <4>2. Moved(r, v * (left - a)) = Moved(s, v * (a + (left - a)))
          BY <2>0, <3>1, <3>2, <4>1, MovedTwice
        <4> QED
          BY <4>1, <4>2
      <3> HIDE DEF left, v
      <3>8. CASE n < left
        <4>1. Pass(s, rotary, n) = <<Moved(s, v * (n)), 0>>
          BY <1>4, <1>6, <3>8 DEF Pass, Left, left, v
        <4>2. b < left - a
          BY <2>1, <3>8 DEF n
        <4>3. Pass(r, rotary, b) = <<Moved(r, v * b), 0>>
          BY <3>3, <3>4, <3>5, <4>2 DEF Pass, Left
        <4> QED
          BY <3>1, <3>6, <4>1, <4>3 DEF n
      <3>9. CASE ~(n < left)
        <4>1. Pass(s, rotary, n) = <<Moved(s, v * left), n - left>>
          BY <1>0, <1>4, <1>6, <2>1, <3>9, PassDoes DEF left, v
        <4>2. ~(b < left - a) /\ b - (left - a) = n - left
          BY <2>1, <3>9 DEF n
        <4>3. Pass(r, rotary, b) = <<Moved(r, v * (left - a)), b - (left - a)>>
          BY <3>3, <3>4, <3>5, <4>2 DEF Pass, Left, LeftOver
        <4> QED
          BY <3>1, <3>7, <4>1, <4>2, <4>3 DEF n
      <3> QED
        BY <3>8, <3>9
    <2>3. CASE ~(a < left)
      <3>1. r = Moved(s, v * left) /\ d = a - left
        BY <1>6, <2>3 DEF Pass, Left, LeftOver
      <3>2. ~(n < left) /\ n - left = d + b
        BY <2>1, <2>3, <3>1 DEF n
      <3>3. Pass(s, rotary, n) = <<Moved(s, v * left), n - left>>
        BY <1>4, <1>6, <2>1, <3>2, PassDoes
      <3> QED
        BY <3>1, <3>2, <3>3 DEF n
    <2> QED
      BY <2>2, <2>3
  <1>7. CASE s.state = "Jogging"
    <2>1. r = Jogged(s, a) /\ d = 0
      BY <1>7 DEF Pass
    <2>2. r.state = "Jogging"
      BY <1>7, <2>1, JoggedIs
    <2>3. Jogged(r, b) = Jogged(s, n)
      BY <2>1, JoggedTwice DEF n
    <2>4. Pass(r, rotary, b) = <<Jogged(r, b), 0>>
      BY <2>2 DEF Pass
    <2>5. Pass(s, rotary, n) = <<Jogged(s, n), 0>>
      BY <1>4, <1>7 DEF Pass
    <2> QED
      BY <2>1, <2>3, <2>4, <2>5 DEF n
  <1>8. CASE s.state = "Dwelling"
    <2>0. s.dwell \in Nat
      BY <1>0 DEF Machine
    <2>1. CASE a < s.dwell
      <3> DEFINE x == s.dwell - a
      <3>1. r = [s EXCEPT !.dwell = x] /\ d = 0
        BY <1>8, <2>1 DEF Pass
      <3>2. r.state = "Dwelling" /\ r.dwell = x
        BY <1>0, <1>8, <3>1 DEF Machine
      <3>3. CASE n < s.dwell
        <4> DEFINE y == s.dwell - (n)
        <4>1. Pass(s, rotary, n) = <<[s EXCEPT !.dwell = y], 0>>
          BY <1>4, <1>8, <3>3 DEF Pass
        <4>2. b < x /\ x - b = y
          BY <2>0, <3>3 DEF n
        <4> HIDE DEF x, y
        <4>3. Pass(r, rotary, b) = <<[r EXCEPT !.dwell = y], 0>>
          BY <3>2, <4>2 DEF Pass
        <4>4. [r EXCEPT !.dwell = y] = [s EXCEPT !.dwell = y]
          BY <1>0, <3>1 DEF Machine
        <4> QED
          BY <3>1, <4>1, <4>3, <4>4 DEF n
      <3>4. CASE ~(n < s.dwell)
        <4>1. Pass(s, rotary, n)
                = <<[s EXCEPT !.dwell = 0, !.state = "Idle"], n - s.dwell>>
          BY <1>4, <1>8, <3>4 DEF Pass, LeftOver
        <4>2. ~(b < x) /\ b - x = n - s.dwell
          BY <2>0, <3>4 DEF n
        <4> HIDE DEF x
        <4>3. Pass(r, rotary, b) = <<[r EXCEPT !.dwell = 0, !.state = "Idle"], b - x>>
          BY <3>2, <4>2 DEF Pass, LeftOver
        <4>4. [r EXCEPT !.dwell = 0, !.state = "Idle"] = [s EXCEPT !.dwell = 0, !.state = "Idle"]
          BY <1>0, <3>1 DEF Machine
        <4> QED
          BY <3>1, <4>1, <4>2, <4>3, <4>4 DEF n
      <3> QED
        BY <3>3, <3>4
    <2>2. CASE ~(a < s.dwell)
      <3>1. r = [s EXCEPT !.dwell = 0, !.state = "Idle"] /\ d = a - s.dwell
        BY <1>8, <2>2 DEF Pass, LeftOver
      <3>2. ~(n < s.dwell) /\ n - s.dwell = d + b
        BY <2>0, <2>2, <3>1 DEF n
      <3>3. Pass(s, rotary, n)
              = <<[s EXCEPT !.dwell = 0, !.state = "Idle"], n - s.dwell>>
        BY <1>4, <1>8, <3>2 DEF Pass, LeftOver
      <3> QED
        BY <3>1, <3>2, <3>3 DEF n
    <2> QED
      BY <2>1, <2>2
  <1> QED
    BY <1>0, <1>5, <1>6, <1>7, <1>8 DEF MotionStates

-----------------------------------------------------------------------------
(* Two steps are one.                                                      *)

LEMMA SteppedIs ==
    ASSUME NEW s, Sound(s), NEW rotary \in Axes \cup {NoAxis}, NEW dt \in Nat
    PROVE  /\ <<s, dt>> \in Good /\ Stepped(s, rotary, dt) = Ended(<<s, dt>>, rotary)[1]
           /\ Sound(Stepped(s, rotary, dt))
  <1>1. <<s, dt>> \in Good
    BY DEF Good, Sound
  <1>2. Stepped(s, rotary, dt) = Ended(<<s, dt>>, rotary)[1]
    BY DEF Stepped, Ended
  <1>3. Ended(<<s, dt>>, rotary) \in Good
    BY <1>1, PassesSuffice
  <1> QED
    BY <1>1, <1>2, <1>3 DEF Good

LEMMA EndSplits ==
    ASSUME NEW rotary \in Axes \cup {NoAxis}, NEW at \in Good, NEW b \in Nat,
           NEW to, to = Pass(at[1], rotary, at[2])
    PROVE  Ended(<<to[1], to[2] + b>>, rotary) = Ended(<<at[1], at[2] + b>>, rotary)
  <1> DEFINE s == at[1]
             a == at[2]
             more == <<s, a + b>>
  <1>1. Sound(s) /\ a \in Nat /\ at = <<s, a>> /\ a + b \in Nat
    BY DEF Good
  <1>2. to \in Good
    BY PassOf
  <1>3. to = <<to[1], to[2]>> /\ Sound(to[1]) /\ to[2] \in Nat /\ to[2] + b \in Nat
    BY <1>2 DEF Good
  <1>4. more \in Good /\ more[1] = s /\ more[2] = a + b
    BY <1>1 DEF Good, Sound
  <1>5. Ended(Pass(s, rotary, a + b), rotary) = Ended(more, rotary)
    <2> HIDE DEF more, s, a
    <2> QED
      BY <1>4, PassFirst
  <1>6. \/ Pass(s, rotary, a + b) = <<to[1], to[2] + b>>
        \/ to[2] = 0 /\ Pass(s, rotary, a + b) = Pass(to[1], rotary, b)
    <2> HIDE DEF s, a
    <2>1. Pass(s, rotary, a) = <<to[1], to[2]>>
      BY <1>3 DEF s, a
    <2> QED
      BY <1>1, <1>3, <2>1, PassSplits
  <1>7. Ended(Pass(to[1], rotary, b), rotary) = Ended(<<to[1], b>>, rotary)
    <2> DEFINE rest == <<to[1], b>>
    <2>1. rest \in Good /\ rest[1] = to[1] /\ rest[2] = b
      BY <1>3 DEF Good, Sound
    <2> HIDE DEF rest
    <2>2. Ended(Pass(rest[1], rotary, rest[2]), rotary) = Ended(rest, rotary)
      BY <2>1, PassFirst
    <2> QED
      BY <2>1, <2>2 DEF rest
  <1> HIDE DEF more, s, a
  <1>8. CASE Pass(s, rotary, a + b) = <<to[1], to[2] + b>>
    BY <1>5, <1>8 DEF more, s, a
  <1>9. CASE to[2] = 0 /\ Pass(s, rotary, a + b) = Pass(to[1], rotary, b)
    <2>1. to[2] + b = b
      BY <1>9
    <2> QED
      BY <1>5, <1>7, <1>9, <2>1 DEF more, s, a
  <1> QED
    BY <1>6, <1>8, <1>9

LEMMA Exact ==
    ASSUME NEW s, Sound(s), NEW rotary \in Axes \cup {NoAxis}, NEW a \in Nat, NEW b \in Nat
    PROVE  Stepped(Stepped(s, rotary, a), rotary, b) = Stepped(s, rotary, a + b)
  <1> DEFINE at == <<s, a>>
             n == MaxPasses
  <1>0. /\ at \in Good /\ at[1] = s /\ at[2] = a
        /\ Stepped(s, rotary, a) = Ended(at, rotary)[1] /\ Sound(Ended(at, rotary)[1])
    BY SteppedIs
  <1> HIDE DEF at
  <1>1. n \in Nat /\ Keeps(Loop(rotary), n, Good)
    BY LoopIsPass
  <1>2. PICK f \in [0..n -> Good] : RunIs(f, n, at, Loop(rotary)) /\ f[n] = Ended(at, rotary)
    BY <1>0, <1>1, AfterLoopWithin DEF Ended
  <1> DEFINE whole == Ended(<<s, a + b>>, rotary)
             S == {k \in 0..n : Ended(<<f[k][1], f[k][2] + b>>, rotary) = whole}
  <1>3. 0 \in S
    <2>1. f[0] = at
      BY <1>2 DEF RunIs
    <2> QED
      BY <1>0, <1>1, <2>1
  <1>4. ASSUME NEW k \in 0..(n - 1), k \in S PROVE k + 1 \in S
    <2>1. k + 1 \in 1..n /\ k + 1 \in 0..n /\ (k + 1) - 1 = k /\ k \in 0..n
      BY <1>1
    <2>2. f[k + 1] = Loop(rotary)[k + 1][f[k]] /\ f[k] \in Good
      BY <1>2, <2>1 DEF RunIs
    <2>3. f[k + 1] = Pass(f[k][1], rotary, f[k][2])
      BY <2>1, <2>2, LoopIsPass
    <2>4. Ended(<<f[k + 1][1], f[k + 1][2] + b>>, rotary)
            = Ended(<<f[k][1], f[k][2] + b>>, rotary)
      BY <2>2, <2>3, EndSplits
    <2> HIDE DEF whole
    <2> QED
      BY <1>4, <2>1, <2>4
  <1>5. n \in S
    <2>1. 0..n \subseteq S
      <3> HIDE DEF S
      <3> QED
        BY <1>1, <1>3, <1>4, BoundedInduction
    <2> QED
      BY <1>1, <2>1
  <1> DEFINE r == Ended(at, rotary)[1]
             d == Ended(at, rotary)[2]
  <1>6. Ended(<<r, d + b>>, rotary) = whole
    BY <1>2, <1>5
  <1>7. Sound(r) /\ d \in Nat /\ Finished(r, rotary, d)
    <2>1. Ended(at, rotary) \in Good /\ Finished(r, rotary, d)
      BY <1>0, PassesSuffice
    <2> QED
      BY <2>1 DEF Good
  <1> HIDE DEF r, d, whole
  <1>8. Ended(<<r, b>>, rotary)[1] = Ended(<<r, d + b>>, rotary)[1]
    <2>1. CASE d = 0
      <3>1. d + b = b
        BY <2>1
      <3> QED
        BY <3>1
    <2>2. CASE d # 0
      <3>1. ASSUME NEW x \in Nat PROVE Ended(<<r, x>>, rotary)[1] = r
        <4> DEFINE rest == <<r, x>>
        <4>1. rest \in Good /\ rest[1] = r /\ rest[2] = x
          BY <1>7 DEF Good, Sound
        <4>2. Finished(r, rotary, x)
          BY <1>7, <2>2 DEF Finished
        <4> HIDE DEF rest
        <4>3. Ended(rest, rotary) = rest
          BY <4>1, <4>2, FinishedStays
        <4> QED
          BY <4>1, <4>3 DEF rest
      <3>2. d + b \in Nat
        BY <1>7
      <3> QED
        BY <3>1, <3>2
    <2> QED
      BY <2>1, <2>2
  <1>9. Stepped(r, rotary, b) = Ended(<<r, b>>, rotary)[1]
    BY <1>7, SteppedIs
  <1>10. Stepped(s, rotary, a + b) = whole[1]
    BY SteppedIs DEF whole
  <1>11. Stepped(s, rotary, a) = r
    BY <1>0 DEF r
  <1> QED
    BY <1>6, <1>8, <1>9, <1>10, <1>11

-----------------------------------------------------------------------------
(* The invariant.                                                          *)

MotionInv == /\ Sound(m)
             /\ rotaryAxis \in Axes \cup {NoAxis} /\ commands \in Nat /\ events \in Nat

LEMMA SoundKept ==
    ASSUME NEW s, Sound(s), NEW r \in Machine, Len(r.queue) <= QueueCap,
           r.pos = s.pos, r.rate = s.rate, r.move = s.move,
           "Moving" \in {r.state, r.paused.state} => "Moving" \in {s.state, s.paused.state}
    PROVE  Sound(r)
  BY DEF Sound, MoveIsSound

LEMMA MotionInvInit == Init => MotionInv
  <1> SUFFICES ASSUME Init PROVE MotionInv
    OBVIOUS
  <1>1. m \in Machine
    <2>1. Zero \in Point /\ "Idle" \in MotionStates /\ <<>> \in Seq(Command) /\ <<>> \in Seq(Int)
          /\ [g \in Groups |-> 0] \in [Groups -> Nat]
      BY DEF Zero, Point, MotionStates
    <2> HIDE DEF Zero
    <2> QED
      BY <2>1 DEF Init, Machine
  <1>2. \A a \in Axes : m.pos[a] \in 0..Travel[a]
    <2> SUFFICES ASSUME NEW a \in Axes PROVE m.pos[a] \in 0..Travel[a]
      OBVIOUS
    <2>1. m.pos[a] = 0
      BY DEF Init, Zero
    <2>2. Travel[a] \in Nat
      BY MotionAssumption
    <2> QED
      BY <2>1, <2>2
  <1>3. \A g \in Groups : ~(m.rate[g] > 0)
    BY DEF Init
  <1>4. MoveIsSound(m)
    <2>1. /\ m.move.length = 0 /\ m.move.speed = 0 /\ m.move.traveled = 0
          /\ m.state = "Idle" /\ m.paused.state = "Idle"
      BY DEF Init
    <2>2. 0 * Unit = 0 * 0 /\ 0 = 0 * 0 /\ 0 <= 0 /\ 0 \in Nat
      BY MotionAssumption
    <2> QED
      BY <2>1, <2>2 DEF MoveIsSound
  <1>5. Len(m.queue) <= QueueCap
    BY MotionAssumption DEF Init
  <1> QED
    BY <1>1, <1>2, <1>3, <1>4, <1>5 DEF MotionInv, Sound, Init

LEMMA MotionInvNext == MotionInv /\ [Next]_vars => MotionInv'
  <1> SUFFICES ASSUME MotionInv, [Next]_vars PROVE MotionInv'
    OBVIOUS
  <1>0. /\ Sound(m) /\ m \in Machine /\ rotaryAxis \in Axes \cup {NoAxis}
        /\ commands \in Nat /\ events \in Nat /\ Len(m.queue) <= QueueCap
    BY DEF MotionInv, Sound
  <1>1. ASSUME NEW dt \in 1..MaxDt, Step(dt) PROVE MotionInv'
    <2>1. dt \in Nat
      BY MotionAssumption
    <2> QED
      BY <1>0, <1>1, <2>1, SteppedIs DEF Step, MotionInv
  <1>2. ASSUME NEW c \in Command, Enqueue(c) PROVE MotionInv'
    <2> DEFINE queue == Append(m.queue, c)
               r == [m EXCEPT !.queue = queue]
    <2>1. queue \in Seq(Command) /\ Len(queue) <= QueueCap
      <3>1. m.queue \in Seq(Command) /\ Len(m.queue) < QueueCap /\ QueueCap \in Nat
        BY <1>0, <1>2, MotionAssumption DEF Enqueue, Machine
      <3> QED
        BY <3>1
    <2>2. m' = r
      BY <1>2 DEF Enqueue
    <2> HIDE DEF queue
    <2>3. /\ r \in Machine /\ r.queue = queue /\ r.pos = m.pos /\ r.rate = m.rate
          /\ r.move = m.move /\ r.state = m.state /\ r.paused = m.paused
      BY <1>0, <2>1 DEF Machine
    <2> HIDE DEF r
    <2>4. Sound(r)
      BY <1>0, <2>1, <2>3, SoundKept
    <2> QED
      BY <1>0, <1>2, <2>2, <2>4 DEF Enqueue, MotionInv
  <1>3. CASE Pause
    <2> DEFINE paused == [state |-> m.state, on |-> m.laser.on]
               laser == [m.laser EXCEPT !.on = FALSE]
               r == [m EXCEPT !.paused = paused, !.laser = laser, !.state = "Paused"]
    <2>1. /\ paused \in [state : MotionStates, on : BOOLEAN] /\ paused.state = m.state
          /\ laser \in [on : BOOLEAN, power : Int, rasters : Seq(Int)] /\ "Paused" \in MotionStates
      BY <1>0 DEF Machine, MotionStates
    <2>2. m' = r
      BY <1>0, <1>3 DEF Pause, Machine
    <2> HIDE DEF paused, laser
    <2>3. /\ r \in Machine /\ r.queue = m.queue /\ r.pos = m.pos /\ r.rate = m.rate
          /\ r.move = m.move /\ r.state = "Paused" /\ r.paused = paused
      BY <1>0, <2>1 DEF Machine
    <2> HIDE DEF r
    <2>4. Sound(r)
      BY <1>0, <2>1, <2>3, SoundKept
    <2> QED
      BY <1>0, <1>3, <2>2, <2>4 DEF Pause, MotionInv
  <1>4. CASE Resume
    <2> DEFINE laser == [m.laser EXCEPT !.on = m.paused.on]
               state == m.paused.state
               r == [m EXCEPT !.laser = laser, !.state = state]
    <2>1. /\ state \in MotionStates
          /\ laser \in [on : BOOLEAN, power : Int, rasters : Seq(Int)]
      BY <1>0 DEF Machine
    <2>2. m' = r
      BY <1>0, <1>4 DEF Resume, Machine
    <2> HIDE DEF laser, state
    <2>3. /\ r \in Machine /\ r.queue = m.queue /\ r.pos = m.pos /\ r.rate = m.rate
          /\ r.move = m.move /\ r.state = state /\ r.paused = m.paused
      BY <1>0, <2>1 DEF Machine
    <2> HIDE DEF r
    <2>4. Sound(r)
      BY <1>0, <2>3, SoundKept DEF state
    <2> QED
      BY <1>0, <1>4, <2>2, <2>4 DEF Resume, MotionInv
  <1>5. CASE Stop
    <2> DEFINE laser == [m.laser EXCEPT !.on = FALSE]
               stale == (m.origin # Zero)
               r == [m EXCEPT !.state = "Idle", !.queue = <<>>, !.laser = laser, !.dwell = 0,
                            !.stale = stale]
    <2>1. /\ laser \in [on : BOOLEAN, power : Int, rasters : Seq(Int)] /\ "Idle" \in MotionStates
          /\ <<>> \in Seq(Command)
      <3>1. m.laser \in [on : BOOLEAN, power : Int, rasters : Seq(Int)]
        BY <1>0 DEF Machine
      <3>2. laser \in [on : BOOLEAN, power : Int, rasters : Seq(Int)]
        BY <3>1
      <3>3. "Idle" \in MotionStates /\ <<>> \in Seq(Command)
        BY DEF MotionStates
      <3> QED
        BY <3>2, <3>3
    <2>5. Len(<<>>) <= QueueCap
      BY MotionAssumption
    <2>2. m' = r
      BY <1>0, <1>5 DEF Stop, Machine
    <2>6. stale \in BOOLEAN
      OBVIOUS
    <2> HIDE DEF laser, stale
    <2>3. /\ r \in Machine /\ r.queue = <<>> /\ r.pos = m.pos /\ r.rate = m.rate
          /\ r.move = m.move /\ r.state = "Idle" /\ r.paused = m.paused
      BY <1>0, <2>1, <2>6 DEF Machine
    <2> HIDE DEF r
    <2>4. Sound(r)
      BY <1>0, <2>3, <2>5, SoundKept
    <2> QED
      BY <1>0, <1>5, <2>2, <2>4 DEF Stop, Event, MotionInv
  <1>6. ASSUME NEW j \in Jogs, JogStart(j) PROVE MotionInv'
    <2> DEFINE s == [m EXCEPT !.rotary = rotaryAxis]
               speed == AsInt32(s.rate[j.group])
               jog == [start |-> s.pos, dir |-> j.dir, speed |-> speed, traveled |-> 0]
               r == [s EXCEPT !.state = "Jogging", !.jog = jog]
    <2>1. j.dir \in Point /\ j.group \in Groups
      BY MotionAssumption
    <2>2. /\ s \in Machine /\ s.queue = m.queue /\ s.pos = m.pos /\ s.rate = m.rate
          /\ s.move = m.move /\ s.state = m.state /\ s.paused = m.paused
      BY <1>0 DEF Machine
    <2>3. m' = s \/ (m' = r /\ ~(speed <= 0))
      BY <1>6 DEF JogStart
    <2>7. speed \in Int
      <3>1. s.rate[j.group] \in Nat
        BY <2>1, <2>2 DEF Machine
      <3> QED
        BY <3>1, MotionAssumption DEF AsInt32
    <2>4. Sound(s)
      <3> HIDE DEF s
      <3> QED
        BY <1>0, <2>2, SoundKept
    <2>5. ASSUME ~(speed <= 0) PROVE Sound(r)
      <3>0. speed \in Nat
        BY <2>5, <2>7
      <3> HIDE DEF s, speed
      <3>1. /\ jog \in [start : Point, dir : Point, speed : Nat, traveled : Nat]
            /\ "Jogging" \in MotionStates
        BY <2>1, <2>2, <3>0 DEF Machine, MotionStates
      <3> HIDE DEF jog
      <3>2. /\ r \in Machine /\ r.queue = m.queue /\ r.pos = m.pos /\ r.rate = m.rate
            /\ r.move = m.move /\ r.state = "Jogging" /\ r.paused = m.paused
        BY <2>2, <3>1 DEF Machine
      <3> HIDE DEF r
      <3> QED
        BY <1>0, <3>2, SoundKept
    <2> HIDE DEF s, r
    <2>6. Sound(m')
      BY <2>3, <2>4, <2>5
    <2> QED
      BY <1>0, <1>6, <2>6 DEF JogStart, Event, MotionInv
  <1>7. CASE JogStop
    <2> DEFINE r == [m EXCEPT !.state = "Idle"]
    <2>1. /\ r \in Machine /\ r.queue = m.queue /\ r.pos = m.pos /\ r.rate = m.rate
          /\ r.move = m.move /\ r.state = "Idle" /\ r.paused = m.paused
      BY <1>0 DEF Machine, MotionStates
    <2>2. m' = r
      BY <1>7 DEF JogStop
    <2> HIDE DEF r
    <2>3. Sound(r)
      BY <1>0, <2>1, SoundKept
    <2> QED
      BY <1>0, <1>7, <2>2, <2>3 DEF JogStop, Event, MotionInv
  <1>8. ASSUME NEW a \in (Axes \cup {NoAxis}) \ {rotaryAxis}, Configure(a) PROVE MotionInv'
    <2>1. a \in Axes \cup {NoAxis}
      OBVIOUS
    <2> QED
      BY <1>0, <1>8, <2>1 DEF Configure, Event, MotionInv
  <1>9. CASE UNCHANGED vars
    BY <1>0, <1>9 DEF vars, MotionInv
  <1> QED
    BY <1>1, <1>2, <1>3, <1>4, <1>5, <1>6, <1>7, <1>8, <1>9 DEF Next

LEMMA MotionInvHolds == Spec => []MotionInv
  <1> QED
    BY MotionInvInit, MotionInvNext, PTL DEF Spec

(* The machine is what it is declared to be, and the counts are numbers.   *)
THEOREM MotionTyped == Spec => []TypeOK
  <1>1. MotionInv => TypeOK
    BY DEF MotionInv, Sound, TypeOK
  <1> QED
    BY <1>1, MotionInvHolds, PTL

(* The head never leaves its travel, for any travel, queue and commands,   *)
(* whichever axis becomes rotary under a move or a jog (applyLimits).      *)
THEOREM HeadStaysInBounds == Spec => []InBounds
  <1>1. MotionInv => InBounds
    BY DEF MotionInv, Sound, InBounds
  <1> QED
    BY <1>1, MotionInvHolds, PTL

(* Two steps make of the machine what one as long as both makes, with any  *)
(* rounding, wrapping, rasters and commands in between (step).             *)
THEOREM StepIsExact == Spec => []ExactForAnyDt
  <1>1. MotionInv => ExactForAnyDt
    <2> SUFFICES ASSUME MotionInv, NEW a \in 1..MaxDt, NEW b \in 1..MaxDt
                 PROVE  Stepped(Stepped(m, rotaryAxis, a), rotaryAxis, b)
                          = Stepped(m, rotaryAxis, a + b)
      BY DEF ExactForAnyDt
    <2>1. a \in Nat /\ b \in Nat /\ Sound(m) /\ rotaryAxis \in Axes \cup {NoAxis}
      BY MotionAssumption DEF MotionInv
    <2> QED
      BY <2>1, Exact
  <1> QED
    BY <1>1, MotionInvHolds, PTL

-----------------------------------------------------------------------------
(* Where the commands lead the head.                                       *)

LEMMA ClampTwice ==
    ASSUME NEW v \in Int, NEW limit \in Nat
    PROVE  ClampTo(v, limit) \in Int /\ ClampTo(ClampTo(v, limit), limit) = ClampTo(v, limit)
  BY DEF ClampTo

(* A move that is clipped as it begins ends where it was asked to. *)
LEMMA TargetIs ==
    ASSUME NEW h, h.pos \in Point, h.origin \in Point, NEW c, CanBeQueued(c), c.op \in MoveOps
    PROVE  /\ ApplyLimits(h.rotary, [a \in Axes |-> h.pos[a] + Delta(h, c)[a]]) = Target(h, c)
           /\ Target(h, c) \in Point
  <1> DEFINE d == Delta(h, c)
             end == [a \in Axes |-> h.pos[a] + d[a]]
             asked == [a \in Axes |->
               IF a \notin DOMAIN c.args THEN h.pos[a]
               ELSE CASE c.op = "home" -> IF a = h.rotary THEN h.pos[a] ELSE 0
                      [] c.op = "rel"  -> h.pos[a] + c.args[a]
                      [] c.op \in {"abs", "jog_to"} ->
                            IF a = h.rotary THEN ClampTo(c.args[a] + h.origin[a], Travel[a])
                            ELSE c.args[a] + h.origin[a]]
             Limit(a, v) == IF a = h.rotary THEN WrapTo(v, Travel[a]) ELSE ClampTo(v, Travel[a])
  <1>0. d \in Point
    BY DeltaIs
  <1>1. ASSUME NEW a \in Axes PROVE Limit(a, end[a]) = Limit(a, asked[a])
    <2>1. h.pos[a] \in Int /\ h.origin[a] \in Int /\ Travel[a] \in Nat
      BY MotionAssumption DEF Point
    <2>2. a \in DOMAIN c.args => c.args[a] \in Int
      BY DEF CanBeQueued, MoveOps
    <2>3. end[a] = h.pos[a] + d[a]
      OBVIOUS
    <2> HIDE DEF end, asked, d
    <2>8. end[a] = asked[a] => Limit(a, end[a]) = Limit(a, asked[a])
      OBVIOUS
    <2> HIDE DEF Limit
    <2>4. CASE a \notin DOMAIN c.args
      <3>1. d[a] = 0 /\ asked[a] = h.pos[a]
        BY <2>4 DEF Delta, d, asked
      <3> QED
        BY <2>1, <2>3, <2>8, <3>1
    <2>5. CASE a \in DOMAIN c.args /\ c.op = "home"
      <3>1. d[a] = IF a = h.rotary THEN 0 ELSE -h.pos[a]
        BY <2>5 DEF Delta, d
      <3>2. asked[a] = IF a = h.rotary THEN h.pos[a] ELSE 0
        BY <2>5 DEF asked
      <3>3. end[a] = asked[a]
        BY <2>1, <2>3, <3>1, <3>2
      <3> QED
        BY <2>8, <3>3
    <2>6. CASE a \in DOMAIN c.args /\ c.op = "rel"
      <3>1. d[a] = IF a = h.rotary THEN c.args[a]
                   ELSE ClampTo(h.pos[a] + c.args[a], Travel[a]) - h.pos[a]
        BY <2>6 DEF Delta, d
      <3>2. asked[a] = h.pos[a] + c.args[a] /\ c.args[a] \in Int /\ asked[a] \in Int
        BY <2>1, <2>2, <2>6 DEF asked
      <3>3. CASE a = h.rotary
        BY <2>3, <2>8, <3>1, <3>2, <3>3
      <3>4. CASE a # h.rotary
        <4> DEFINE x == ClampTo(asked[a], Travel[a])
        <4>1. x \in Int /\ ClampTo(x, Travel[a]) = x
          BY <2>1, <3>2, ClampTwice
        <4>2. d[a] = x - h.pos[a]
          BY <3>1, <3>2, <3>4
        <4> HIDE DEF x
        <4>3. end[a] = x
          BY <2>1, <2>3, <4>1, <4>2
        <4> QED
          BY <3>4, <4>1, <4>3 DEF x, Limit
      <3> QED
        BY <3>3, <3>4
    <2>7. CASE a \in DOMAIN c.args /\ c.op \in {"abs", "jog_to"}
      <3> DEFINE y == c.args[a] + h.origin[a]
                 x == ClampTo(y, Travel[a])
      <3>0. y \in Int
        BY <2>1, <2>2, <2>7
      <3>1. d[a] = x - h.pos[a]
        BY <2>7 DEF Delta, d
      <3>2. asked[a] = IF a = h.rotary THEN x ELSE y
        BY <2>7 DEF asked
      <3> HIDE DEF y
      <3>3. x \in Int /\ ClampTo(x, Travel[a]) = x
        BY <2>1, <3>0, ClampTwice
      <3>4. end[a] = x
        <4> HIDE DEF x
        <4> QED
          BY <2>1, <2>3, <3>1, <3>3
      <3>5. CASE a = h.rotary
        BY <2>8, <3>2, <3>4, <3>5
      <3>6. CASE a # h.rotary
        <4>1. Limit(a, end[a]) = x
          BY <3>3, <3>4, <3>6 DEF Limit
        <4>2. Limit(a, asked[a]) = x
          BY <3>2, <3>6 DEF Limit
        <4> QED
          BY <4>1, <4>2
      <3> QED
        BY <3>5, <3>6
    <2> QED
      BY <2>4, <2>5, <2>6, <2>7 DEF MoveOps
  <1>2. ApplyLimits(h.rotary, end) = [a \in Axes |-> Limit(a, end[a])]
    BY DEF ApplyLimits
  <1>3. Target(h, c) = [a \in Axes |-> Limit(a, asked[a])]
    BY DEF ApplyLimits, Target
  <1>4. end \in Point
    BY <1>0 DEF Point
  <1> HIDE DEF end, asked, Limit
  <1>5. Target(h, c) = ApplyLimits(h.rotary, end)
    BY <1>1, <1>2, <1>3
  <1>6. ApplyLimits(h.rotary, end) \in Point
    BY <1>4, LimitsAre
  <1> QED
    BY <1>5, <1>6 DEF end

LEMMA CutFromIs ==
    ASSUME NEW s, s.pos \in Point, s.origin \in Point, NEW code
    PROVE  CutFrom(s, code) \in Point
  <1>1. UserOrigin.x \in Int /\ UserOrigin.y \in Int
    BY MotionAssumption
  <1>2. Zero \in Point
    BY DEF Zero, Point
  <1> QED
    BY <1>1, <1>2 DEF CutFrom, Point, Axes

LEMMA ZeroIsPoint == Zero \in Point
  BY DEF Zero, Point

LEMMA AsToOriginIs ==
    ASSUME NEW h \in Course, NEW c
    PROVE  AsToOrigin(h, c) \in Course
  <1>1. [h EXCEPT !.origin = Zero] \in Course
    <2>1. Zero \in Point
      BY ZeroIsPoint
    <2> HIDE DEF Zero
    <2> QED
      BY <2>1 DEF Course
  <1> QED
    BY <1>1 DEF AsToOrigin

LEMMA MovedToIs ==
    ASSUME NEW h \in Course, NEW c, CanBeQueued(c), c.op \in MoveOps
    PROVE  MovedTo(h, c) \in Course
  <1> DEFINE g == AsToOrigin(h, c)
             p == IF Delta(g, c) = Zero THEN h.pos ELSE Target(g, c)
             more == {k \in Differences :
                        CASE k = "go_to"        -> c.op = "jog_to" /\ h.origin # Zero
                          [] k = "stale_origin" -> c.op = "abs" /\ h.stale
                          [] k = "no_rate"      -> HasNoRate(g, Delta(g, c))}
             differs == h.differs \cup more
  <1>1. g.pos \in Point /\ g.origin \in Point
    <2>1. g \in Course
      BY AsToOriginIs
    <2> QED
      BY <2>1 DEF Course
  <1> HIDE DEF g
  <1>2. p \in Point
    <2>1. Target(g, c) \in Point
      BY <1>1, TargetIs
    <2>2. h.pos \in Point
      BY DEF Course
    <2> QED
      BY <2>1, <2>2
  <1>3. differs \in SUBSET Differences
    <2>1. more \subseteq Differences
      OBVIOUS
    <2> HIDE DEF more
    <2> QED
      BY <2>1 DEF Course
  <1>4. MovedTo(h, c) = [h EXCEPT !.pos = p, !.differs = differs]
    BY DEF MovedTo, g, Course
  <1> HIDE DEF p, differs
  <1> QED
    BY <1>2, <1>3, <1>4 DEF Course

LEMMA CarriedIs ==
    ASSUME NEW h \in Course, NEW c \in Command
    PROVE  Carried(h, c) \in Course
  <1>1. CanBeQueued(c) /\ h.pos \in Point /\ h.origin \in Point
    BY MotionAssumption DEF Course
  <1>2. CASE c.op \in MoveOps
    BY <1>1, <1>2, MovedToIs DEF Carried, MoveOps
  <1>3. CASE c.op = "speed"
    <2>1. c.group \in Groups /\ c.value \in Nat
      BY <1>1, <1>3, MotionAssumption DEF CanBeQueued, MoveOps
    <2> QED
      BY <1>3, <2>1 DEF Carried, MoveOps, Course
  <1>4. CASE c.op = "cut_from"
    <2>1. CutFrom(h, c.code) \in Point
      BY <1>1, CutFromIs
    <2> QED
      BY <1>4, <2>1 DEF Carried, MoveOps, Course
  <1>5. CASE c.op = "job_end"
    <2>1. Zero \in Point
      BY DEF Zero, Point
    <2> HIDE DEF Zero
    <2> QED
      BY <1>5, <2>1 DEF Carried, MoveOps, Course
  <1>6. CASE c.op \notin MoveOps \cup {"speed", "cut_from", "job_end"}
    BY <1>6 DEF Carried
  <1> QED
    BY <1>2, <1>3, <1>4, <1>5, <1>6

(* The first command, and then the others. *)
Carries(queue) == [k \in 1..Len(queue) |-> [g \in Course |-> Carried(g, queue[k])]]

LEMMA LedFurther ==
    ASSUME NEW h \in Course, NEW queue \in Seq(Command), queue # <<>>
    PROVE  Led(h, queue) = Led(Carried(h, Head(queue)), Tail(queue))
  <1>1. PICK n \in Nat : n = Len(Tail(queue))
    OBVIOUS
  <1>2. /\ Len(queue) = n + 1 /\ \A k \in 1..n : Tail(queue)[k] = queue[k + 1]
        /\ Head(queue) = queue[1] /\ 1 \in 1..Len(queue)
    BY <1>1
  <1>3. Keeps(Carries(queue), n + 1, Course)
    <2> SUFFICES ASSUME NEW k \in 1..(n + 1), NEW g \in Course
                 PROVE  Carries(queue)[k][g] \in Course
      BY DEF Keeps
    <2>1. Carries(queue)[k][g] = Carried(g, queue[k]) /\ queue[k] \in Command
      BY <1>2 DEF Carries
    <2> QED
      BY <2>1, CarriedIs
  <1>4. ASSUME NEW k \in 1..n PROVE Carries(Tail(queue))[k] = Carries(queue)[k + 1]
    <2>1. k + 1 \in 1..Len(queue) /\ k \in 1..Len(Tail(queue)) /\ Tail(queue)[k] = queue[k + 1]
      BY <1>1, <1>2
    <2> QED
      BY <2>1 DEF Carries
  <1>5. Carries(queue)[1][h] = Carried(h, Head(queue))
    BY <1>2 DEF Carries
  <1>6. AfterLoop(n + 1, h, Carries(queue))
          = AfterLoop(n, Carries(queue)[1][h], Carries(Tail(queue)))
    BY <1>3, <1>4, FirstPass
  <1> QED
    BY <1>1, <1>2, <1>5, <1>6 DEF Led, Carries

(* A course that came on a difference stays one that did. *)
LEMMA LedDiffers ==
    ASSUME NEW h \in Course, h.differs # {}, NEW queue \in Seq(Command)
    PROVE  Led(h, queue).differs # {}
  <1> DEFINE S == {g \in Course : g.differs # {}}
  <1>1. ASSUME NEW g \in S, NEW c \in Command PROVE Carried(g, c) \in S
    <2>1. g \in Course /\ g.differs # {} /\ Carried(g, c) \in Course
      BY CarriedIs
    <2>2. g.differs \subseteq Carried(g, c).differs
      <3>1. CASE c.op \in MoveOps
        <4>1. Carried(g, c) = MovedTo(g, c)
          BY <3>1 DEF Carried, MoveOps
        <4>2. g.differs \subseteq MovedTo(g, c).differs
          BY <2>1 DEF MovedTo, Course
        <4> QED
          BY <4>1, <4>2
      <3>2. CASE c.op \notin MoveOps
        <4> HIDE DEF S
        <4>1. Carried(g, c).differs = g.differs
          BY <2>1, <3>2 DEF Carried, Course
        <4> QED
          BY <4>1
      <3> QED
        BY <3>1, <3>2
    <2> QED
      BY <2>1, <2>2
  <1>2. Keeps(Carries(queue), Len(queue), S)
    <2> SUFFICES ASSUME NEW k \in 1..Len(queue), NEW g \in S
                 PROVE  Carries(queue)[k][g] \in S
      BY DEF Keeps
    <2>1. Carries(queue)[k][g] = Carried(g, queue[k]) /\ queue[k] \in Command
      BY DEF Carries
    <2> HIDE DEF S
    <2> QED
      BY <1>1, <2>1
  <1>3. h \in S /\ Len(queue) \in Nat
    OBVIOUS
  <1>4. Led(h, queue) \in S
    <2> HIDE DEF S
    <2> DEFINE n == Len(queue)
               pass == Carries(queue)
    <2>1. n \in Nat /\ h \in S /\ Keeps(pass, n, S) /\ Led(h, queue) = AfterLoop(n, h, pass)
      BY <1>2, <1>3 DEF Led, Carries
    <2> HIDE DEF n, pass
    <2>2. \E f \in [0..n -> S] : RunIs(f, n, h, pass) /\ f[n] = AfterLoop(n, h, pass)
      BY <2>1, AfterLoopWithin
    <2> QED
      BY <2>1, <2>2
  <1> QED
    BY <1>4

(* Where the head is once it has made the move that it is on. *)
Arrived(s) == IF s.state = "Moving"
              THEN ApplyLimits(s.rotary, [a \in Axes |-> s.move.start[a] + s.move.delta[a]])
              ELSE s.pos

Ahead(s, rotary) == [pos |-> Arrived(s), origin |-> s.origin, rate |-> s.rate, rotary |-> rotary,
                     stale |-> s.stale, differs |-> {}]

Bound(s, rotary) == Led(Ahead(s, rotary), s.queue)

LEMMA AheadIs ==
    ASSUME NEW s, Sound(s), NEW rotary \in Axes \cup {NoAxis}
    PROVE  Ahead(s, rotary) \in Course /\ Arrived(s) \in Point
  <1>1. s \in Machine
    BY DEF Sound
  <1>2. s.pos \in Point /\ s.origin \in Point /\ s.rate \in [Groups -> Nat]
        /\ s.move.start \in Point /\ s.move.delta \in Point /\ s.stale \in BOOLEAN
    BY <1>1 DEF Machine
  <1>3. [a \in Axes |-> s.move.start[a] + s.move.delta[a]] \in Point
    BY <1>2 DEF Point
  <1>4. Arrived(s) \in Point
    <2> DEFINE end == [a \in Axes |-> s.move.start[a] + s.move.delta[a]]
    <2> HIDE DEF end
    <2>1. ApplyLimits(s.rotary, end) \in Point
      BY <1>3, LimitsAre DEF end
    <2> QED
      BY <1>2, <2>1 DEF Arrived, end
  <1> QED
    BY <1>2, <1>4 DEF Ahead, Course

(* A move that comes on no difference is measured as the code does, and    *)
(* has a rate if it goes anywhere.                                         *)
LEMMA AsAsked ==
    ASSUME NEW h \in Course, NEW c, c.op \in MoveOps, MovedTo(h, c).differs = {}
    PROVE  AsToOrigin(h, c) = h /\ ~HasNoRate(h, Delta(h, c))
  <1> DEFINE g == AsToOrigin(h, c)
             more == {k \in Differences :
                        CASE k = "go_to"        -> c.op = "jog_to" /\ h.origin # Zero
                          [] k = "stale_origin" -> c.op = "abs" /\ h.stale
                          [] k = "no_rate"      -> HasNoRate(g, Delta(g, c))}
  <1>1. more = {}
    <2>1. MovedTo(h, c).differs = h.differs \cup more
      BY DEF MovedTo, Course
    <2> HIDE DEF more
    <2> QED
      BY <2>1
  <1>2. ~(c.op = "jog_to" /\ h.origin # Zero)
    <2>1. "go_to" \in Differences
      BY DEF Differences
    <2> HIDE DEF g
    <2> QED
      BY <1>1, <2>1
  <1>3. ~(c.op = "abs" /\ h.stale)
    <2>1. "stale_origin" \in Differences
      BY DEF Differences
    <2> HIDE DEF g
    <2> QED
      BY <1>1, <2>1
  <1>4. ~HasNoRate(g, Delta(g, c))
    <2>1. "no_rate" \in Differences
      BY DEF Differences
    <2> HIDE DEF g
    <2> QED
      BY <1>1, <2>1
  <1>5. g = h
    <2>1. CASE c.op = "jog_to"
      <3>1. h.origin = Zero
        BY <1>2, <2>1
      <3>2. [h EXCEPT !.origin = h.origin] = h
        BY DEF Course
      <3> QED
        BY <2>1, <3>1, <3>2 DEF AsToOrigin
    <2>2. CASE c.op # "jog_to"
      BY <1>3, <2>2 DEF AsToOrigin
    <2> QED
      BY <2>1, <2>2
  <1> QED
    BY <1>4, <1>5

LEMMA MovedToSays ==
    ASSUME NEW h \in Course, NEW c, AsToOrigin(h, c) = h
    PROVE  MovedTo(h, c) = [h EXCEPT !.pos = IF Delta(h, c) = Zero THEN h.pos ELSE Target(h, c),
                                     !.differs = MovedTo(h, c).differs]
  <1> DEFINE p == IF Delta(h, c) = Zero THEN h.pos ELSE Target(h, c)
             differs == h.differs \cup
                     {k \in Differences :
                        CASE k = "go_to"        -> c.op = "jog_to" /\ h.origin # Zero
                          [] k = "stale_origin" -> c.op = "abs" /\ h.stale
                          [] k = "no_rate"      -> HasNoRate(h, Delta(h, c))}
  <1>1. MovedTo(h, c) = [h EXCEPT !.pos = p, !.differs = differs]
    BY DEF MovedTo
  <1> HIDE DEF p, differs
  <1>2. MovedTo(h, c).differs = differs
    BY <1>1 DEF Course
  <1> QED
    BY <1>1, <1>2 DEF p

(* What a command makes of an idle machine is where it is asked to carry   *)
(* the head, unless the documents ask for something else.                  *)
LEMMA ExecuteCarries ==
    ASSUME NEW s, Sound(s), s.state = "Idle", NEW c \in Command,
           Carried(Ahead(s, s.rotary), c).differs = {}
    PROVE  Ahead(Execute(s, c), s.rotary) = Carried(Ahead(s, s.rotary), c)
  <1> DEFINE h == Ahead(s, s.rotary)
  <1>1. s \in Machine /\ CanBeQueued(c)
    BY MotionAssumption DEF Sound
  <1>2. /\ h.pos = s.pos /\ h.origin = s.origin /\ h.rate = s.rate /\ h.rotary = s.rotary
        /\ h.stale = s.stale /\ h.differs = {}
        /\ h = [pos |-> s.pos, origin |-> s.origin, rate |-> s.rate, rotary |-> s.rotary,
                stale |-> s.stale, differs |-> {}]
    BY DEF Ahead, Arrived
  <1>3. s.pos \in Point /\ s.origin \in Point
    BY <1>1 DEF Machine
  <1> HIDE DEF h
  <1>4. CASE c.op \in MoveOps
    <2> DEFINE d == Delta(s, c)
    <2>1. d \in Point /\ Delta(h, c) = d /\ (Goes(h, d) <=> Goes(s, d))
      <3>1. d \in Point
        BY <1>1, <1>3, <1>4, DeltaIs
      <3>2. Delta(h, c) = d
        BY <1>2 DEF Delta
      <3> HIDE DEF d
      <3>3. Goes(h, d) <=> Goes(s, d)
        BY <1>2 DEF Goes
      <3> QED
        BY <3>1, <3>2, <3>3
    <2>2. Target(h, c) = ApplyLimits(s.rotary, [a \in Axes |-> s.pos[a] + d[a]])
      <3>1. ApplyLimits(h.rotary, [a \in Axes |-> h.pos[a] + Delta(h, c)[a]]) = Target(h, c)
        BY <1>1, <1>2, <1>3, <1>4, TargetIs
      <3> HIDE DEF d
      <3> QED
        BY <1>2, <2>1, <3>1
    <2>3. Execute(s, c) = BeginMove(s, d)
      BY <1>4 DEF Execute, MoveOps
    <2>4. Carried(h, c) = IF Goes(s, d) THEN [h EXCEPT !.pos = Target(h, c)] ELSE h
      <3>1. Carried(h, c) = MovedTo(h, c) /\ MovedTo(h, c).differs = {}
        BY <1>4 DEF Carried, MoveOps, h
      <3>2. h \in Course
        <4>1. s.rotary \in Axes \cup {NoAxis}
          BY <1>1 DEF Machine
        <4> QED
          BY <4>1, AheadIs DEF h
      <3> HIDE DEF d
      <3>3. AsToOrigin(h, c) = h /\ ~HasNoRate(h, d)
        BY <1>4, <2>1, <3>1, <3>2, AsAsked
      <3>4. MovedTo(h, c) = [h EXCEPT !.pos = IF d = Zero THEN h.pos ELSE Target(h, c)]
        <4>1. /\ MovedTo(h, c).differs = h.differs
              /\ MovedTo(h, c) = [h EXCEPT !.pos = IF d = Zero THEN h.pos ELSE Target(h, c),
                                          !.differs = MovedTo(h, c).differs]
          BY <1>2, <2>1, <3>1, <3>2, <3>3, MovedToSays
        <4> DEFINE p == IF d = Zero THEN h.pos ELSE Target(h, c)
        <4>2. [h EXCEPT !.pos = p, !.differs = h.differs] = [h EXCEPT !.pos = p]
          <5> HIDE DEF p
          <5> QED
            BY <3>2 DEF Course
        <4> HIDE DEF p
        <4> QED
          BY <4>1, <4>2 DEF p
      <3>5. Goes(s, d) <=> d # Zero
        BY <2>1, <3>3 DEF Goes, HasNoRate
      <3>6. [h EXCEPT !.pos = h.pos] = h
        BY <3>2 DEF Course
      <3> QED
        BY <3>1, <3>4, <3>5, <3>6
    <2> HIDE DEF d
    <2>5. CASE Goes(s, d)
      <3> DEFINE to == ApplyLimits(s.rotary, [a \in Axes |-> s.pos[a] + d[a]])
                 r == BeginMove(s, d)
      <3>1. /\ r.state = "Moving" /\ r.move.start = s.pos /\ r.move.delta = d
            /\ r.rotary = s.rotary /\ r.origin = s.origin /\ r.rate = s.rate
            /\ r.stale = s.stale
        BY <1>1, <2>5 DEF BeginMove, Machine
      <3> HIDE DEF r
      <3>2. Arrived(r) = to
        BY <3>1 DEF Arrived
      <3> HIDE DEF to
      <3>3. Ahead(r, s.rotary)
              = [pos |-> to, origin |-> s.origin, rate |-> s.rate, rotary |-> s.rotary,
                 stale |-> s.stale, differs |-> {}]
        BY <3>1, <3>2 DEF Ahead
      <3>4. Carried(h, c)
              = [pos |-> to, origin |-> s.origin, rate |-> s.rate, rotary |-> s.rotary,
                 stale |-> s.stale, differs |-> {}]
        BY <1>2, <2>2, <2>4, <2>5 DEF to
      <3> QED
        BY <2>3, <3>3, <3>4 DEF r, h
    <2>6. CASE ~Goes(s, d)
      <3>1. BeginMove(s, d) = s
        BY <2>6 DEF BeginMove
      <3> QED
        BY <2>3, <2>4, <2>6, <3>1 DEF h
    <2> QED
      BY <2>5, <2>6
  <1>5. CASE c.op = "speed"
    <2> DEFINE rate == [s.rate EXCEPT ![c.group] = c.value]
               r == [s EXCEPT !.rate = rate]
    <2>1. Execute(s, c) = r
      BY <1>1, <1>5 DEF Execute, MoveOps, Machine
    <2>2. Carried(h, c) = [pos |-> s.pos, origin |-> s.origin, rate |-> rate, rotary |-> s.rotary,
                           stale |-> s.stale, differs |-> {}]
      BY <1>2, <1>5 DEF Carried, MoveOps
    <2> HIDE DEF rate
    <2>3. r.state = "Idle" /\ r.pos = s.pos /\ r.origin = s.origin /\ r.rate = rate
          /\ r.stale = s.stale
      BY <1>1 DEF Machine
    <2> HIDE DEF r
    <2> QED
      BY <2>1, <2>2, <2>3 DEF Ahead, Arrived, h
  <1>6. CASE c.op \in {"cut_from", "job_end"}
    <2> DEFINE origin == IF c.op = "cut_from" THEN CutFrom(s, c.code) ELSE Zero
               r == [s EXCEPT !.origin = origin, !.stale = FALSE]
    <2>1. Execute(s, c) = r
      BY <1>6 DEF Execute, MoveOps
    <2>2. CutFrom(h, c.code) = CutFrom(s, c.code)
      BY <1>2 DEF CutFrom
    <2>3. Carried(h, c)
            = [pos |-> s.pos, origin |-> origin, rate |-> s.rate, rotary |-> s.rotary,
               stale |-> FALSE, differs |-> {}]
      <3>1. Carried(h, c) = [h EXCEPT !.origin = origin, !.stale = FALSE]
        BY <1>6, <2>2 DEF Carried, MoveOps
      <3> HIDE DEF origin
      <3> QED
        BY <1>2, <3>1
    <2> HIDE DEF origin
    <2>4. r.state = "Idle" /\ r.pos = s.pos /\ r.origin = origin /\ r.rate = s.rate
          /\ r.stale = FALSE
      BY <1>1 DEF Machine
    <2> HIDE DEF r
    <2> QED
      BY <2>1, <2>3, <2>4 DEF Ahead, Arrived, h
  <1>7. CASE c.op \in {"laser_on", "laser_off", "power", "raster", "dwell"}
    <2>1. Carried(h, c) = h
      BY <1>7 DEF Carried, MoveOps
    <2>2. /\ Execute(s, c).state \in {"Idle", "Dwelling"} /\ Execute(s, c).pos = s.pos
          /\ Execute(s, c).origin = s.origin /\ Execute(s, c).rate = s.rate
          /\ Execute(s, c).stale = s.stale
      <3>1. CASE c.op \in {"laser_on", "laser_off"}
        BY <1>1, <3>1 DEF Execute, MoveOps, Machine
      <3>2. CASE c.op = "power"
        BY <1>1, <3>2 DEF Execute, MoveOps, Machine
      <3>3. CASE c.op = "raster"
        BY <1>1, <3>3 DEF Execute, MoveOps, Machine
      <3>4. CASE c.op = "dwell"
        BY <1>1, <3>4 DEF Execute, MoveOps, Machine
      <3> QED
        BY <1>7, <3>1, <3>2, <3>3, <3>4
    <2> QED
      BY <1>2, <2>1, <2>2 DEF Ahead, Arrived, h
  <1> QED
    BY <1>1, <1>4, <1>5, <1>6, <1>7 DEF CanBeQueued, h

LEMMA TakeNextBound ==
    ASSUME NEW s, Sound(s), s.state = "Idle", NEW rotary \in Axes \cup {NoAxis},
           Bound(s, rotary).differs = {}
    PROVE  Bound(TakeNext(s, rotary), rotary) = Bound(s, rotary)
  <1> DEFINE r == [s EXCEPT !.rotary = rotary]
             t == [r EXCEPT !.queue = Tail(@)]
  <1>1. /\ s \in Machine /\ r \in Machine /\ r.queue = s.queue /\ r.state = "Idle"
        /\ r.pos = s.pos /\ r.origin = s.origin /\ r.rate = s.rate /\ r.rotary = rotary
        /\ r.stale = s.stale /\ r.move = s.move /\ r.paused = s.paused
    BY DEF Sound, Machine
  <1>2. Sound(r)
    <2> HIDE DEF r
    <2> QED
      BY <1>1 DEF Sound, MoveIsSound
  <1>3. Ahead(r, rotary) = Ahead(s, rotary)
    <2> HIDE DEF r
    <2> QED
      BY <1>1 DEF Ahead, Arrived
  <1>4. CASE s.queue = <<>>
    <2>1. TakeNext(s, rotary) = r
      BY <1>4, TakeNextIs
    <2>2. r.queue = s.queue
      BY <1>1
    <2> HIDE DEF r
    <2> QED
      BY <1>3, <2>1, <2>2 DEF Bound
  <1>5. CASE s.queue # <<>>
    <2>1. /\ s.queue \in Seq(Command) /\ Head(s.queue) \in Command /\ Tail(s.queue) \in Seq(Command)
          /\ Len(Tail(s.queue)) = Len(s.queue) - 1
      BY <1>1, <1>5 DEF Machine
    <2>2. TakeNext(s, rotary) = Execute(t, Head(s.queue))
      <3>1. TakeNext(s, rotary) = IF r.queue = <<>> THEN r ELSE Execute(t, Head(r.queue))
        BY DEF TakeNext
      <3> HIDE DEF r, t
      <3> QED
        BY <1>1, <1>5, <3>1
    <2>3. /\ t \in Machine /\ t.queue = Tail(s.queue) /\ t.rate = s.rate /\ t.pos = s.pos
          /\ t.move = s.move /\ t.state = "Idle" /\ t.paused = s.paused /\ t.origin = s.origin
          /\ t.rotary = rotary /\ t.stale = s.stale
      BY <1>1, <2>1 DEF Machine
    <2> HIDE DEF r, t
    <2>4. Sound(t)
      <3>1. Len(t.queue) <= QueueCap
        <4>1. Len(s.queue) \in Nat /\ Len(s.queue) <= QueueCap /\ QueueCap \in Nat
          BY <2>1, MotionAssumption DEF Sound
        <4> QED
          BY <2>1, <2>3, <4>1
      <3> QED
        BY <1>1, <2>3, <3>1 DEF Sound, MoveIsSound
    <2>5. Ahead(t, rotary) = Ahead(s, rotary)
      BY <1>1, <2>3 DEF Ahead, Arrived
    <2>6. Led(Ahead(s, rotary), s.queue)
            = Led(Carried(Ahead(s, rotary), Head(s.queue)), Tail(s.queue))
      <3>1. Ahead(s, rotary) \in Course
        BY AheadIs
      <3> QED
        BY <1>5, <2>1, <3>1, LedFurther
    <2>7. Carried(Ahead(s, rotary), Head(s.queue)).differs = {}
      <3>1. Carried(Ahead(s, rotary), Head(s.queue)) \in Course
        BY <2>1, AheadIs, CarriedIs
      <3> QED
        BY <2>1, <2>6, <3>1, LedDiffers DEF Bound
    <2>8. Ahead(Execute(t, Head(s.queue)), rotary) = Carried(Ahead(s, rotary), Head(s.queue))
      BY <2>1, <2>3, <2>4, <2>5, <2>7, ExecuteCarries
    <2>9. Execute(t, Head(s.queue)).queue = Tail(s.queue)
      BY <2>1, <2>3, <2>4, ExecuteIs
    <2> QED
      BY <2>2, <2>6, <2>8, <2>9 DEF Bound
  <1> QED
    BY <1>4, <1>5

(* A move that is further on, or done, leads where it led. *)
LEMMA MovedBound ==
    ASSUME NEW s, Sound(s), s.state = "Moving", s.move.speed > 0, NEW u \in Nat,
           s.move.traveled + s.move.speed * u <= s.move.length * Unit, NEW rotary
    PROVE  Bound(Moved(s, s.move.speed * u), rotary) = Bound(s, rotary)
  <1> DEFINE x == s.move.traveled + s.move.speed * u
             path == s.move.length * Unit
             p == ApplyLimits(s.rotary, [a \in Axes |->
                                s.move.start[a] + Rounded(s.move.delta[a] * x, path)])
             l == Rastered(s.laser, x, path)
             e == IF x = path THEN "Idle" ELSE s.state
             r == Moved(s, s.move.speed * u)
  <1>0. s \in Machine /\ path \in Nat \ {0}
    BY PathOf DEF Sound
  <1>1. r = Changed(s, x, p, l, e)
    BY DEF Moved, Changed
  <1>2. /\ r.queue = s.queue /\ r.move = [s.move EXCEPT !.traveled = x] /\ r.state = e
    BY MovedIs
  <1> HIDE DEF r, x, p, l, e
  <1>3. /\ r.rotary = s.rotary /\ r.pos = p /\ r.origin = s.origin /\ r.rate = s.rate
        /\ r.stale = s.stale
    BY <1>0, <1>1 DEF Changed, Machine
  <1>4. r.move.start = s.move.start /\ r.move.delta = s.move.delta
    BY <1>0, <1>2 DEF Machine
  <1>5. Arrived(r) = Arrived(s)
    <2>1. CASE x # path
      <3>1. r.state = "Moving"
        BY <1>2, <2>1 DEF e
      <3> QED
        BY <1>3, <1>4, <3>1 DEF Arrived
    <2>2. CASE x = path
      <3>1. r.state = "Idle"
        BY <1>2, <2>2 DEF e
      <3>2. ASSUME NEW a \in Axes PROVE Rounded(s.move.delta[a] * x, path) = s.move.delta[a]
        <4>1. s.move.delta[a] \in Int
          BY <1>0 DEF Machine, Point
        <4> HIDE DEF path
        <4> QED
          BY <1>0, <2>2, <4>1, RoundedIs
      <3>3. p = ApplyLimits(s.rotary, [a \in Axes |-> s.move.start[a] + s.move.delta[a]])
        <4>1. [a \in Axes |-> s.move.start[a] + Rounded(s.move.delta[a] * x, path)]
                = [a \in Axes |-> s.move.start[a] + s.move.delta[a]]
          BY <3>2
        <4> QED
          BY <4>1 DEF p
      <3> QED
        BY <1>3, <3>1, <3>3 DEF Arrived
    <2> QED
      BY <2>1, <2>2
  <1> QED
    BY <1>2, <1>3, <1>5 DEF Bound, Ahead, r

LEMMA PassBound ==
    ASSUME NEW s, Sound(s), s.state # "Jogging", NEW rotary \in Axes \cup {NoAxis}, NEW dt \in Nat,
           NEW to, to = Pass(s, rotary, dt), Bound(s, rotary).differs = {}
    PROVE  to[1].state # "Jogging" /\ Bound(to[1], rotary) = Bound(s, rotary)
  <1>0. s \in Machine /\ s.state \in MotionStates
    BY DEF Sound, Machine
  <1>1. CASE dt = 0 \/ s.state = "Paused"
    BY <1>1 DEF Pass
  <1>2. CASE dt # 0 /\ s.state = "Idle"
    <2>1. to = <<TakeNext(s, rotary), dt>>
      BY <1>2 DEF Pass
    <2>2. Bound(TakeNext(s, rotary), rotary) = Bound(s, rotary)
      BY <1>2, TakeNextBound
    <2>3. TakeNext(s, rotary).state # "Jogging"
      <3>1. CASE s.queue = <<>>
        <4>1. TakeNext(s, rotary) = [s EXCEPT !.rotary = rotary]
          BY <3>1, TakeNextIs
        <4>2. [s EXCEPT !.rotary = rotary].state = "Idle"
          BY <1>0, <1>2 DEF Machine
        <4> QED
          BY <4>1, <4>2
      <3>2. CASE s.queue # <<>>
        BY <1>2, <3>2, TakeNextIs
      <3> QED
        BY <3>1, <3>2
    <2> QED
      BY <2>1, <2>2, <2>3
  <1>3. CASE dt # 0 /\ s.state = "Moving"
    <2>0. s.move.speed > 0 /\ s.move.length * Unit \in Nat
      BY <1>3, PathOf DEF Sound, MoveIsSound
    <2>1. /\ Left(s) \in Nat
          /\ s.move.traveled + s.move.speed * Left(s) = s.move.length * Unit
          /\ \A u \in Nat : u < Left(s) <=>
                s.move.traveled + s.move.speed * u < s.move.length * Unit
      BY <2>0, LeftIs
    <2>2. \E u \in Nat : /\ to[1] = Moved(s, s.move.speed * u)
                         /\ s.move.traveled + s.move.speed * u <= s.move.length * Unit
      <3>1. CASE dt < Left(s)
        <4>1. to = <<Moved(s, s.move.speed * dt), 0>>
          BY <1>3, <3>1, PassDoes
        <4>2. s.move.traveled + s.move.speed * dt <= s.move.length * Unit
          <5>1. s.move.traveled + s.move.speed * dt \in Int
            BY <1>0 DEF Machine
          <5> QED
            BY <2>0, <2>1, <3>1, <5>1
        <4> QED
          BY <4>1, <4>2
      <3>2. CASE ~(dt < Left(s))
        <4>1. to = <<Moved(s, s.move.speed * Left(s)), dt - Left(s)>>
          BY <1>3, <2>1, <3>2, PassDoes
        <4>2. s.move.traveled + s.move.speed * Left(s) <= s.move.length * Unit
          BY <2>0, <2>1
        <4> QED
          BY <2>1, <4>1, <4>2
      <3> QED
        BY <3>1, <3>2
    <2>3. PICK u \in Nat : /\ to[1] = Moved(s, s.move.speed * u)
                           /\ s.move.traveled + s.move.speed * u <= s.move.length * Unit
      BY <2>2
    <2>4. Bound(to[1], rotary) = Bound(s, rotary)
      BY <1>3, <2>0, <2>3, MovedBound
    <2>5. to[1].state \in {"Idle", "Moving"}
      <3>1. Moved(s, s.move.speed * u).state \in {"Idle", s.state}
        BY <2>0, <2>3, MovedIs
      <3> QED
        BY <1>3, <2>3, <3>1
    <2> QED
      BY <2>4, <2>5
  <1>4. CASE dt # 0 /\ s.state = "Dwelling"
    <2>1. \E dwell, state : /\ to[1] = [s EXCEPT !.dwell = dwell, !.state = state]
                            /\ state \in {"Dwelling", "Idle"}
      <3>1. s.dwell \in Nat
        BY <1>0 DEF Machine
      <3>2. CASE dt < s.dwell
        <4> DEFINE left == s.dwell - dt
        <4>0. to = <<[s EXCEPT !.dwell = left], 0>>
          BY <1>4, <3>2 DEF Pass
        <4>1. to[1] = [s EXCEPT !.dwell = left]
          BY <4>0
        <4> HIDE DEF left
        <4>2. [s EXCEPT !.dwell = left] = [s EXCEPT !.dwell = left, !.state = "Dwelling"]
          BY <1>0, <1>4 DEF Machine
        <4> QED
          BY <4>1, <4>2
      <3>3. CASE ~(dt < s.dwell)
        <4>0. to = <<[s EXCEPT !.dwell = 0, !.state = "Idle"], dt - s.dwell>>
          BY <1>4, <3>1, <3>3 DEF Pass, LeftOver
        <4>1. to[1] = [s EXCEPT !.dwell = 0, !.state = "Idle"]
          BY <4>0
        <4> QED
          BY <4>1
      <3> QED
        BY <3>2, <3>3
    <2>2. PICK dwell, state : /\ to[1] = [s EXCEPT !.dwell = dwell, !.state = state]
                              /\ state \in {"Dwelling", "Idle"}
      BY <2>1
    <2> DEFINE r == [s EXCEPT !.dwell = dwell, !.state = state]
    <2>3. /\ r.state \in {"Dwelling", "Idle"} /\ r.pos = s.pos /\ r.origin = s.origin
          /\ r.rate = s.rate /\ r.queue = s.queue /\ r.stale = s.stale
      BY <1>0, <2>2 DEF Machine
    <2> HIDE DEF r
    <2>4. to[1] = r
      BY <2>2 DEF r
    <2> QED
      BY <1>4, <2>3, <2>4 DEF Bound, Ahead, Arrived
  <1> QED
    BY <1>0, <1>1, <1>2, <1>3, <1>4 DEF MotionStates

LEMMA SteppedBound ==
    ASSUME NEW s, Sound(s), s.state # "Jogging", NEW rotary \in Axes \cup {NoAxis}, NEW dt \in Nat,
           Bound(s, rotary).differs = {}
    PROVE  Bound(Stepped(s, rotary, dt), rotary) = Bound(s, rotary)
  <1> DEFINE at == <<s, dt>>
             n == MaxPasses
  <1>0. /\ at \in Good /\ at[1] = s /\ at[2] = dt
        /\ Stepped(s, rotary, dt) = Ended(at, rotary)[1]
    BY SteppedIs
  <1> HIDE DEF at
  <1>1. n \in Nat /\ Keeps(Loop(rotary), n, Good)
    BY LoopIsPass
  <1>2. PICK f \in [0..n -> Good] : RunIs(f, n, at, Loop(rotary)) /\ f[n] = Ended(at, rotary)
    BY <1>0, <1>1, AfterLoopWithin DEF Ended
  <1> DEFINE S == {k \in 0..n : /\ f[k][1].state # "Jogging"
                                /\ Bound(f[k][1], rotary) = Bound(s, rotary)}
  <1>3. 0 \in S
    <2>1. f[0] = at
      BY <1>2 DEF RunIs
    <2> QED
      BY <1>0, <1>1, <2>1
  <1>4. ASSUME NEW k \in 0..(n - 1), k \in S PROVE k + 1 \in S
    <2>1. k + 1 \in 1..n /\ k + 1 \in 0..n /\ (k + 1) - 1 = k /\ k \in 0..n
      BY <1>1
    <2>2. f[k + 1] = Loop(rotary)[k + 1][f[k]] /\ f[k] \in Good
      BY <1>2, <2>1 DEF RunIs
    <2>3. f[k + 1] = Pass(f[k][1], rotary, f[k][2])
      BY <2>1, <2>2, LoopIsPass
    <2>4. Sound(f[k][1]) /\ f[k][2] \in Nat
      BY <2>2 DEF Good
    <2>5. f[k + 1][1].state # "Jogging" /\ Bound(f[k + 1][1], rotary) = Bound(f[k][1], rotary)
      BY <1>4, <2>3, <2>4, PassBound
    <2> QED
      BY <1>4, <2>1, <2>5
  <1>5. n \in S
    <2>1. 0..n \subseteq S
      <3> HIDE DEF S
      <3> QED
        BY <1>1, <1>3, <1>4, BoundedInduction
    <2> QED
      BY <1>1, <2>1
  <1> QED
    BY <1>0, <1>2, <1>5

(* The head gets where its commands ask it to be by what the documents     *)
(* say, for every queue without a command on which the code differs from   *)
(* them: a go-to while an origin is set, an absolute move after a stop     *)
(* that left one, a move without a rate (decodeMoveDelta, beginMove, step).*)
THEOREM HeadEndsWhereAsked == Spec => []EndsWhereAsked
  <1>1. MotionInv => EndsWhereAsked
    <2> SUFFICES ASSUME MotionInv, m.state # "Jogging", Destination(m).differs = {},
                        NEW dt \in 1..MaxDt
                 PROVE  Destination(Stepped(m, rotaryAxis, dt)).pos = Destination(m).pos
      BY DEF EndsWhereAsked
    <2>1. dt \in Nat /\ Sound(m) /\ rotaryAxis \in Axes \cup {NoAxis}
      BY MotionAssumption DEF MotionInv
    <2>2. ASSUME NEW s PROVE Destination(s) = Bound(s, rotaryAxis)
      BY DEF Destination, Bound, Ahead, Arrived
    <2>3. Bound(m, rotaryAxis).differs = {}
      BY <2>2
    <2>4. Bound(Stepped(m, rotaryAxis, dt), rotaryAxis) = Bound(m, rotaryAxis)
      BY <2>1, <2>3, SteppedBound
    <2> QED
      BY <2>2, <2>4
  <1> QED
    BY <1>1, MotionInvHolds, PTL
=============================================================================
