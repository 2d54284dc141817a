------------------------------ MODULE MCMotion ------------------------------
(***************************************************************************)
(* Motion for TLC: moves that are clipped, that wrap, that go nowhere, and *)
(* whose axes round differently.                                           *)
(***************************************************************************)
EXTENDS Motion

MCTravel == [a \in Axes |-> CASE a = "x" -> 6 [] a = "y" -> 5 [] a = "z" -> 2 [] OTHER -> 4]
MCUserOrigin == [x |-> 2, y |-> 1]

Set(group, value) == [op |-> "speed", group |-> group, value |-> value]
Value(op, value) == [op |-> op, value |-> value]
CutFromCode(code) == [op |-> "cut_from", code |-> code]
MoveBy(op, args) == [op |-> op, args |-> args]

MCCommand ==
    {Set("xy", 2), Set("u", 1), [op |-> "laser_on"], [op |-> "laser_off"],
     [op |-> "job_end"], Value("dwell", 3), Value("power", 9),
     CutFromCode("user"), CutFromCode("current"),
     [op |-> "raster", powers |-> <<3, 7, 5>>],
     MoveBy("rel", [x |-> 3, y |-> -5, u |-> 7]),
     MoveBy("rel", [u |-> -6]),
     MoveBy("abs", [x |-> 5, y |-> 4, z |-> 1]),
     MoveBy("jog_to", [y |-> 5, u |-> 1]),
     MoveBy("home", [y |-> 0, u |-> 0])}

MCJogs == {[dir |-> [Zero EXCEPT !.x = 1], group |-> "xy"],
           [dir |-> [Zero EXCEPT !.u = -1], group |-> "u"]}

=============================================================================
