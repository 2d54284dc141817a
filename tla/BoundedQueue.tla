---------------------------- MODULE BoundedQueue ----------------------------
(***************************************************************************)
(* What a queue with a capacity promises (lbp/include/lbp/queue.h:12-24,   *)
(* and simutils.h:25-31 for what its user makes of a refusal): items come  *)
(* out in the order they went in, each once; one that is refused, because  *)
(* the queue was full and only then, is remembered as an overflow.         *)
(***************************************************************************)
EXTENDS Integers, Sequences

CONSTANT Cap

VARIABLES input,             \* the argument of push()
          q,
          output,            \* what pop() returned last
          overflowed         \* was an item refused?

Init == q = <<>> /\ overflowed = FALSE

Push == /\ IF Len(q) < Cap
           THEN q' = Append(q, input) /\ UNCHANGED overflowed
           ELSE overflowed' = TRUE /\ UNCHANGED q

Pop == q # <<>> /\ output' = Head(q) /\ q' = Tail(q) /\ UNCHANGED overflowed

Clear == q' = <<>> /\ UNCHANGED overflowed

Spec == Init /\ [][Push \/ Pop \/ Clear]_<<q, overflowed>>
=============================================================================
