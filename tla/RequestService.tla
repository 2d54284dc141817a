--------------------------- MODULE RequestService ---------------------------
(***************************************************************************)
(* What a device promises the host that numbers its requests (lbp/spec.md, *)
(* "Transaction IDs"): a request may be rejected and asked again any       *)
(* number of times, but takes effect once, and whoever is told that it did *)
(* is told the truth.                                                      *)
(***************************************************************************)
EXTENDS Naturals

VARIABLES number,            \* of the request that is asked now
          effects,           \* how often it took effect
          known              \* was the host told so?

vars == <<number, effects, known>>

Init == number = 0 /\ effects = 0 /\ known = FALSE

(* An answer may be lost, and a rejection tells nothing. *)
Told == known' \in {known, effects' = 1}

(* A new number, at once served or rejected. *)
Ask == /\ number' = number + 1
       /\ effects' \in {0, 1}
       /\ known' \in {FALSE, effects' = 1}

(* The request, asked again after it was rejected. *)
Serve == /\ effects = 0 /\ effects' = 1
         /\ Told
         /\ UNCHANGED number

(* The answer, given again. *)
Repeat == effects = 1 /\ known' = TRUE /\ UNCHANGED <<number, effects>>

Next == Ask \/ Serve \/ Repeat

Spec == Init /\ [][Next]_vars
=============================================================================
