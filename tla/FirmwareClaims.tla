--------------------------- MODULE FirmwareClaims ---------------------------
(***************************************************************************)
(* What the protocol's specification (lbp/spec.md) says of the firmware,   *)
(* and the simulator does not do.                                          *)
(***************************************************************************)
EXTENDS FirmwareHost

(* spec.md:154: "A cmd_nack means the firmware did not act on the request  *)
(* at all."  FileSystem::process calls reset() before it looks at the      *)
(* argument of file_begin, and the transfer that was under way is lost.    *)
NackMeansNoAction ==
    [][Processing /\ Pushed /\ Answer.cmd = "nack" =>
          UNCHANGED <<machineVars, fwState>>]_allVars
=============================================================================
