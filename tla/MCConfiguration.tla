-------------------------- MODULE MCConfiguration ---------------------------
(***************************************************************************)
(* Two codes and two values: enough for an entry to be missing, to be 0,   *)
(* to be replaced and to be left alone by a commit.                        *)
(***************************************************************************)
EXTENDS Configuration

Origins == {"cfg_user_origin_x", "cfg_user_origin_y"}
=============================================================================
