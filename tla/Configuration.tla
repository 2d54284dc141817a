--------------------------- MODULE Configuration ----------------------------
(***************************************************************************)
(* The settings of the machine (lbp-simulator/configuration.cpp): they are *)
(* staged one by one, latched by cmd_commit_cfg, written to a file, and    *)
(* read back when the firmware starts.                                     *)
(*                                                                         *)
(* m_settings and m_scratch are hash maps: a code that is not in one has   *)
(* the value Missing here.  The file is NoFile, Torn (it was opened, and   *)
(* so emptied, but not written completely), or the values in it.  The      *)
(* three tables of codes in the source list the same codes, so that a      *)
(* value in the file is found under the code itself.                       *)
(*                                                                         *)
(* The firmware is one thread, but the program or the computer may stop    *)
(* between any two of its steps, and the disk may fail.                    *)
(***************************************************************************)
EXTENDS Integers

CONSTANTS Code,               \* the configuration codes
          Arg,                \* the values that requests carry
          Missing,            \* no entry
          NoFile, Torn,       \* a file that is not there, or not whole
          SaveMayFail         \* may opening or writing the file fail?

Entry   == Int \cup {Missing}
Setting == [Code -> Entry]

ASSUME ConfigurationAssumption ==
    /\ Arg \subseteq Int
    /\ Missing \notin Int
    /\ NoFile \notin Setting /\ Torn \notin Setting /\ NoFile # Torn
    /\ SaveMayFail \in BOOLEAN

VARIABLES phase,              \* how far start or commit() has come
          settings,           \* m_settings
          scratch,            \* m_scratch
          disk,               \* config.json
          answer,             \* the value the last query was answered with
          committed,          \* history: the values set before the last commit
          staged,             \* history: the values set since the last commit
          saved               \* history: committed, when the file was written

confVars == <<settings, scratch>>
history  == <<committed, staged, saved>>
vars     == <<phase, settings, scratch, disk, answer, committed, staged, saved>>

Phases  == {"down", "creating", "loading", "ready", "latched", "truncated"}

Nothing == [k \in Code |-> Missing]

(* What a caller that starts from old sees of entry k: get() leaves its    *)
(* reference parameter alone when there is no entry. *)
Get(map, k, old) == IF map[k] = Missing THEN old ELSE map[k]

(* The entries of newer, and those of older that newer has not. *)
Latched(older, newer) == [k \in Code |-> Get(newer, k, older[k])]

(* Mutant: what is staged does not replace what is there. *)
MutLatch == Latched(scratch, settings)

Latch == Latched(settings, scratch)

(* Mutant: a code without a name. *)
MutNamed(k) == k # CHOOSE c \in Code : TRUE

(* cmdToName() and nameToCmd() *)
Named(k)  == k \in Code
Parsed(k) == k \in Code

isCfg(k)  == k \in Code

SaveOutcomes == {TRUE} \cup (IF SaveMayFail THEN {FALSE} ELSE {})

-----------------------------------------------------------------------------
(* A file may be left from an earlier run. *)
Init == /\ phase = "down"
        /\ settings = Nothing /\ scratch = Nothing
        /\ disk \in {NoFile} \cup [Code -> Arg \cup {Missing}]
        /\ answer = Missing
        /\ committed = (IF disk = NoFile THEN Nothing ELSE disk)
        /\ staged = Nothing
        /\ saved = committed

(* The constructor creates the file when there is none. *)
Boot == /\ phase = "down"
        /\ \/ disk # NoFile /\ phase' = "loading" /\ UNCHANGED disk
           \/ disk = NoFile /\ phase' = "creating" /\ disk' = Torn
           \/ disk = NoFile /\ SaveMayFail /\ phase' = "loading" /\ UNCHANGED disk
        /\ UNCHANGED <<confVars, answer, history>>

CreateDefault == /\ phase = "creating"
                 /\ phase' = "loading"
                 /\ \/ disk' = Nothing
                    \/ SaveMayFail /\ UNCHANGED disk
                 /\ UNCHANGED <<confVars, answer, history>>

(* load() *)
Load == /\ phase = "loading"
        /\ disk \notin {NoFile, Torn}
        /\ phase' = "ready"
        /\ settings' = [k \in Code |-> IF Parsed(k) THEN disk[k] ELSE Missing]
        /\ UNCHANGED <<scratch, disk, answer, history>>

(* json::parse() throws in the constructor of the firmware, and nothing    *)
(* catches it: the program ends. *)
LoadThrows == /\ phase = "loading"
              /\ disk \in {NoFile, Torn}
              /\ phase' = "down"
              /\ UNCHANGED <<confVars, disk, answer, history>>

(* The program, or the power, goes away.  History goes back to the last    *)
(* complete save. *)
Crash == /\ phase # "down"
         /\ phase' = "down"
         /\ settings' = Nothing /\ scratch' = Nothing
         /\ committed' = saved
         /\ staged' = Nothing
         /\ UNCHANGED <<disk, answer, saved>>

-----------------------------------------------------------------------------
(* process(): m_settings[cmd] inserts 0 where there is no entry. *)
Query(k) == /\ phase = "ready" /\ isCfg(k)
            /\ settings' = [settings EXCEPT ![k] = Get(settings, k, 0)]
            /\ answer' = settings'[k]
            /\ UNCHANGED <<phase, scratch, disk, history>>

Set(k, v) == /\ phase = "ready" /\ isCfg(k)
             /\ scratch' = [scratch EXCEPT ![k] = v]
             /\ staged' = [staged EXCEPT ![k] = v]
             /\ UNCHANGED <<phase, settings, disk, answer, committed, saved>>

(* commit() *)
Commit == /\ phase = "ready"
          /\ phase' = "latched"
          /\ settings' = Latch
          /\ scratch' = Nothing
          /\ committed' = Latched(committed, staged)
          /\ staged' = Nothing
          /\ UNCHANGED <<disk, answer, saved>>

(* save(): opening the file empties it.  That a file cannot be opened or   *)
(* written is not looked at. *)
SaveOpen == /\ phase = "latched"
            /\ phase' = "truncated"
            /\ disk' = Torn
            /\ UNCHANGED <<confVars, answer, history>>

SaveWrite == /\ phase = "truncated"
             /\ phase' = "ready"
             /\ disk' = [k \in Code |-> IF Named(k) THEN settings[k] ELSE Missing]
             /\ saved' = committed
             /\ UNCHANGED <<confVars, answer, committed, staged>>

SaveOpenFails == /\ phase = "latched" /\ SaveMayFail
                 /\ phase' = "ready"
                 /\ UNCHANGED <<confVars, disk, answer, history>>

SaveWriteFails == /\ phase = "truncated" /\ SaveMayFail
                  /\ phase' = "ready"
                  /\ UNCHANGED <<confVars, disk, answer, history>>

Next == \/ Boot \/ CreateDefault \/ Load \/ LoadThrows \/ Crash
        \/ \E k \in Code : Query(k) \/ \E v \in Arg : Set(k, v)
        \/ Commit \/ SaveOpen \/ SaveWrite \/ SaveOpenFails \/ SaveWriteFails

Spec == Init /\ [][Next]_vars

-----------------------------------------------------------------------------
(* The user origin, as a job's cmd_cut_from reads it: one variable serves  *)
(* for x and for y, and keeps the value of x where y has no entry. *)
UserOrigin(map) == LET x == Get(map, "cfg_user_origin_x", 0)
                   IN  <<x, Get(map, "cfg_user_origin_y", x)>>

TypeOK == /\ phase \in Phases
          /\ settings \in Setting /\ scratch \in Setting
          /\ disk \in {NoFile, Torn} \cup Setting
          /\ answer \in Entry
          /\ committed \in Setting /\ staged \in Setting /\ saved \in Setting

(* The value a host sees of an entry. *)
Shown(map, k) == Get(map, k, 0)

(* What is in memory is what was committed, entry by entry, and what is    *)
(* staged is what was set since; a file that is whole shows, at the next   *)
(* start, what was committed when it was written. *)
MemoryShows == /\ phase \in {"ready", "latched", "truncated"}
                    => \A k \in Code : Shown(settings, k) = Shown(committed, k)
               /\ scratch = staged
DiskShows == disk \in Setting => \A k \in Code : Shown(disk, k) = Shown(saved, k)
Restarted == phase \in {"down", "creating", "loading"}
                => committed = saved /\ settings = Nothing /\ scratch = Nothing
Created == phase = "creating" \/ disk = NoFile => saved = Nothing

ConfigInv == TypeOK /\ MemoryShows /\ DiskShows /\ Restarted /\ Created

(* A query is answered with the value that was last committed, and never   *)
(* with one that is only staged, whatever was queried, staged, committed   *)
(* and saved before, and across restarts: after one, the last commit is    *)
(* the last one whose file was written completely. *)
QueryIsCommitted ==
    [][\A k \in Code : Query(k) => answer' = Shown(committed, k)]_vars

-----------------------------------------------------------------------------
(* What lbp/spec.md says of queries, and the code does not do. *)

(* A query has no side effects: the user origin of the next job is the     *)
(* same after it (spec.md, Duplicate requests). *)
QueryPure ==
    [][\A k \in Code : Query(k) => UserOrigin(settings') = UserOrigin(settings)]_vars
=============================================================================
