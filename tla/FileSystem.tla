----------------------------- MODULE FileSystem -----------------------------
(***************************************************************************)
(* The one job file of the machine (lbp-simulator/filesystem.cpp): it is   *)
(* received from the wire in chunks, and read back through a parser of its *)
(* own while a job executes.  A file is the sequence of the job commands   *)
(* in it; that the parser hands out exactly those is what module Parser    *)
(* is about.                                                               *)
(***************************************************************************)
EXTENDS OutputQueue

CONSTANTS FileParserCap,     \* job commands the file parser buffers
          DiskMayFail        \* may opening or writing the file fail?

ASSUME FileSystemAssumption ==
    FileParserCap \in Nat \ {0} /\ DiskMayFail \in BOOLEAN

VARIABLES fstate,            \* m_state
          file,              \* the content of the file on disk
          onDisk,            \* does the file exist?
          rd,                \* the file's read position
          fbuf               \* in m_parser, read and not yet parsed

fsVars == <<fstate, file, onDisk, rd, fbuf>>

FileStates == {"Idle", "Receiving", "Reading"}

isReading == fstate = "Reading"

(* A file may be left from an earlier run of the program. *)
FsInit(Left) == /\ fstate = "Idle"
                /\ rd = 0
                /\ fbuf = <<>>
                /\ \/ onDisk = FALSE /\ file = <<>>
                   \/ onDisk = TRUE /\ file \in Left

DiskOutcomes == {TRUE} \cup (IF DiskMayFail THEN {FALSE} ELSE {})

-----------------------------------------------------------------------------
(* stop() and reset() do the same: close the file, empty the parser. *)
FsStop == fstate' = "Idle" /\ fbuf' = <<>> /\ UNCHANGED <<file, onDisk, rd>>

(* Mutant: the wrong state is tested. *)
MutCannotBegin == fstate = "Receiving"

CannotBegin == isReading

(* reset() and startReceiving() of cmd_file_begin. *)
FileBegin(req) ==
    /\ req.op = "file_begin"
    /\ \/ CannotBegin /\ Nack(req, "err_wrong_state") /\ UNCHANGED fsVars
       \/ ~CannotBegin /\ ~req.ok /\ FsStop /\ Nack(req, "err_invalid_length")
       \/ /\ ~CannotBegin /\ req.ok
          /\ fbuf' = <<>>
          /\ UNCHANGED rd
          /\ \E opens \in DiskOutcomes :
                IF opens
                THEN /\ fstate' = "Receiving"
                     /\ file' = <<>>
                     /\ onDisk' = TRUE
                     /\ Respond(req)
                ELSE /\ fstate' = "Idle"
                     /\ UNCHANGED <<file, onDisk>>
                     /\ Nack(req, "err_unknown")

(* A write that fails may have written a part of the chunk. *)
FileChunk(req) ==
    /\ req.op = "file_chunk"
    /\ UNCHANGED <<fstate, onDisk, rd, fbuf>>
    /\ \/ /\ fstate # "Receiving"
          /\ Nack(req, "err_transfer")
          /\ UNCHANGED file
       \/ /\ fstate = "Receiving"
          /\ file' = file \o req.body
          /\ Respond(req)
       \/ /\ fstate = "Receiving"
          /\ DiskMayFail
          /\ \E n \in 0..Len(req.body) :
                /\ n < Len(req.body)
                /\ file' = file \o SubSeq(req.body, 1, n)
          /\ Nack(req, "err_storage_full")

(* stopReceiving() leaves the parser alone. *)
FileEnd(req) ==
    /\ req.op = "file_end"
    /\ UNCHANGED <<file, onDisk, rd, fbuf>>
    /\ IF fstate # "Receiving"
       THEN Nack(req, "err_transfer") /\ UNCHANGED fstate
       ELSE fstate' = "Idle" /\ Respond(req)

FsProcess(req) == FileBegin(req) \/ FileChunk(req) \/ FileEnd(req)

-----------------------------------------------------------------------------
(* reset() and startReading(), as beginJob() calls them. *)
StartReading(opens) == /\ fstate' = IF opens THEN "Reading" ELSE "Idle"
                       /\ rd' = IF opens THEN 0 ELSE rd
                       /\ fbuf' = <<>>
                       /\ opens => onDisk
                       /\ UNCHANGED <<file, onDisk>>

(* What feedParser() can move from the file to the parser. *)
Readable == IF ~isReading THEN 0
            ELSE LET left == Len(file) - rd
                     room == FileParserCap - Len(fbuf)
                 IN  IF left <= room THEN left ELSE room

(* feedParser(), returning a number of bytes that is not 0. *)
FeedParser == /\ Readable > 0
              /\ fbuf' = fbuf \o SubSeq(file, rd + 1, rd + Readable)
              /\ rd' = rd + Readable
              /\ UNCHANGED <<fstate, file, onDisk>>

(* Mutant: whatever the file is open for. *)
MutFeedNothing == /\ Readable = 0
                  /\ fstate' = IF rd >= Len(file) THEN "Idle" ELSE fstate
                  /\ UNCHANGED <<file, onDisk, rd, fbuf>>

(* feedParser() returning 0: at the end of the file, reading is over. *)
FeedNothing == /\ Readable = 0
               /\ fstate' = IF isReading /\ rd = Len(file) THEN "Idle" ELSE fstate
               /\ UNCHANGED <<file, onDisk, rd, fbuf>>

JobCommand == {c \in [op : Ops, arg : Int, ok : BOOLEAN, txid : Nat] :
                  IsCommand(c)}

FsTypeOK == /\ fstate \in FileStates /\ onDisk \in BOOLEAN /\ rd \in Nat
            /\ file \in Seq(JobCommand) /\ fbuf \in Seq(JobCommand)
=============================================================================
