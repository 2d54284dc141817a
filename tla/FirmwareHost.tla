---------------------------- MODULE FirmwareHost ----------------------------
(***************************************************************************)
(* The firmware under a host that keeps the protocol's rules: it numbers   *)
(* its requests one after the other and, when an answer does not come,     *)
(* sends the last one again under the same number (lbp/spec.md, "Rules for *)
(* LightBurn").  Requests without a number may come in between.            *)
(*                                                                         *)
(* The host is not part of the repository.  Its variables, and the history *)
(* the properties speak of, never restrict what the firmware does.         *)
(***************************************************************************)
EXTENDS FirmwareSim

CONSTANTS MaxRequests,       \* numbered requests the host makes
          MaxSends,          \* messages it sends, retries included
          AnonymousOps       \* commands it also sends without a number

Unnumbered(cmds) == \A i \in DOMAIN cmds : cmds[i].txid = NoTxid

(* A run does not use a number twice: there are 65535 (uint16, without     *)
(* txid_none). *)
ASSUME HostAssumption == MaxRequests \in 0..65535 /\ MaxSends \in Nat

(* Files are transferred under numbers, and "messages written into job     *)
(* files always have Transaction ID 0" (lbp/spec.md:117).                  *)
ASSUME NumbersAssumption ==
    /\ AnonymousOps \cap FileOps = {}
    /\ \A req \in Request : Unnumbered(req.body)
    /\ \A f \in LeftFiles : Unnumbered(f)

VARIABLES numbered,          \* how many numbers were assigned
          sends,             \* how many messages were sent
          last,              \* the last numbered request: what a retry repeats
          now,               \* the message processed last
          evaluations,       \* how often `last' was evaluated and not nacked
          confirmed,         \* was any answer but a nack to `last' sent?
          content,           \* commands of the file, as confirmed to the host
          torn,              \* the file was changed and that not confirmed, as
                             \* by a chunk written in part, since a file_begin
          endTaken,          \* a job_end was executed since the job started
          held,              \* a pause was processed, and nothing since then
                             \* that lets the head go again
          jogOff,            \* no jog was started since one was ended
          lit                \* a laser_on was executed during this fault

hostVars == <<numbered, sends, last, now>>
historyVars == <<evaluations, confirmed, content, torn, endTaken, held, jogOff, lit>>
allVars == <<vars, hostVars, historyVars>>

NoRequest == [op |-> "", arg |-> 0, ok |-> TRUE, txid |-> NoTxid, body |-> <<>>]

HostInit == /\ Init
            /\ numbered = 0 /\ sends = 0 /\ last = NoRequest
            /\ now = NoRequest
            /\ evaluations = 0 /\ confirmed = FALSE /\ content = file
            /\ torn = FALSE /\ endTaken = FALSE
            /\ held = FALSE /\ jogOff = TRUE /\ lit = FALSE

-----------------------------------------------------------------------------
(* What a message pushed in this step answers. *)
Pushed == Len(outq') > Len(outq)
Answer == outq'[Len(outq')]
Confirmation == Pushed /\ Answer.cmd # "nack"

LetsGo(req) == req.op \in {"continue", "stop", "execute", "jog_start"}

(* A jog is ended by what stops the head, or by a jog_stop that finds it.  *)
StartsJog(req) == req.op = "jog_start" /\ ~fault
EndsJog(req) == \/ req.op \in {"stop", "execute"}
                \/ req.op = "jog_stop" /\ mstate # "Paused"

(* The request that carries the number of `last', which from now on is    *)
(* req: what became of it before, and now.                                 *)
Counted(req, evaluatedBefore, confirmedBefore) ==
    /\ evaluations' = IF ~Repeated(req) /\ lastResponse'.txid = req.txid
                      THEN evaluatedBefore + 1 ELSE evaluatedBefore
    /\ confirmed' = (confirmedBefore \/ Confirmation)

(* The record of a message.  A file is what was confirmed of it, each      *)
(* request once: first says that this is the confirmation that counts.     *)
Observed(req, first) ==
    /\ now' = req
    /\ content' = IF first /\ req.op = "file_begin" THEN <<>>
                  ELSE IF first /\ req.op = "file_chunk" THEN content \o req.body
                  ELSE content
    /\ torn' = IF first /\ req.op = "file_begin" THEN FALSE
               ELSE torn \/ (~Confirmation /\ file' # file)
    /\ endTaken' = (endTaken /\ req.op \notin {"stop", "execute"})
    /\ held' = IF Repeated(req) THEN held
               ELSE req.op = "pause" \/ (held /\ ~LetsGo(req))
    /\ jogOff' = IF Repeated(req) THEN jogOff
                 ELSE EndsJog(req) \/ (jogOff /\ ~StartsJog(req))
    /\ UNCHANGED lit

MaySend == sends < MaxSends /\ sends' = sends + 1

NewRequest(req) == LET r == [req EXCEPT !.txid = numbered + 1]
                   IN  /\ MaySend
                       /\ numbered < MaxRequests /\ numbered' = numbered + 1
                       /\ last' = r
                       /\ Process(r)
                       /\ Counted(r, 0, FALSE)
                       /\ Observed(r, Confirmation)

Retry == /\ MaySend
         /\ last.txid # NoTxid
         /\ Process(last)
         /\ Counted(last, evaluations, confirmed)
         /\ Observed(last, Confirmation /\ ~confirmed)
         /\ UNCHANGED <<numbered, last>>

Anonymous(req) == LET r == [req EXCEPT !.txid = NoTxid]
                  IN  /\ MaySend
                      /\ r.op \in AnonymousOps
                      /\ Process(r)
                      /\ Observed(r, FALSE)
                      /\ UNCHANGED <<numbered, last, evaluations, confirmed>>

(* A command leaves the command queue by being executed, or with stop().   *)
Takes(op) == /\ phase = "move" /\ mstate = "Idle" /\ budget > 0
             /\ cmdq # <<>> /\ Head(cmdq).op = op

(* A jog may also be started by the job. *)
Pumps(op) == phase = "pump" /\ canEnqueue /\ fbuf # <<>> /\ Head(fbuf).op = op

Firmware == /\ Internal
            /\ endTaken' = (endTaken \/ Takes("job_end"))
            /\ held' = (held /\ ~fault' /\ ~Pumps("jog_start"))
            /\ jogOff' = ((jogOff /\ ~Pumps("jog_start")) \/ (fault' /\ ~fault))
            /\ lit' = (fault /\ fault' /\ (lit \/ Takes("laser_on")))
            /\ UNCHANGED <<hostVars, evaluations, confirmed, content, torn>>

HostNext == \/ \E req \in Request : NewRequest(req)
            \/ Retry
            \/ \E req \in Request : Anonymous(req)
            \/ Firmware

HostSpec == HostInit /\ [][HostNext]_allVars

FairHostSpec == HostSpec /\ Fairness

-----------------------------------------------------------------------------
(* What an answer may do, and what must not be done twice.                 *)

Processing == sends' > sends

(* A request the host numbered takes effect at most once, however often it *)
(* is retried and whatever unnumbered requests, steps of the timer and     *)
(* faults come in between (FirmwareSim::process, m_last_txid and           *)
(* OutputQueue::m_last_response).                                          *)
AtMostOnce == evaluations <= 1

(* Whatever is sent in answer to a request, repeated answers included,     *)
(* carries its number and its command, or rejects that command.            *)
AnswersTheRequest ==
    [][Processing /\ Pushed =>
          /\ Answer.txid = now'.txid
          /\ \/ Answer.cmd = now'.op
             \/ Answer.cmd = "nack" /\ Answer.of = now'.op]_allVars

(* The file on disk is, chunk by chunk, what was confirmed to the host: no *)
(* chunk is missing, and none is there twice because its answer was lost,  *)
(* until the disk takes a part of one or its answer is dropped; the next   *)
(* file that is begun is exact again (FileSystem::receive).                *)
TransferExact == ~torn => file = content

(* The firmware is a service whose requests take effect once, and which    *)
(* confirms none that did not.                                             *)
Service == INSTANCE RequestService
               WITH number <- numbered, effects <- evaluations, known <- confirmed

ImplementsService == Service!Spec

(* A nack means that nothing was done, but for a file_begin, which ends a  *)
(* transfer that is under way before it looks at its own argument, and for *)
(* a chunk of which the disk took only a part.                             *)
NackHarmless ==
    [][Processing /\ Pushed /\ Answer.cmd = "nack" =>
          /\ UNCHANGED <<mvVars, fwState, onDisk, rd, fbuf>>
          /\ fstate' # fstate => fstate = "Receiving" /\ now'.op = "file_begin"
          /\ file' # file => now'.op = "file_chunk"]_allVars

-----------------------------------------------------------------------------
(* Jobs.                                                                   *)

(* What is still to be parsed of the job, and what a command of it leaves  *)
(* in the queue: nothing, if it is malformed or not one to be queued.      *)
Unread == IF isReading THEN SubSeq(file, rd + 1, Len(file)) ELSE <<>>
Unparsed == fbuf \o Unread

QueuedPart(c) == IF c.op \in QueuedOps /\ c.ok THEN <<Queued(c)>> ELSE <<>>

(* A job is the commands of its file.  While it executes every one of them *)
(* goes through the queue to the head, in order and once: the firmware's   *)
(* own steps move the first command of what is not parsed to the end of    *)
(* the queue, or take the first of the queue, and no request but execute   *)
(* (whose file may not open) touches the part that is not queued yet       *)
(* (beginJob, pumpJob, feedParser, takeNextCommand).                       *)
JobInOrder ==
    [][executing' =>
          IF Processing
          THEN \/ Unparsed' = Unparsed
               \/ /\ now'.op = "execute"
                  /\ \/ Unparsed' = file /\ cmdq' = <<>>
                     \/ Unparsed' = <<>> /\ cmdq' = <<>> /\ DiskMayFail
          ELSE \/ UNCHANGED <<Unparsed, cmdq>>
               \/ /\ Unparsed' = Unparsed
                  /\ cmdq # <<>> /\ cmdq' = Tail(cmdq)
               \/ /\ Unparsed # <<>> /\ Unparsed' = Tail(Unparsed)
                  /\ cmdq' = cmdq \o QueuedPart(Head(Unparsed))]_allVars

(* The host is told that a job is over only when its job_end was executed, *)
(* or when nothing of the job remains and the head stands still; a job_end *)
(* of an earlier job does not count (checkJobComplete, m_job_ended).       *)
CompletionJustified ==
    [][phase = "finish" /\ executing /\ ~executing' =>
          \/ endTaken
          \/ Unparsed = <<>> /\ cmdq = <<>> /\ mstate = "Idle"]_allVars

(* Pausing and continuing, repeated or not, lose nothing: the state and    *)
(* the laser that continue restores are those of before the first pause.   *)
Effective == IF mstate = "Paused" THEN paused
             ELSE [state |-> mstate, laser |-> laser]

PauseTransparent ==
    [][Processing /\ now'.op \in {"pause", "continue"} =>
          Effective' = Effective /\ UNCHANGED <<cmdq, pos, move, dwell>>]_allVars

(* While a pause holds, the head and the laser stand still and no command  *)
(* is taken from the queue, whatever is queued, jogged to an end, resent   *)
(* or reported meanwhile.  A jog that is started ends the pause, which is  *)
(* what the code does (MovementSim::pause, step, beginJog).                *)
PauseHolds ==
    [][held /\ held' => /\ ~laser' /\ UNCHANGED pos
                        /\ Len(cmdq) <= Len(cmdq')
                        /\ cmdq = SubSeq(cmdq', 1, Len(cmdq))]_allVars

(* A jog that was ended stays so until the next is started: no continue    *)
(* and no repeated pause brings it back (endJog, resume, stop).            *)
JogStaysOff == jogOff => /\ mstate # "Jogging"
                         /\ mstate = "Paused" => paused.state # "Jogging"

(* A fault puts the laser out, and it is dark until a laser_on that came   *)
(* after the fault is executed, which the code does not refuse             *)
(* (setFault, MovementSim::stop, FirmwareSim::process).                    *)
FaultDark == fault /\ ~lit => ~laser

(* A transfer that the host did not end itself ends with a notice: the end *)
(* of a job, which takes the next file's transfer with it, is announced,   *)
(* or lost and latched as lost, and a fault is shown (endJob, setFault).   *)
TransferEndsAnnounced ==
    [][~Processing /\ fstate = "Receiving" /\ fstate' # "Receiving" =>
          \/ "fault" \in fwState'
          \/ Pushed /\ Answer = JobEndNotice
          \/ overflowed']_allVars

(* Whatever the worker thread calls returns. *)
CallsReturn == phase # "loop" ~> phase = "loop"

(* A job that nobody pauses or jogs over comes to its end. *)
JobTerminates == executing ~> ~executing \/ mstate \in {"Paused", "Jogging"}

(* The flags that a get_state is answered with are those of the last       *)
(* step(): a pause is seen in them in the end (FirmwareSim::process,       *)
(* updateFwState).                                                         *)
PauseIsReported == mstate = "Paused" ~> mstate # "Paused" \/ "paused" \in fwState
=============================================================================
