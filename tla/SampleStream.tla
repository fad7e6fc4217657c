----------------------------- MODULE SampleStream -----------------------------
(***************************************************************************)
(* The server's legacy mode (server/server.c without --dma) over the       *)
(* channel registers of the Receiver: the coherent snapshot of             *)
(* server/memory_map.c, read register by register while the receiver runs  *)
(* on, and what the server makes of it: greeting, SAMPLE, ACK.             *)
(*                                                                         *)
(* A step is a clock of the receiver, with the control write of a command  *)
(* in it or not, or a step of the server between two clocks.  The server   *)
(* is the only writer of the registers.  What is told apart of a channel   *)
(* word is the frame it was latched with.                                  *)
(***************************************************************************)
EXTENDS Receiver, FiniteSetsExt

CONSTANTS
  Channels,  \* channel registers read for a snapshot: 8
  Retries    \* --snapshot-retries, at least 1

ASSUME SampleStreamAssumption == Channels \in Nat \ {0} /\ Retries \in Nat \ {0}

VARIABLES
  at,        \* "off", "loop", "status", "channels", "reply"
  purpose,   \* of the snapshot being read: "start", "greet", "poll", "answer"
  client, log,  \* client_fd >= 0; local_logger.active
  tries, before, read,  \* attempt, status_before, channels read in it
  got,       \* the frames those channels belong to
  snap,      \* state.snapshot
  have,      \* have_snapshot
  sent,      \* last_streamed_frame_cnt
  tag,       \* history: the frame count that ch was latched with
  turns,     \* history: frames latched since status_before was read, or CntMod
             \* if acquisition was off
  told       \* history: the newest conversion in a message that was sent

server == <<at, purpose, client, log, tries, before, read, got, snap, have, sent, told>>
vars == <<receiver, server, tag, turns>>

Frame == [of |-> ch, tag |-> tag]
NoSnapshot == [cnt |-> 0, frames |-> {}, sure |-> FALSE]

-----------------------------------------------------------------------------
(* The receiver, with what a command writes.                               *)

Clock(ctrl) ==
  /\ \E fall, done \in BOOLEAN : ReceiverClock(fall, done, ctrl)
  /\ tag' = IF state = "latch" THEN FrameCntNext ELSE tag
  /\ turns' = IF ~enable \/ turns = CntMod THEN CntMod
              ELSE IF state = "latch" THEN turns + 1 ELSE turns

Tick == Clock(enable) /\ UNCHANGED server

-----------------------------------------------------------------------------
(* ads1278_mmio_read_snapshot.                                             *)

\* Begin a snapshot for p.
Refresh(p) ==
  at' = "status" /\ purpose' = p /\ tries' = 0

ReadStatus ==
  /\ at = "status"
  /\ before' = frame_cnt /\ read' = 0 /\ got' = {}
  /\ turns' = IF enable THEN 0 ELSE CntMod
  /\ at' = "channels"
  /\ UNCHANGED <<receiver, purpose, client, log, tries, snap, have, sent, told, tag>>

ReadChannel ==
  /\ at = "channels" /\ read < Channels
  /\ got' = got \cup {Frame} /\ read' = read + 1
  /\ UNCHANGED <<receiver, at, purpose, client, log, tries, before, snap, have, sent,
                 told, tag, turns>>

Attempt == [cnt |-> frame_cnt, frames |-> got, sure |-> turns < CntMod]

\* Mutant: what was read last is better than nothing.
FallBackTorn == Attempt

\* After the last retry the snapshot before stays; without one, what was read
\* last is taken as it is.
FallBack == IF have THEN snap ELSE [Attempt EXCEPT !.sure = FALSE]

\* Mutant: one retry too many.
AgainOnceMore == before # frame_cnt /\ tries < Retries

Again == before # frame_cnt /\ tries + 1 < Retries

\* The second read of STATUS, and what follows from it.
ReadStatusAgain ==
  /\ at = "channels" /\ read = Channels
  /\ IF Again
     THEN at' = "status" /\ tries' = tries + 1 /\ UNCHANGED <<snap, have>>
     ELSE /\ at' = "reply" /\ have' = TRUE
          /\ snap' = IF before = frame_cnt THEN Attempt ELSE FallBack
          /\ UNCHANGED tries
  /\ UNCHANGED <<receiver, purpose, client, log, before, read, got, sent, told, tag, turns>>

-----------------------------------------------------------------------------
(* The loop of ads1278_server_run.                                         *)

Start ==
  /\ at = "off" /\ Refresh("start")
  /\ UNCHANGED <<receiver, client, log, before, read, got, snap, have, sent, told, tag, turns>>

Accept ==
  /\ at = "loop" /\ ~client
  /\ client' = TRUE /\ Refresh("greet")
  /\ UNCHANGED <<receiver, log, before, read, got, snap, have, sent, told, tag, turns>>

\* The sample deadline has passed.
Poll ==
  /\ at = "loop" /\ (client \/ log) /\ Refresh("poll")
  /\ UNCHANGED <<receiver, client, log, before, read, got, snap, have, sent, told, tag, turns>>

\* A command of the client: SET_ENABLE writes the control register; one that
\* starts or stops the local log, or does neither, writes what is there.
Command ==
  /\ at = "loop" /\ client
  /\ \/ \E v \in BOOLEAN : Clock(v) /\ UNCHANGED log
     \/ log' \in BOOLEAN /\ Clock(enable)
  /\ Refresh("answer")
  /\ UNCHANGED <<client, before, read, got, snap, have, sent, told>>

\* Mutant: a snapshot is new when its counter is greater.
DueLater == snap.cnt > sent

\* A poll that finds nothing new sends nothing.
Due == snap.cnt # sent

\* A message is sent, or a row written; a SAMPLE is both.
Tell == told' = Max({told} \cup UNION {f.of : f \in snap.frames})

\* Mutant: only samples are streamed.
MarkSamples == sent' = IF purpose = "answer" THEN sent ELSE snap.cnt

\* What was sent last, an answer as well as a sample.
Mark == sent' = snap.cnt

Reply ==
  /\ at = "reply" /\ at' = "loop"
  /\ IF purpose = "start" \/ (purpose = "poll" /\ ~Due) THEN UNCHANGED <<sent, told>>
     ELSE Tell /\ Mark
  /\ UNCHANGED <<receiver, purpose, client, log, tries, before, read, got, snap, have, tag,
                 turns>>

\* The row or the send fails and the client is closed.  A log that is not timed
\* ends with it; without a client it is the row that failed, and the log ends.
\* A greeting has marked its frame before it is sent.
ReplyFails ==
  /\ at = "reply" /\ purpose # "start" /\ (purpose = "poll" => Due)
  /\ at' = "loop" /\ client' = FALSE
  /\ IF client /\ log THEN log' \in BOOLEAN ELSE log' = FALSE
  /\ sent' = IF purpose = "greet" THEN snap.cnt ELSE sent
  /\ UNCHANGED <<receiver, purpose, tries, before, read, got, snap, have, told, tag, turns>>

\* The client hangs up, or the log's time is over.
Leave ==
  /\ at = "loop"
  /\ \/ client /\ client' = FALSE /\ log' \in {FALSE, log}
     \/ log /\ log' = FALSE /\ UNCHANGED client
  /\ UNCHANGED <<receiver, at, purpose, tries, before, read, got, snap, have, sent, told, tag,
                 turns>>

\* The process ends with all it knows; the receiver runs on.
Quit ==
  /\ at # "off"
  /\ at' = "off" /\ client' = FALSE /\ log' = FALSE
  /\ snap' = NoSnapshot /\ have' = FALSE /\ sent' = 0 /\ told' = 0
  /\ UNCHANGED <<receiver, purpose, tries, before, read, got, tag, turns>>

\* What the server does of itself.
Loop == Poll \/ ReadStatus \/ ReadChannel \/ ReadStatusAgain \/ Reply

Next == Tick \/ Start \/ Loop \/ Accept \/ Command \/ ReplyFails \/ Leave \/ Quit

Init ==
  /\ ReceiverInit
  /\ at = "off" /\ purpose = "start" /\ client = FALSE /\ log = FALSE
  /\ tries = 0 /\ before = 0 /\ read = 0 /\ got = {}
  /\ snap = NoSnapshot /\ have = FALSE /\ sent = 0
  /\ tag = 0 /\ turns = 0 /\ told = 0

\* The process is scheduled, the select of the loop has a timeout, and a send
\* returns: a client that is connected reads.
Spec == Init /\ [][Next]_vars /\ WF_vars(Loop)

-----------------------------------------------------------------------------

Frames == [of : SUBSET (0 .. MaxConv), tag : 0 .. CntMod - 1]

\* Every variable holds a value of its kind.
TypeOK ==
  /\ ReceiverTypeOK
  /\ at \in {"off", "loop", "status", "channels", "reply"}
  /\ purpose \in {"start", "greet", "poll", "answer"}
  /\ client \in BOOLEAN /\ log \in BOOLEAN /\ have \in BOOLEAN
  /\ tries \in 0 .. Retries - 1 /\ read \in 0 .. Channels
  /\ {before, sent, tag} \subseteq 0 .. CntMod - 1 /\ turns \in 0 .. CntMod
  /\ got \subseteq Frames /\ told \in 0 .. MaxConv
  /\ snap \in [cnt : 0 .. CntMod - 1, frames : SUBSET Frames, sure : BOOLEAN]

\* However clocks fall between the register reads, a snapshot is of one frame, and
\* its counter is that frame's: as long as acquisition is on, the counter has not
\* gone all the way round within one attempt, and there was a snapshot to keep
\* when the retries ran out.  (A counter of 0 may be that of no frame yet.)
CoherentSnapshot ==
  snap.sure =>
    /\ Cardinality(snap.frames) = 1
    /\ snap.cnt # 0 => \A f \in snap.frames : f.tag = snap.cnt

\* A SAMPLE of a poll is newer than every message and row before: no frame is
\* sent or logged again after an answer, a fallback or a new client, unless
\* disabling acquisition has reset the counter.  (A message that failed was not
\* sent; its row, if it got that far, is written again.)
PollsTellNews ==
  [][(Reply /\ purpose = "poll" /\ Due /\ snap.sure /\ snap.cnt # 0) =>
        \A f \in snap.frames : Max(f.of \cup {0}) > told]_vars

\* A frame counter that stays is streamed to the client that stays, across wraps
\* and resets of the counter and whatever the client asks for meanwhile.
StreamCatchesUp ==
  \A k \in 0 .. CntMod - 1 :
    <>[](client /\ frame_cnt = k) => <>[](sent = k)

-----------------------------------------------------------------------------
(* What docs/feats/server.md promises and the server does not keep.           *)

\* "ACK and ERROR messages still include the latest coherent snapshot."  After
\* SET_ENABLE 0 the counter stays at 0 while the frame in progress is latched, so
\* two equal counters say nothing: the answer can mix two frames.
AnswersAreCoherent ==
  at = "reply" /\ purpose = "answer" => Cardinality(snap.frames) = 1
===============================================================================
