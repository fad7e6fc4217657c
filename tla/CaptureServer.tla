----------------------------- MODULE CaptureServer -----------------------------
(***************************************************************************)
(* ads1278_server_run (server/server.c) in DMA mode over the registers of  *)
(* PingPong: one client at a time, the DMA armed for it, the buffers       *)
(* served to it and to the local CSV log, and a timed log that goes on     *)
(* after the client has left.                                              *)
(*                                                                         *)
(* The server is one thread.  Its steps are split where something else can *)
(* come between: at every register access, because the hardware runs on;   *)
(* at every send, receive and file write, because they can fail; and at    *)
(* the comparison with the deadline, because time passes.  A buffer stands *)
(* for its frames: a lap is logged and sent whole.  The sample that greets  *)
(* a client, which an active log gets as a row too, is one frame outside    *)
(* the laps and is left out of the rows.                                    *)
(*                                                                         *)
(* A send waits for the client to read, without a timeout, and commands    *)
(* are received for as long as they come: at these places the client can   *)
(* hold the server up for ever.  A write to the CSV file may fail, and so  *)
(* may the search for a stride canary.                                     *)
(***************************************************************************)
EXTENDS Integers, Sequences, FiniteSets

CONSTANT MaxWraps   \* bound: wrap pulses in a behaviour

ASSUME CaptureServerAssumption == MaxWraps \in Nat

VARIABLES
  enable, enablePrev, active, full, irq, wraps, overwrites,
  seen, reading,
  lap, readLap, lastLap, servedLaps, discarded,
  at,          \* where the server is in its loop
  fresh,       \* this process has not written DMA_CTRL yet
  client,      \* client_fd >= 0
  log,         \* local_logger.active
  deadline,    \* local_log_deadline: "none" (not valid), "running", "expired"
  duration,    \* pending_local_log_duration_s > 0
  rows,        \* the laps written to the log file of the latest start, in order
  timed        \* history: that log was started with a duration

registers == <<enable, enablePrev, active, full, irq, wraps, overwrites, lap>>
buffers == <<seen, reading, readLap, lastLap, servedLaps, discarded>>
logging == <<log, deadline, duration, rows, timed>>
vars == <<registers, buffers, logging, at, fresh, client>>

\* The server as PingPong sees it.
ServerPc ==
  CASE at = "exit" \/ fresh -> "down"
    [] at = "armBuffers" /\ ~fresh -> "irqAcked"
    [] at = "armEnable" /\ ~fresh -> "bufAcked"
    [] OTHER -> IF enable THEN "running" ELSE "stopped"

Regs == INSTANCE PingPong WITH pc <- ServerPc

None == 2
Places ==
  { "select", "greet", "armStop", "armIrqs", "armBuffers", "armEnable",
    "unattended", "logError", "socket", "poll", "deadline",
    "serve", "serveLog", "logged", "loggedOnly",
    "close", "closeAccepted", "closeExit", "leave", "exit" }

-----------------------------------------------------------------------------
(* Register accesses.                                                        *)

\* A write to the register block, in a clock in which the writer may wrap.
Write(ctrl, irqAck, bufAck) ==
  \E wrap \in BOOLEAN :
    /\ Regs!WriterMay(wrap)
    /\ Regs!Clock(wrap, FALSE, ctrl, irqAck, bufAck)

\* ads1278_dma_stop, and the first write of ads1278_dma_arm.
DmaStop ==
  /\ Write(FALSE, {}, {})
  /\ lastLap' = IF Regs!Rise THEN wraps ELSE lastLap
  /\ fresh' = FALSE
  /\ UNCHANGED <<seen, reading, readLap, servedLaps, discarded>>

\* Any other clock of the register block.
Tick ==
  /\ Write(enable, {}, {})
  /\ lastLap' = IF Regs!Rise THEN wraps ELSE lastLap
  /\ UNCHANGED <<seen, reading, readLap, servedLaps, discarded>>
  /\ UNCHANGED <<logging, at, fresh, client>>

\* ads1278_stop_local_log: the pending duration goes with the deadline.
StopLog ==
  /\ log' = FALSE /\ deadline' = "none" /\ duration' = FALSE
  /\ UNCHANGED <<rows, timed>>

\* mutant: a manual log goes on as well.
ShouldContinueAlways == log

\* ads1278_local_log_should_continue_unattended
ShouldContinue == log /\ deadline # "none"

\* ads1278_local_log_deadline_expired
Expired == log /\ deadline = "expired"

\* The monotonic clock reaches the deadline.
Expire ==
  /\ deadline = "running"
  /\ deadline' = "expired"
  /\ UNCHANGED <<registers, buffers, log, duration, rows, timed, at, fresh, client>>

-----------------------------------------------------------------------------
(* The loop without a client: select waits for one, or no longer than the    *)
(* deadline while a log is active.                                           *)

Accept ==
  /\ at = "select" /\ ~client
  /\ client' = TRUE
  /\ at' = "greet"
  /\ UNCHANGED <<registers, buffers, logging, fresh>>

SelectTimesOut ==
  /\ at = "select" /\ ~client /\ log
  /\ at' = "unattended"
  /\ UNCHANGED <<registers, buffers, logging, fresh, client>>

\* ads1278_handle_new_client up to the first sample; a send may fail.  (fcntl on
\* the socket just accepted does not.)
Greet ==
  /\ at = "greet"
  /\ at' \in {"armStop", "closeAccepted"}
  /\ UNCHANGED <<registers, buffers, logging, fresh, client>>

\* ads1278_dma_arm, write by write.
ArmStop ==
  /\ at = "armStop" /\ DmaStop
  /\ at' = "armIrqs"
  /\ UNCHANGED <<logging, client>>

\* mutant: the DMA runs before the buffers of the last capture are acked.
ArmIrqsAndEnable ==
  /\ at = "armIrqs" /\ Write(TRUE, Regs!Irqs, {})
  /\ at' = "armBuffers"
  /\ UNCHANGED <<buffers, logging, fresh, client>>

ArmIrqs ==
  /\ at = "armIrqs" /\ Write(enable, Regs!Irqs, {})
  /\ at' = "armBuffers"
  /\ UNCHANGED <<buffers, logging, fresh, client>>

ArmBuffers ==
  /\ at = "armBuffers" /\ Write(enable, {}, Regs!Buffers)
  /\ discarded' = discarded + Regs!FullCount
  /\ at' = "armEnable"
  /\ UNCHANGED <<seen, reading, readLap, lastLap, servedLaps>>
  /\ UNCHANGED <<logging, fresh, client>>

\* The accepting iteration goes on to the unattended service.
ArmEnable ==
  /\ at = "armEnable" /\ Write(TRUE, {}, {})
  /\ at' = "unattended"
  /\ UNCHANGED <<buffers, logging, fresh, client>>

\* mutant: the log ends, the DMA does not.
UnattendedExpiresLogOnly ==
  /\ at = "unattended" /\ Expired
  /\ StopLog /\ at' = "select"
  /\ UNCHANGED <<registers, buffers, fresh, client>>

\* ads1278_service_local_log_without_client, whether or not a client has just
\* been accepted: a log whose time is over ends, and the DMA with it ...
UnattendedExpires ==
  /\ at = "unattended" /\ Expired
  /\ DmaStop /\ StopLog
  /\ at' = "select"
  /\ UNCHANGED client

\* ... and any other takes the FULL buffers.
UnattendedPoll ==
  /\ at = "unattended" /\ ~Expired
  /\ IF log /\ full # {}
       THEN seen' = full /\ at' = "serveLog"
       ELSE seen' = seen /\ at' = "select"
  /\ UNCHANGED <<registers, reading, readLap, lastLap, servedLaps, discarded>>
  /\ UNCHANGED <<logging, fresh, client>>

\* A failure of that service ends the log.
LogError ==
  /\ at = "logError" /\ DmaStop /\ StopLog
  /\ at' = "select"
  /\ UNCHANGED client

-----------------------------------------------------------------------------
(* The loop with a client.                                                   *)

\* select returns with something to receive, or after the poll timeout.
SelectClient ==
  /\ at = "select" /\ client
  /\ at' \in {"socket", "poll"}
  /\ UNCHANGED <<registers, buffers, logging, fresh, client>>

\* ads1278_service_client_socket receives until nothing is left, or until the
\* client is gone or an answer cannot be sent.
SocketDone ==
  /\ at = "socket"
  /\ at' \in {"poll", "close"}
  /\ UNCHANGED <<registers, buffers, logging, fresh, client>>

\* The commands that concern logging.
Command ==
  /\ at = "socket"
  /\ UNCHANGED <<registers, buffers, at, fresh, client>>

SetLocalLogDuration ==
  /\ Command
  /\ duration' \in BOOLEAN
  /\ deadline' = "none"
  /\ UNCHANGED <<log, rows, timed>>

StartLocalLog ==
  /\ Command
  /\ log' = TRUE /\ rows' = <<>>
  /\ deadline' = IF duration THEN "running" ELSE "none"
  /\ timed' = duration
  /\ UNCHANGED duration

\* ads1278_csv_logger_start closes the log that is active before it tries.
StartLocalLogFails ==
  /\ Command
  /\ log' = FALSE
  /\ UNCHANGED <<deadline, duration, rows, timed>>

StopLocalLog == Command /\ StopLog

\* ads1278_service_dma_buffers reads DMA_BUF_STATUS once.
Poll ==
  /\ at = "poll"
  /\ IF full # {}
       THEN seen' = full /\ at' = "serve"
       ELSE seen' = seen /\ at' = "deadline"
  /\ UNCHANGED <<registers, reading, readLap, lastLap, servedLaps, discarded>>
  /\ UNCHANGED <<logging, fresh, client>>

\* mutant: the deadline is looked at only once the client has left.
DeadlineExpiresUnattended ==
  /\ at = "deadline" /\ Expired
  /\ at' = "select"
  /\ UNCHANGED <<registers, buffers, logging, fresh, client>>

\* ads1278_maybe_stop_expired_local_log stops the DMA under the client.
DeadlineExpires ==
  /\ at = "deadline" /\ Expired
  /\ DmaStop /\ StopLog
  /\ at' = "select"
  /\ UNCHANGED client

DeadlinePasses ==
  /\ at = "deadline" /\ ~Expired
  /\ at' = "select"
  /\ UNCHANGED <<registers, buffers, logging, fresh, client>>

\* ads1278_close_client
AfterClose == CASE at = "close" -> "select"
                [] at = "closeAccepted" -> "unattended"
                [] at = "closeExit" -> "leave"

Closing == at \in {"close", "closeAccepted", "closeExit"}

CloseClient ==
  /\ Closing /\ ~ShouldContinue
  /\ DmaStop /\ StopLog
  /\ client' = FALSE /\ at' = AfterClose

LeaveLogRunning ==
  /\ Closing /\ ShouldContinue
  /\ client' = FALSE /\ at' = AfterClose
  /\ UNCHANGED <<registers, buffers, logging, fresh>>

-----------------------------------------------------------------------------
(* A pass over the buffers seen FULL: "serve" for a client, "serveLog" for   *)
(* the log alone.                                                            *)

Serving == at \in {"serve", "serveLog"}

BeginBuffer ==
  /\ Serving /\ reading = None
  /\ \E b \in seen :
       /\ b = 1 => 0 \notin seen
       /\ reading' = b /\ seen' = seen \ {b} /\ readLap' = lap[b]
  /\ UNCHANGED <<registers, lastLap, servedLaps, discarded>>
  /\ UNCHANGED <<logging, at, fresh, client>>

\* mutant: the row is the lap acknowledged before.
LogBufferLate ==
  /\ Serving /\ reading # None
  /\ rows' = IF log THEN Append(rows, lastLap) ELSE rows
  /\ at' = IF at = "serve" THEN "logged" ELSE "loggedOnly"
  /\ UNCHANGED <<registers, buffers, log, deadline, duration, timed, fresh, client>>

\* mutant: without a client there is nobody to send to, and nothing is written.
LogBufferForClient ==
  /\ Serving /\ reading # None
  /\ rows' = IF log /\ at = "serve" THEN Append(rows, readLap) ELSE rows
  /\ at' = IF at = "serve" THEN "logged" ELSE "loggedOnly"
  /\ UNCHANGED <<registers, buffers, log, deadline, duration, timed, fresh, client>>

\* The rows are written before anything is sent.
LogBuffer ==
  /\ Serving /\ reading # None
  /\ rows' = IF log THEN Append(rows, readLap) ELSE rows
  /\ at' = IF at = "serve" THEN "logged" ELSE "loggedOnly"
  /\ UNCHANGED <<registers, buffers, log, deadline, duration, timed, fresh, client>>

\* Everything is sent, or there is nobody to send to: write DMA_BUF_ACK.
AckBuffer ==
  /\ at \in {"logged", "loggedOnly"}
  /\ Write(enable, {}, {reading})
  /\ reading' = None /\ lastLap' = readLap /\ servedLaps' = servedLaps + 1
  /\ at' = CASE at = "logged" -> IF seen = {} THEN "deadline" ELSE "serve"
             [] at = "loggedOnly" -> IF seen = {} THEN "select" ELSE "serveLog"
  /\ UNCHANGED <<seen, readLap, discarded>>
  /\ UNCHANGED <<logging, fresh, client>>

\* mutant: a buffer that could not be sent is acknowledged all the same.
FailBufferAcks ==
  /\ at \in {"serve", "serveLog", "logged"} /\ reading # None
  /\ Write(enable, {}, {reading})
  /\ reading' = None /\ seen' = {}
  /\ at' = IF at = "serveLog" THEN "logError" ELSE "close"
  /\ UNCHANGED <<readLap, lastLap, servedLaps, discarded, logging, fresh, client>>

\* No canary, or a row that cannot be written, or a send that fails.
FailBuffer ==
  /\ at \in {"serve", "serveLog", "logged"} /\ reading # None
  /\ reading' = None /\ seen' = {}
  /\ at' = IF at = "serveLog" THEN "logError" ELSE "close"
  /\ UNCHANGED <<registers, readLap, lastLap, servedLaps, discarded>>
  /\ UNCHANGED <<logging, fresh, client>>

-----------------------------------------------------------------------------
(* The end of the process, and the next one.                                 *)

\* A signal ends the loop.  With no client, or with a timed log running, the
\* DMA stays as it is.
Quit ==
  /\ at = "select"
  /\ at' = IF client THEN "closeExit" ELSE "leave"
  /\ UNCHANGED <<registers, buffers, logging, fresh, client>>

\* The process is gone: its log file is closed, the registers are not touched.
Gone ==
  /\ at' = "exit" /\ log' = FALSE
  /\ seen' = {} /\ reading' = None
  /\ UNCHANGED <<registers, readLap, lastLap, servedLaps, discarded>>
  /\ UNCHANGED <<deadline, duration, rows, timed, fresh, client>>

Exit == at = "leave" /\ Gone

\* A signal that is not handled.
Kill == at \notin {"leave", "exit"} /\ Gone

Restart ==
  /\ at = "exit"
  /\ at' = "select" /\ fresh' = TRUE /\ client' = FALSE
  /\ log' = FALSE /\ deadline' = "none" /\ duration' = FALSE
  /\ UNCHANGED <<registers, buffers, rows, timed>>

-----------------------------------------------------------------------------

Init ==
  /\ enable = FALSE /\ enablePrev = FALSE
  /\ active = 0 /\ full = {} /\ irq = {} /\ wraps = 0 /\ overwrites = 0
  /\ lap = [b \in Regs!Buffers |-> 0]
  /\ seen = {} /\ reading = None
  /\ readLap = 0 /\ lastLap = 0 /\ servedLaps = 0 /\ discarded = 0
  /\ at = "select" /\ fresh = TRUE /\ client = FALSE
  /\ log = FALSE /\ deadline = "none" /\ duration = FALSE
  /\ rows = <<>> /\ timed = FALSE

\* What the server does of its own accord once select has returned.
Loop ==
  \/ SelectTimesOut \/ SelectClient \/ SocketDone
  \/ Greet \/ ArmStop \/ ArmIrqs \/ ArmBuffers \/ ArmEnable
  \/ UnattendedExpires \/ UnattendedPoll \/ LogError
  \/ Poll \/ DeadlineExpires \/ DeadlinePasses
  \/ BeginBuffer \/ LogBuffer \/ AckBuffer \/ FailBuffer
  \/ CloseClient \/ LeaveLogRunning \/ Exit

\* The places where a send waits for the client (ads1278_send_all), or where the
\* server receives for as long as something comes (ads1278_service_client_socket).
AtClient == client /\ at \in {"greet", "socket", "logged"}

Commands ==
  \/ SetLocalLogDuration \/ StartLocalLog \/ StartLocalLogFails \/ StopLocalLog

Next ==
  \/ Tick \/ Expire
  \/ Accept \/ Commands
  \/ Loop
  \/ Quit \/ Kill \/ Restart

\* The process is scheduled, and every select of the loop has a timeout while
\* there is a client or a log.  Where it waits for the client nothing is promised.
Spec == Init /\ [][Next]_vars /\ WF_vars(Loop /\ ~AtClient)

-----------------------------------------------------------------------------

\* Every variable holds a value of its kind, a row holds a lap the hardware has
\* completed, and a buffer is being served only in a pass.
TypeOK ==
  /\ Regs!TypeOK
  /\ at \in Places /\ fresh \in BOOLEAN /\ client \in BOOLEAN
  /\ log \in BOOLEAN /\ deadline \in {"none", "running", "expired"}
  /\ duration \in BOOLEAN /\ timed \in BOOLEAN
  /\ rows \in Seq(1 .. wraps)
  /\ seen # {} \/ reading # None => at \in {"serve", "serveLog", "logged", "loggedOnly"}

\* A log nobody is connected to end has a deadline (manual logs are closed with
\* their client, whatever commands came in between).
UnattendedIsTimed ==
  at = "select" /\ ~client /\ log => deadline # "none"

\* Without a client and without a log the DMA is stopped, once the server has
\* armed or stopped it at all.
IdleMeansStopped ==
  at = "select" /\ ~client /\ ~log /\ ~fresh => ~enable

\* Until the first overwrite a log holds the laps in the order they were filled;
\* it misses none but those that arming threw away, and repeats one only next
\* to itself.
RowsInOrder ==
  overwrites = 0 =>
    \A i \in 1 .. Len(rows) - 1 : rows[i + 1] - rows[i] \in 0 .. 1 + discarded

\* While a log is active the server releases no buffer that it has not logged,
\* with a client or without.
ReleasedIsLogged ==
  [][\A b \in full \ full' :
       reading = b /\ log => rows # <<>> /\ rows[Len(rows)] = readLap]_vars

\* A log whose time is over is ended, whether its client stays, leaves, keeps
\* reconnecting or sends commands, and whatever fails meanwhile; unless from some
\* moment on the server only waits for a client that stays and does not read, or
\* never stops sending.
TimedLogEnds == []<>~AtClient => (Expired ~> ~Expired)

\* The server touches the registers only as PingPong lets it, in every mode, on
\* every error path and across a restart.
ImplementsPingPong == Regs!Spec

-----------------------------------------------------------------------------
(* What docs/feats/server-protocol.md promises and the server does not keep. *)

\* docs/feats/client.md: "USB timed capture is stopped by the server timer."  Not
\* while the server waits for a client.
ServerTimerEndsLog == Expired ~> ~Expired

\* "Timed local logs continue after the TCP client disconnects until the server
\* deadline expires."  A duration set for the next log takes the deadline of
\* the one that runs.
TimedLogOutlivesClient ==
  [][log /\ timed /\ client /\ ~client' => log']_vars

\* "If a timed log remains active after client disconnect, the server keeps
\* consuming ... DMA buffers with client_fd == -1 until the deadline."  The DMA
\* that an earlier timed log stopped under its client is not started again.
UnattendedLogIsFed ==
  at = "select" /\ ~client /\ log => enable
===============================================================================
