----------------------------- MODULE ClientLogging -----------------------------
(***************************************************************************)
(* CSV logging as the client commands it: ClientController (the GUI        *)
(* thread, the transport worker and the timer thread meet in its lock),    *)
(* TransportClient (the command queue and the worker thread) and the part  *)
(* of the server that answers logging commands.                            *)
(*                                                                         *)
(* A log may begin only at the answer to its MARK_CAPTURE.  The answers    *)
(* name no request (`for', here, only tells them apart), so the client     *)
(* matches them by position: `pending' holds one entry for every marker,   *)
(* and a request that is no longer wanted stays in it as a placeholder     *)
(* (0).                                                                    *)
(*                                                                         *)
(* A request is the number of its start_logging call.  The file name of    *)
(* request r is `len' copies of r, so a name shows whose bytes it holds.   *)
(* Answers that change no more than the status line, and samples, are left *)
(* out.                                                                    *)
(***************************************************************************)
EXTENDS Naturals, Sequences

CONSTANTS MaxStarts,    \* calls of start_logging
          MaxStops,     \* calls of stop_logging
          MaxConnects,  \* calls of connect
          NameLengths,  \* lengths of the file names the user types
          ChunkBytes    \* bytes of a name in one SET_LOCAL_LOG_FILENAME

\* The field a file name is typed in is bounded, so one name is the longest.
ASSUME BoundsAssumption ==
  /\ MaxStarts \in Nat /\ MaxStops \in Nat /\ MaxConnects \in Nat
  /\ NameLengths \subseteq Nat \ {0}
  /\ \E n \in NameLengths : \A m \in NameLengths : m <= n
  /\ ChunkBytes \in Nat \ {0}

VARIABLES
  gui,        \* what the GUI thread is in the middle of
  asked,      \* the requests made so far, with the connection each was made in
  wanted,     \* the request the user still expects to be logged, or 0
  stops,      \* calls of stop_logging so far
  connects,   \* calls of connect so far
  connected,  \* _connected
  pending,    \* _pending_logging_requests
  logger,     \* the request whose CSV file _logger holds open, or 0
  dest,       \* _logging_destination
  deadline,   \* whether _logging_deadline_monotonic is set
  timer,      \* the request _logging_stop_timer was started for, or 0
  armed,      \* the requests whose timer is counting
  fired,      \* the timer threads on their way to the lock
  worker,     \* the transport thread
  stop,       \* _stop_event
  draining,   \* threads in the last loop of _finish
  queue,      \* _command_queue
  peer,       \* the TCP connection
  wire,       \* commands sent and not yet read by the server
  answers,    \* answers sent and not yet handled by the client
  nameBuf,    \* pending_local_log_filename, 0 for a NUL
  nameValid,  \* pending_local_log_filename_valid
  duration,   \* pending_local_log_duration_s # 0
  usb         \* the server's local log

user == <<gui, asked, wanted, stops, connects>>
timers == <<timer, armed, fired>>
logs == <<logger, dest, deadline, timers>>
controller == <<connected, pending, logs>>
transport == <<worker, stop, draining, queue>>
link == <<peer, wire, answers>>
server == <<nameBuf, nameValid, duration, usb>>
vars == <<user, controller, transport, link, server>>

NoLog == [for |-> 0, name |-> <<>>, timed |-> FALSE]
Ids == 1..MaxStarts
MaxLength == CHOOSE n \in NameLengths : \A m \in NameLengths : m <= n

\* The requests the user can make: where to, for a while or until stopped, under
\* which name (of which only the server's log makes anything here), and in the
\* connection of the moment.
Requests ==
  [dest : {"local"}, timed : BOOLEAN, len : {0}, in : {connects}]
    \cup [dest : {"usb"}, timed : BOOLEAN, len : NameLengths, in : {connects}]

Name(r) == [i \in 1..asked[r].len |-> r]

-----------------------------------------------------------------------------
(* The commands of a start on the USB stick.                                 *)

\* pack_set_local_log_filename: the bytes of chunk k, filled up with NULs.
Chunk(r, k) == [j \in 1..ChunkBytes |->
                  IF k * ChunkBytes + j <= asked[r].len THEN r ELSE 0]

\* A name that fills its last chunk is followed by a chunk of NULs.
FilenameCommands(r) ==
  [k \in 1..(asked[r].len \div ChunkBytes) + 1 |->
     [op |-> "FILENAME", at |-> k - 1, bytes |-> Chunk(r, k - 1)]]

StartCommands(r) ==
  <<[op |-> "DURATION", timed |-> asked[r].timed]>>
    \o FilenameCommands(r)
    \o <<[op |-> "START", for |-> r]>>

-----------------------------------------------------------------------------
(* What the methods do under the controller's lock.                          *)

\* mutant: what is pending is left as it is.
CancelledNot(p) == p

\* _cancel_pending_logging_locked
Cancelled(p) == [i \in DOMAIN p |-> 0]

\* _cancel_logging_timer_locked: a timer that has fired is not stopped by it.
CancelTimer == timer' = 0 /\ armed' = armed \ {timer} /\ UNCHANGED fired

\* _close_logger_locked
CloseLogger == logger' = 0 /\ deadline' = FALSE /\ CancelTimer

\* _clear_logging_state_locked
ClearLoggingState == CloseLogger /\ dest' = "local"

\* _start_logging_timer_locked: without a deadline there is no timer.
StartTimer(r) ==
  IF asked[r].timed /\ deadline
    THEN timer' = r /\ armed' = (armed \ {timer}) \cup {r} /\ UNCHANGED fired
    ELSE UNCHANGED timers

-----------------------------------------------------------------------------
(* The GUI thread.                                                           *)

\* The connect button: both the controller and the transport must be free.
Connect ==
  /\ gui = "ready" /\ connects < MaxConnects
  /\ ~connected /\ worker = "none"
  /\ connects' = connects + 1
  /\ worker' = "opening" /\ stop' = FALSE
  /\ UNCHANGED <<gui, asked, wanted, stops, controller, draining, queue>>
  /\ UNCHANGED <<link, server>>

\* The same button while connected: the event is set, the socket shut down and
\* closed, the thread joined ...
Disconnect ==
  /\ gui = "ready" /\ connected
  /\ stop' = TRUE /\ gui' = "joining"
  /\ peer' = IF peer = "open" THEN "shut" ELSE peer
  /\ UNCHANGED <<asked, wanted, stops, connects, controller, worker, draining>>
  /\ UNCHANGED <<queue, wire, answers, server>>

\* ... for two seconds at most.
JoinReturns ==
  /\ gui = "joining" /\ gui' = "ready"
  /\ UNCHANGED <<asked, wanted, stops, connects, controller, transport>>
  /\ UNCHANGED <<link, server>>

\* mutant: the log that goes on loses its timer and stays open until the marker.
StartLoggingKeepsLog ==
  /\ gui = "ready" /\ connected /\ Len(asked) < MaxStarts
  /\ \E r \in Requests :
       /\ asked' = Append(asked, r)
       /\ deadline' = r.timed
  /\ pending' = Append(Cancelled(pending), Len(asked'))
  /\ wanted' = Len(asked')
  /\ CancelTimer
  /\ gui' = "marking"
  /\ UNCHANGED <<stops, connects, connected, logger, dest, transport, link, server>>

\* start_logging: what goes on ends, and the request waits for its marker ...
StartLogging ==
  /\ gui = "ready" /\ connected /\ Len(asked) < MaxStarts
  /\ \E r \in Requests :
       /\ asked' = Append(asked, r)
       /\ deadline' = r.timed
  /\ pending' = Append(Cancelled(pending), Len(asked'))
  /\ wanted' = Len(asked')
  /\ logger' = 0 /\ CancelTimer
  /\ gui' = "marking"
  /\ UNCHANGED <<stops, connects, connected, dest, transport, link, server>>

\* ... which is queued after the lock is released.
QueueMark ==
  /\ gui = "marking" /\ gui' = "ready"
  /\ queue' = Append(queue, [op |-> "MARK", for |-> Len(asked)])
  /\ UNCHANGED <<asked, wanted, stops, connects, controller, worker, stop>>
  /\ UNCHANGED <<draining, link, server>>

\* stop_logging: a log on the USB stick is left to the server's answer ...
StopLogging ==
  /\ gui = "ready" /\ stops < MaxStops
  /\ stops' = stops + 1
  /\ wanted' = 0
  /\ pending' = Cancelled(pending)
  /\ IF dest = "usb"
       THEN CancelTimer /\ deadline' = FALSE /\ gui' = "stopping"
            /\ UNCHANGED logger
       ELSE CloseLogger /\ UNCHANGED gui
  /\ UNCHANGED <<asked, connects, connected, dest, transport, link, server>>

\* ... to the command queued after the lock is released.
QueueStop ==
  /\ gui = "stopping" /\ gui' = "ready"
  /\ queue' = Append(queue, [op |-> "STOP"])
  /\ UNCHANGED <<asked, wanted, stops, connects, controller, worker, stop>>
  /\ UNCHANGED <<draining, link, server>>

-----------------------------------------------------------------------------
(* The timer thread.                                                         *)

TimerFires(r) ==
  /\ r \in armed
  /\ armed' = armed \ {r} /\ fired' = fired \cup {r}
  /\ UNCHANGED <<user, connected, pending, logger, dest, deadline, timer>>
  /\ UNCHANGED <<transport, link, server>>

\* _handle_logging_duration_elapsed ends the log that is open, whichever that is.
DurationElapsed(r) ==
  /\ r \in fired
  /\ fired' = fired \ {r}
  /\ timer' = 0
  /\ IF logger = 0
       THEN UNCHANGED <<wanted, pending, logger, deadline>>
       ELSE /\ pending' = Cancelled(pending)
            /\ logger' = 0 /\ deadline' = FALSE
            /\ wanted' = 0
  /\ UNCHANGED <<gui, asked, stops, connects, connected, dest, armed>>
  /\ UNCHANGED <<transport, link, server>>

-----------------------------------------------------------------------------
(* The transport worker.                                                     *)

\* The server accepts the next client only when it has dropped the last one.
Handshake ==
  /\ worker = "opening" /\ peer = "none"
  /\ worker' = "running" /\ connected' = TRUE /\ peer' = "open"
  /\ UNCHANGED <<user, pending, logs, stop, draining, queue>>
  /\ UNCHANGED <<wire, answers, server>>

\* mutant: the controller learns of it with the next connection.
HangupUnnoticed ==
  /\ pending' = Cancelled(pending)
  /\ CloseLogger
  /\ wanted' = 0
  /\ worker' = "left"
  /\ UNCHANGED <<gui, asked, stops, connects, connected, dest, stop, draining, queue>>

\* _handle_disconnected, and what is left of the connection.
Hangup ==
  /\ connected' = FALSE
  /\ pending' = Cancelled(pending)
  /\ CloseLogger
  /\ wanted' = 0
  /\ worker' = "left"
  /\ UNCHANGED <<gui, asked, stops, connects, dest, stop, draining, queue>>

OpeningFails ==
  /\ worker = "opening"
  /\ Hangup
  /\ UNCHANGED <<link, server>>

\* The worker's loop ends: it was told to, or the connection is gone.
Leave ==
  /\ worker = "running" /\ (stop \/ peer # "open")
  /\ Hangup
  /\ peer' = IF peer = "gone" THEN "none" ELSE peer
  /\ answers' = <<>>
  /\ UNCHANGED <<wire, server>>

\* _finish: from here on the next connect may start a thread ...
Finish ==
  /\ worker = "left"
  /\ worker' = "none" /\ draining' = draining + 1
  /\ UNCHANGED <<user, controller, stop, queue, link, server>>

\* ... while this one empties the queue.
Drain ==
  /\ draining > 0
  /\ IF queue # <<>>
       THEN queue' = Tail(queue) /\ UNCHANGED draining
       ELSE draining' = draining - 1 /\ UNCHANGED queue
  /\ UNCHANGED <<user, controller, worker, stop, link, server>>

\* _flush_outbound: what is written to a connection that is gone is lost.
FlushOutbound ==
  /\ worker = "running" /\ queue # <<>>
  /\ queue' = Tail(queue)
  /\ wire' = IF peer = "open" THEN Append(wire, Head(queue)) ELSE wire
  /\ UNCHANGED <<user, controller, worker, stop, draining, peer, answers, server>>

\* A message of the server is handled, _handle_message: answer [kind, op].
Handle(kind, op) ==
  /\ worker = "running" /\ answers # <<>>
  /\ Head(answers).kind = kind /\ Head(answers).op = op
  /\ answers' = Tail(answers)
  /\ UNCHANGED <<gui, asked, stops, connects, connected>>
  /\ UNCHANGED <<worker, stop, draining, peer, wire, server>>

\* _pop_pending_logging_request_locked
Popped == IF pending = <<>> THEN 0 ELSE Head(pending)
PopPending == pending' = IF pending = <<>> THEN pending ELSE Tail(pending)

\* The marker of a request nobody waits for any more.
MarkOfNone ==
  /\ Handle("ACK", "MARK") /\ Popped = 0 /\ PopPending
  /\ UNCHANGED <<wanted, logs, queue>>

\* _activate_logger_locked on the USB stick: the worker queues the commands.
MarkStartsUsb ==
  /\ Handle("ACK", "MARK") /\ PopPending
  /\ Popped # 0 /\ asked[Popped].dest = "usb"
  /\ queue' = queue \o StartCommands(Popped)
  /\ dest' = "usb"
  /\ UNCHANGED <<wanted, logger, deadline, timers>>

\* _activate_logger_locked on this computer ...
MarkOpensLog ==
  /\ Handle("ACK", "MARK") /\ PopPending
  /\ Popped # 0 /\ asked[Popped].dest = "local"
  /\ logger' = Popped /\ dest' = "local"
  /\ StartTimer(Popped)
  /\ UNCHANGED <<wanted, deadline, queue>>

\* ... where the file may not open.
MarkFailsToOpen ==
  /\ Handle("ACK", "MARK") /\ PopPending
  /\ Popped # 0 /\ asked[Popped].dest = "local"
  /\ CloseLogger /\ wanted' = 0
  /\ UNCHANGED <<dest, queue>>

RemoteStarted ==
  /\ Handle("ACK", "START")
  /\ UNCHANGED <<wanted, pending, logs, queue>>

RemoteStopped ==
  /\ Handle("ACK", "STOP") /\ ClearLoggingState
  /\ UNCHANGED <<wanted, pending, queue>>

\* An error takes the oldest pending request with it.
RemoteFailed ==
  /\ Handle("ERROR", "START") /\ PopPending /\ ClearLoggingState
  /\ wanted' = IF wanted \in {Popped, Head(answers).for} THEN 0 ELSE wanted
  /\ UNCHANGED queue

Worker ==
  \/ Handshake \/ OpeningFails \/ Leave \/ Finish \/ Drain \/ FlushOutbound
  \/ MarkOfNone \/ MarkStartsUsb \/ MarkOpensLog \/ MarkFailsToOpen
  \/ RemoteStarted \/ RemoteStopped \/ RemoteFailed

-----------------------------------------------------------------------------
(* The server.                                                               *)

Serve(op) ==
  /\ peer \in {"open", "shut"} /\ wire # <<>> /\ Head(wire).op = op
  /\ wire' = Tail(wire)
  /\ UNCHANGED <<user, controller, transport, peer>>

Answer(kind, op, r) ==
  answers' = IF peer = "open"
               THEN Append(answers, [kind |-> kind, op |-> op, for |-> r])
               ELSE answers

ServeMark ==
  /\ Serve("MARK")
  /\ Answer("ACK", "MARK", Head(wire).for)
  /\ UNCHANGED server

\* SET_LOCAL_LOG_DURATION also forgets the deadline of the log that runs.
ServeDuration ==
  /\ Serve("DURATION")
  /\ duration' = Head(wire).timed
  /\ usb' = [usb EXCEPT !.timed = FALSE]
  /\ UNCHANGED <<answers, nameBuf, nameValid>>

\* ads1278_apply_pending_local_log_filename_chunk: chunk 0 clears the first
\* byte, and the bytes before the NUL are stored.
ServeFilename ==
  /\ Serve("FILENAME")
  /\ LET at == Head(wire).at * ChunkBytes
         bytes == Head(wire).bytes
         old == IF at = 0 THEN [nameBuf EXCEPT ![1] = 0] ELSE nameBuf
     IN nameBuf' = [i \in DOMAIN old |->
                      IF i - at \in DOMAIN bytes /\ bytes[i - at] # 0
                        THEN bytes[i - at] ELSE old[i]]
  /\ nameValid' = (nameBuf'[1] # 0)
  /\ UNCHANGED <<answers, duration, usb>>

\* ads1278_clear_pending_local_log_filename
ClearFilename == nameBuf' = [nameBuf EXCEPT ![1] = 0] /\ nameValid' = FALSE

\* The C string in the buffer, or the time when no name was sent.
PendingName ==
  IF ~nameValid THEN <<>>
  ELSE SelectSeq([i \in DOMAIN nameBuf |->
                    IF \A j \in 1..i : nameBuf[j] # 0 THEN nameBuf[i] ELSE 0],
                 LAMBDA b : b # 0)

ServeStart ==
  /\ Serve("START") /\ ClearFilename
  /\ \/ /\ usb' = [for |-> Head(wire).for, name |-> PendingName,
                   timed |-> duration]
        /\ Answer("ACK", "START", Head(wire).for)
     \/ /\ usb' = NoLog
        /\ Answer("ERROR", "START", Head(wire).for)
  /\ UNCHANGED duration

ServeStop ==
  /\ Serve("STOP")
  /\ usb' = NoLog /\ duration' = FALSE
  /\ Answer("ACK", "STOP", 0)
  /\ UNCHANGED <<nameBuf, nameValid>>

\* A log with a deadline goes on without its client.
DropClient ==
  /\ peer' = IF peer = "open" THEN "gone" ELSE "none"
  /\ wire' = <<>>
  /\ IF usb.timed
       THEN UNCHANGED <<usb, duration>>
       ELSE usb' = NoLog /\ duration' = FALSE
  /\ UNCHANGED <<user, controller, transport, answers, nameBuf, nameValid>>

\* The server notices that the client has left ...
ClientLeft == peer = "shut" /\ DropClient

\* ... or the connection breaks at the server's end.
ConnectionLost == peer = "open" /\ DropClient

ServerDeadline ==
  /\ usb.timed
  /\ usb' = NoLog /\ duration' = FALSE
  /\ UNCHANGED <<user, controller, transport, link, nameBuf, nameValid>>

Server ==
  \/ ServeMark \/ ServeDuration \/ ServeFilename \/ ServeStart \/ ServeStop
  \/ ClientLeft \/ ConnectionLost \/ ServerDeadline

-----------------------------------------------------------------------------

Init ==
  /\ gui = "ready" /\ asked = <<>> /\ wanted = 0 /\ stops = 0 /\ connects = 0
  /\ connected = FALSE /\ pending = <<>> /\ logger = 0 /\ dest = "local"
  /\ deadline = FALSE /\ timer = 0 /\ armed = {} /\ fired = {}
  /\ worker = "none" /\ stop = FALSE /\ draining = 0 /\ queue = <<>>
  /\ peer = "none" /\ wire = <<>> /\ answers = <<>>
  /\ nameBuf = [i \in 1..MaxLength + 1 |-> 0] /\ nameValid = FALSE
  /\ duration = FALSE /\ usb = NoLog

Gui ==
  \/ Connect \/ Disconnect \/ JoinReturns
  \/ StartLogging \/ QueueMark \/ StopLogging \/ QueueStop

Timer == \E r \in Ids : TimerFires(r) \/ DurationElapsed(r)

Next == Gui \/ Timer \/ Worker \/ Server

\* A timer that counts fires, and the thread it starts gets the lock.
Spec == /\ Init /\ [][Next]_vars
        /\ \A r \in Ids : WF_vars(TimerFires(r)) /\ WF_vars(DurationElapsed(r))

-----------------------------------------------------------------------------

Commands ==
  [op : {"STOP"}] \cup [op : {"DURATION"}, timed : BOOLEAN]
    \cup [op : {"MARK", "START"}, for : Ids]
    \cup [op : {"FILENAME"}, at : 0..MaxLength, bytes : [1..ChunkBytes -> 0..MaxStarts]]

\* The variables hold what the code can put in them.
TypeOK ==
  /\ gui \in {"ready", "joining", "marking", "stopping"}
  /\ wanted \in 0..Len(asked)
  /\ connected \in BOOLEAN /\ pending \in Seq(0..Len(asked))
  /\ logger \in 0..Len(asked) /\ dest \in {"local", "usb"}
  /\ deadline \in BOOLEAN /\ timer \in 0..Len(asked)
  /\ armed \subseteq Ids /\ fired \subseteq Ids
  /\ worker \in {"none", "opening", "running", "left"}
  /\ stop \in BOOLEAN /\ draining \in 0..MaxConnects
  /\ queue \in Seq(Commands) /\ wire \in Seq(Commands)
  /\ peer \in {"none", "open", "shut", "gone"}
  /\ connected = (worker = "running")
  /\ nameBuf[MaxLength + 1] = 0

\* No log outlives its request: the CSV file that is open on this computer is
\* the one of the last start, and that one was not stopped, timed out, failed
\* or cut off by a disconnect since, however the answers to older markers, late
\* timer threads and the end of the connection fall in between.
NoZombieLog == logger # 0 => logger = wanted

\* A log whose timer runs ends: nothing the user, the server or another timer
\* does can take its timer away and leave the file open.
TimerEndsLog == \A r \in Ids : (logger = r /\ r \in armed) ~> (logger # r)

-----------------------------------------------------------------------------

\* The answer to the marker of the first start of a connection begins its log,
\* or reports that it cannot: test_controller_starts_csv_only_after_capture_
\* marker_ack expects a row for the sample that follows it.
StartsAtItsMark ==
  [][(/\ worker' = "running" /\ answers # <<>> /\ answers' = Tail(answers)
      /\ wanted # 0 /\ \A r \in 1..wanted - 1 : asked[r].in < connects
      /\ Head(answers).op = "MARK" /\ Head(answers).for = wanted)
     => (wanted' = 0 \/ logger' = wanted \/ queue' = queue \o StartCommands(wanted))
    ]_vars

\* A log on the USB stick has the name that was sent for it.
UsbLogHasItsName == usb # NoLog => usb.name = Name(usb.for)

\* A log on this computer that is to end by itself has a timer.
TimedLogHasTimer ==
  (logger # 0 /\ asked[logger].timed) => logger \in armed \cup fired

\* Nothing is under way: every command is answered, every answer handled.
Quiet ==
  /\ gui = "ready" /\ worker = "running" /\ ~stop /\ peer = "open"
  /\ queue = <<>> /\ wire = <<>> /\ answers = <<>> /\ draining = 0

\* After the stop no log without a deadline goes on on the USB stick.
StopEndsUsbLog ==
  (Quiet /\ stops > 0 /\ wanted = 0) => (usb = NoLog \/ usb.timed)

=============================================================================
