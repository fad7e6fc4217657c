# rp_ads1278 in TLA+

TLA+ modules, TLC configurations and TLAPS proofs about the ADS1278 acquisition
system: the FPGA logic in `fpga/rtl`, the server in `server/` that runs on the
Red Pitaya, and the desktop client in `client/`. `PROJECT.json` gives, for every
definition that models code, the lines it models; for every run its
configuration; for every property the code hazard it is aimed at and a mutation
of the model that violates it.

## The system

    ADC -> SPI TDM -> frame FIFO -> serializer -> burst writer -> DDR (2 buffers)
              |                                       | wrap pulse     ^
              v                                       v                | mmap
       channel and status registers  <-AXI->  DMA status registers     |
              ^                                       ^                |
              +------------------ server (one thread) +----------------+
                                   |  ^        \
                             samples  commands  CSV log on the USB stick
                                   v  |
                             client: transport thread, controller, GUI, CSV log

| Component | State | Operations | Hard part | What makes it correct |
|---|---|---|---|---|
| DMA status registers (`ads1278_axi_slave.sv`) | enable and its previous value, active buffer, FULL bits, sticky interrupt bits, wrap and overwrite counts | a clock edge, with a register write in it or not | wrap, acknowledgement and arming in the same clock | no buffer changes hands silently; no loss is uncounted |
| Burst writer (`axis_ram_writer.v`, `output_buffer.v`, `ads1278_dma_phase4.v`) | pending address, beat counter, slot index, two output registers | a clock edge; reset while disabled | independent stalls of address and data; reset in the middle of a burst; the base address follows the active buffer | one address per record, one wrap per buffer, words in their own slots |
| Record serializer (`ads1278_dma_fifo_axis.v`) | frame being sent, beat index | pop, load, send | disabled between pop and send | a record is whole or absent |
| Acquisition (`ads1278_spi_tdm.v`, `ads1278_acq_top.v`, `ads1278_frame_fifo.v`, `ads1278_demod.v`, `ads1278_sync_pulse.v`) | shift state machine, frame counter, overflow flag, FIFO, averages | DRDY edge, bit clocks, latch, push, pop | DRDY during a shift or at the latch; FIFO full | frame counter and data agree; drops are counted |
| AXI-Lite slave | latched addresses, pending read, read snapshots | write and read handshakes | address and data in any order | every access is answered once |
| Server loop (`server.c`) | client socket, parser, pending log options, deadline, stream position | accept, receive and answer commands, serve buffers, expire logs, close | one thread over registers that run on; failure of any send; deadline; restart | every buffer released was served; timed logs end, manual logs end with their client; idle means stopped |
| MMIO snapshot (`memory_map.c`) | last coherent snapshot | read with retries | registers change between the reads | a snapshot is of one frame |
| Local CSV logger (`csv_logger.c`) | file, channel mask, demod gate | start, write a row, close | 16-bit frame counter wraps in the gate | rows come at the demodulation rate, where period and steps fit in half the counter's range |
| Command parser (`cmd_parse.c`) | partial command | push a chunk, validate | chunk boundaries | the commands do not depend on the chunks |
| Client transport and stream parser (`transport.py`, `protocol.py`) | worker thread, command queue, receive buffer | connect, disconnect, send, receive | worker thread against callers; the end of one connection against the start of the next; bulk messages cut anywhere | what is parsed does not depend on the pieces |
| Client controller and CSV log (`controller.py`, `csv_logger.py`) | pending logging requests, log, timer, demod gate | start and stop logging, message, timer, disconnect | three threads; answers matched to requests by position; commands queued after the lock is released | no log outlives its request; a timer ends its log; rows come at the demodulation rate |
| Client window (`main_window.py`, `math_trace_dialog.py`, `asd_worker.py`, `channel_math.py`, `spectrum.py`) | controls and their dirty flags, plots, math traces, settings, ASD future and results | edits, commands, a 50 ms refresh, the ASD worker | a control is both input and display; messages older than an edit; a future that is done before its callback ran | the controls converge to the registers; the plots and the settings follow what is chosen |
| Fake server (`tools/fake_server.py`) | registers | a client at a time | none of its own | the client cannot tell it from the real one |

The components interact through registers (server and FPGA), memory (burst writer
and server), the TCP stream (server and client), and callbacks from the transport
thread and a timer thread into the controller.

## Modules

| Module | Models | Status |
|---|---|---|
| `PingPong` | ownership of the two DDR buffers: the status registers and the server's accesses | modelled, checked, proved |
| `DmaWriter` | the burst writer clock by clock, with `PingPong`'s registers and the memory port | modelled, checked, proved |
| `CaptureServer` | the server's loop in DMA mode over `PingPong`'s registers | modelled, checked, safety proved |
| `Receiver` | the SPI receiver of the converter's frames, clock by clock | modelled; part of the next two |
| `Acquisition` | push, drop count, frame FIFO and record serializer behind `Receiver` | modelled, checked, proved |
| `SampleStream` | the server's legacy mode: snapshots of the channel registers of `Receiver` | modelled, checked, safety proved |
| `ClientLogging` | a CSV log from the button to the file, on this computer or on the USB stick: GUI, timer and worker threads, and the server's answers | modelled, checked, safety proved |
| `ClientStream` | the byte stream from the server through the parser to the rows of the CSV file | modelled, checked, proved |
| `ControlSync` | the acquisition controls of the window, the commands they send and the refresh that copies the registers back | modelled, checked, safety proved |
| `PlotView` | channels, math traces, views, settings and the ASD worker | modelled, checked, proved |
| `MCControlSync` | the registers a server is found with | constants for TLC |
| `PingPongProofs`, `DmaWriterProofs`, `CaptureServerProofs`, `AcquisitionProofs`, `SampleStreamProofs`, `ControlSyncProofs`, `PlotViewProofs` | the theorems about the module each is named after | proved |
| `ClientProofs` | the theorems about `ClientLogging` and `ClientStream` | proved |

The first six meet in the registers. The four of the client each take one concern of it,
with as much of transport and server as that concern can tell apart: `ClientLogging` has the
connection and the logging commands without the bytes, `ClientStream` the bytes of one
connection without the threads, `ControlSync` the connection and the commands that set
registers, `PlotView` no connection at all.

`PingPong` is the abstract specification in the middle: below it, `DmaWriter`
supplies the wrap pulses that a real writer makes and implements it
(`ImplementsPingPong`); above it, `CaptureServer` is the real server loop, with all
its error paths, and implements it too. So what is proved of `PingPong` holds of the
hardware and of the server alike.

### PingPong

One step is a clock edge of the register block, with at most one register write
in it, or a step of the server between two edges. `Clock` gives the registers
after the edge (`FullNext`, `Overrun`, `IrqNext`, `ActiveNext` are the assignments
of the block in `ads1278_axi_slave.sv`, whose later assignments win); `StopDma`,
`AckIrqs`, `AckBuffers`, `EnableDma` are the writes of `ads1278_dma_arm`;
`PollStatus`, `BeginBuffer`, `EndBuffer`, `FailBuffer` are a pass of
`ads1278_service_dma_buffers`. `Die` is the end of the process. The writes of the base
address and of the size in `ads1278_dma_arm` do not change while the server runs and
are left out, as are the CONFIG bit (the server only accepts valid options) and the
value of the error count.

`lap`, `readLap`, `lastLap`, `servedLaps` and `discarded` are history: which wrap set a
FULL bit, which lap the server is reading and read last, how many it served
and how many an arming threw away.

### DmaWriter

A clock is: the writer's registers (`WriterClock`), the port's handshakes
(`PortClock`), and the register block with a possible write of the server
(`Regs!Tick`, `Regs!Writes`). Whether a whole record is available in the writer's FIFO
is a free choice. `Land` is the memory port moving a word to DDR. The port is outside
the repository: it takes at most `AwDepth` addresses and `Ahead` beats ahead of their
address, pairs them in order, and is not reset with the writer.

The data of a word is the burst it belongs to and its place in it.

### CaptureServer

The server is one thread, and `at` says where it is. Steps are split at every
register access (the hardware runs on), at every send, receive and file write
(they fail), and at the comparison with the deadline (time passes). A pass over the
buffers is `serve` with a client and `serveLog` without; closing is split by what
comes after it: `close` goes on with the loop, `closeAccepted` with the rest of the
accepting iteration, `closeExit` with the end of the process. Time is the one
event `Expire`. `ServerPc` is the refinement mapping to `PingPong`'s `pc`.

A buffer is logged and sent whole. The frames of a buffer whose canary is bad, which the
code skips, are not represented, nor is the row that the greeting sample of a new
client leaves in an active log.

### Receiver, Acquisition

`ReceiverClock` is a clock of `ads1278_spi_tdm.v`. The lengths of the wait and of the
shift follow `EXTCLK_DIV`, which software writes at any time, so each lasts one clock or
more; the bits of a frame are represented by the conversions they were taken from.
The converter is outside the repository: it presents a conversion with each falling
DRDY, whenever it likes. `Clock` of `Acquisition` adds the FIFO, the drop counter and the
serializer; software switches acquisition and DMA at any clock (free inputs `ctrl`
and `dmaCtrl`). A frame behind the receiver is its count, with the drop counter at its
push as history; `old` marks what is older than the last time acquisition was off.

The serializer loads `fifo_dout` in the same clock in which the FIFO answers its pop, so
`RecordNext` uses `dout` and not the head of the FIFO: every record is the frame popped
one earlier. Within an arming this only delays the stream by a frame, which
`RecordsFollow` confirms; the first record of an arming is a leftover, which
`CountsOnByOne` shows.

### SampleStream

A snapshot is read as `memory_map.c` reads it, STATUS, the channels one by one, STATUS
again, with clocks of the receiver between any two reads. `Again` and `FallBack` are its
retries. `Refresh` begins a snapshot for one of the server's four purposes, and `Reply`
does what the server does with it. `sent` is `last_streamed_frame_cnt`. `tag`, `turns` and `told`
are history: the count a frame was latched with, the frames latched within an attempt,
the newest conversion sent. The server is the only writer of the control register. Channel
1 is taken as unfiltered (no demodulation).

### ClientLogging

A step is what a thread does between two acquisitions of the controller's lock, a handshake
with the transport, or a message: a click takes the lock, releases it, and only then
queues its command (`StartLogging` then `QueueMark`, `StopLogging` then `QueueStop`), and a
timer that has fired (`fired`) still has to get the lock. A request is the number of its
`start_logging` call; `pending` is `_pending_logging_requests` with 0 for a placeholder.
`_finish` is split where the code lets the next connection start: `Finish` gives the worker
up, `Drain` empties the queue that the next worker may already be using. A name is copies
of its request's number, cut into chunks as `pack_set_local_log_filename` cuts it and
assembled as `server.c` assembles it, so that it shows whose bytes it holds. `wanted` is
history: the request the user still expects. Samples and answers that only change the status
line are left out; rows are the subject of `ClientStream`.

### ClientStream

A byte is the message it belongs to and its place in it, and the sizes of header, frame and
line are constants, scaled down. `RecvLine` and `Recv` take any piece of what is on its way;
`Feed` is a turn of the parser's loop; `HandleSample` and `HandleMark` are the controller's part.
Frames carry their true count, of which the client sees the rest modulo the counter's
range: the properties compare the rows with the true counts. A frame is one of `Steps` ahead of
the newest one sent (`newest`), or an old one that is sent again, one of `Again` behind it: the greeting tells a
frame that the first DMA buffer may hold too, and the last record of a buffer may be one of an
earlier lap. `GatePasses` is the test of
`csv_logger.py` (`_should_write_sample`), and `csv_logger.c` makes the same one: a row must be
90% of the period after the last one, and then takes the period or a change of CH1.
`StepsFit` says which counts this test can tell apart: a step together with what it may come
on top of, one frame less than the period or a frame sent again, is at most half the counter's
range. It is no assumption of the module. `RowsAtDemodRate` is claimed where it holds, as it does in
the run `client_stream`; the registers allow longer periods, for which TLC refutes
the second half of that property, `PeriodGivesRow` (`LongPeriod.cfg`), and `SteadyChannelStops` says what happens instead.
After a gap of about half the range in the stream the gate may fail as well.

### ControlSync

An edit sets the flag of its control (`dirty`) and the refresh copies a register into every
control whose flag is not set, and clears the flags of those that agree. The values keep their
arithmetic: a frequency is sent as a rounded divider and shown as the rounded frequency of
the register, within the range of the box. Of the signals that a copy could emit, those that
the code blocks are blocked and the one of the frequency box, which it does not, is in `Dirtied`.
`unsent` (edited, and neither sent nor overwritten) and `wanted` (last commanded on this
connection) are history. Once the queue of an old connection is dropped by `Drain`, what was in
it counts as not sent.

### PlotView

The handlers of the window run to their end on the GUI thread and are one action each. While the
dialog is open only `Refresh` and the worker go on. The worker's step is split where the code's
is: the future is done, then the callback hands the result over. A restart keeps what
`QSettings` keeps; `BoolsStayBools` says whether its lists of booleans come back as they were
(QSettings' text format on Linux gives strings). A spectrum is the epoch, the samples and
settings it was computed from, and the channels in it. A computation that raises, whose error is
handed over in place of a result, is left out of `HandOver`.

## Runs

| Run | Bounds | Shows |
|---|---|---|
| `ping_pong` | 6 wraps | the handshake's properties, below |
| `dma_writer` | 2 bursts of 2 beats, 4 bursts in all | the writer's properties and that it implements `PingPong` |
| `capture_server` | 3 wraps, any number of clients and commands | the server's properties and that it implements `PingPong` |
| `acquisition` | 7 conversions, a FIFO of 2, a frame counter modulo 4 | the properties of receiver, FIFO and serializer |
| `sample_stream` | 4 conversions, 2 channels, 2 attempts, a frame counter modulo 3 | the properties of the legacy stream |
| `client_logging` | 2 starts, 1 stop, 2 connections | the life of a log |
| `client_stream` | 3 frames, up to 2 in a message, a frame counter modulo 8 | the parser and the gate |
| `control_sync` | 4 edits, commands and connections together | the controls and the registers |
| `plot_view` | 2 channels, 4 operations, 3 ASD computations | the window and the ASD worker |
| `server_log_is_fed`, `usb_log_name`, `client_log_starts` | as `capture_server`; 1 connection and names of 1 and 3 bytes; as `client_logging` | statements of the documents and tests that the code does not keep |

Six wraps let both buffers overrun several times, in two armings. Two bursts per
buffer and four in all fill each buffer once and turn back to the first, with the
special last slot and an ordinary one in each; two beats make the channels able
to skew within a burst and across it. `AwDepth` 1 with `Ahead` 2 lets the
data run as far ahead as the writer permits. Three wraps in the server's
run fill buffer 0, buffer 1 and buffer 0 again, so that both FULL bits are seen
in one pass, an overwrite happens, and one log spans an arming. Seven conversions
fill the FIFO, drop a frame, wrap the counter and leave enough for a second
acquisition. Four conversions with a counter modulo 3 let it go all the way round within one
attempt; two channels are enough to be torn. `MaxWraps`, `MaxRec` and `MaxConv`
are the only bounds on behaviours of these five.

Two connections let placeholders, queued commands, the draining thread and the timer of one
connection reach the next; two starts make one replace the other, and one stop falls
anywhere between. Three frames from count 5 in steps of 2, one of them sent again
perhaps one behind the newest, reach every case of the gate with a period of 3 and a counter modulo 8:
nearer than a period, the period or more, behind the last row, and wrapped in between; a header of two bytes can be cut, and
two bytes on their way before the next message is sent put the end of one
message and the beginning of the next in the same piece. Four acts in `control_sync` are a
connection with three edits and commands (edit, send, edit again), or fewer on several
connections; the registers it finds are out of the range of the divider box and at a
modulation that no frequency of the box stands for. Two channels and two terms are enough for
sums, differences and a partial selection, three computations let one be requested while the
result of another is under way, and two epochs make it an old one.

Deadlock is checked in `ping_pong` and `sample_stream`; the other specifications may stop
when a bound is used up.

### Properties

`PingPong`
- `OverwriteVisible`: the hardware never fills a buffer that is FULL without the
  overwrite bit up.
- `ReaderWarned`: while that bit is down, the buffer the server reads is not being
  filled, and the lap its acknowledgement releases is the lap it read.
- `LapsAccounted`: while that bit is down, at most one buffer is FULL, so serving
  buffer 0 first never reorders laps, and none is skipped or read twice.
- `LossCounted`: laps completed never exceed laps served, FULL, discarded by an
  arming or counted as overwrites.
- `ReleasedByServer`: a FULL bit drops only by an acknowledgement after a read, or
  by arming.

`DmaWriter`
- `OneAddressPerBurst`, `WrapPeriod`: no stall loses or doubles an address; one wrap
  per buffer, and the active buffer is its parity.
- `AlignedIfDrained`: every word meets the address of its own record, if the
  arming began with the port drained.
- `OnlyTheTailFollows`, `InnerSlotsSettle`: what still travels into a FULL buffer is of
  that lap, and every slot but the last ends up with its own record.

`CaptureServer`
- `UnattendedIsTimed`: a log without a client has a deadline.
- `IdleMeansStopped`: no client and no log means DMA is stopped.
- `RowsInOrder`: without overwrites the log holds the laps in order, without gaps but
  those of arming; a lap repeats only next to itself (a send that failed).
- `ReleasedIsLogged`: while a log is active no buffer is released unlogged.
- `TimedLogEnds`: an expired log is ended, unless from some moment on the server does nothing but wait
  for a client that stays and does not read, or that never stops sending. Without that condition
  (`ServerTimerEndsLog`) it does not hold; see Fairness and the findings.

`Acquisition`
- `FrameIsWhole`: a frame that arrives without the overflow flag holds bits of one
  conversion only, unless acquisition was switched off during it.
- `RecordsFollow`: of two records in a row the second is the next frame, or the drop
  counter accounts for what is missing.
- `StagedInOrder`: the same for neighbours in the FIFO, and for its head after the frame popped last,
  if that is not of an earlier acquisition.

`SampleStream`
- `CoherentSnapshot`: a snapshot is of one frame, and its counter is that frame's.
- `PollsTellNews`: a polled SAMPLE is newer than every message sent before.
- `StreamCatchesUp`: the newest frame count is streamed to a client that stays.

`ClientLogging`
- `NoZombieLog`: the file that is open is that of the last start, which was not stopped,
  timed out, failed or cut off since.
- `TimerEndsLog`: a log whose timer runs ends.

`ClientStream`
- `MessagesAsSent`: the controller is handed exactly the messages that have arrived whole,
  whatever pieces they came in.
- `RowsAtDemodRate`: where period and steps fit in half the counter's range (`StepsFit`), no two rows
  of a gated stretch are nearer than the period less its slack, and no frame a whole period later is
  left out (`PeriodGivesRow`).
- `RowsAfterMarker`: no row before the marker; after it, every ungated sample and the first of
  each gated stretch has one.

`ControlSync`
- `ServerDoesAsCommanded`: with nothing under way the registers are what was last commanded on
  this connection, unless the old thread dropped it.
- `ControlsConverge`: on a connection that lasts the controls end up showing the registers.

`PlotView`
- `WindowIsConsistent`: plots, settings and the demodulated-rate box agree with the view, the
  channels and the traces of now.
- `AsdIsOfLastRequest`: at most one computation is under way, and the spectrum that appears is
  that of the last request.

### Fairness

`CaptureServer` states `WF_vars(Loop /\ ~AtClient)`: the process is scheduled, every `select` of the
loop has a timeout while there is a client or an active log (the one without either waits for a client
and is no step of `Loop`), and file writes and register accesses return. `AtClient` are the places
where the client alone decides when the server goes on, and there nothing is promised: `ads1278_send_all`
(`server.c:569-609`) waits for a client that is connected and does not read, in a `select` without a
timeout, and `ads1278_service_client_socket` (line 1067) receives as long as there are bytes. A client that
does neither for ever is the assumption `[]<>~AtClient`, which `TimedLogEnds` carries in its
statement: the server is again and again at another place than those. A client that leaves meets it too, since
send and receive then return an error.

`SampleStream` states `WF_vars(Loop)`, sends included: of a client it assumes that it reads while it is
connected, as the one of `StreamCatchesUp` does. In both modules nothing else is assumed of clients, and
nothing of the clock, of signals or of the hardware.

`ClientLogging` states weak fairness of `TimerFires` and `DurationElapsed` for each request: a
`threading.Timer` that is not cancelled fires, and the lock it then waits for is never held
across a blocking call. `ControlSync` states it of `Refresh` (a `QTimer`),
of `FlushOutbound` and `HandleMessage` (the worker's loop does both in every turn) and of `Serve`
(the server reads what was sent). Nothing is assumed of the user or of the connection.

### Findings

Those with a run are violated in it. The others name the property that states them: it is
in the module named, and TLC refutes it under the configuration given, or under the
configuration of the module's run with that property in place of the others.

Hardware and server:

- FULL is not "completed": the wrap pulse comes with the address before the last,
  because the index compared has already moved on. The last record of a buffer is
  addressed after FULL is up, and based on the other buffer
  (`FullIsComplete`, `DmaFullIsComplete.cfg`; `docs/feats/fpga-register-map.md:62`).
- A stop of the DMA between an address and its data shifts all records of the
  following armings (`RecordsStartOnSlots`, `DmaRecordsStartOnSlots.cfg`;
  `docs/feats/dma-frame-record.md:62`).
- `SET_LOCAL_LOG_DURATION` for the next log takes the deadline of the log that runs
  (`TimedLogOutlivesClient`, `ServerLogOutlivesClient.cfg`;
  `docs/feats/server-protocol.md:47,60`).
- A timed log that expires under a client stops the DMA for good: the client gets no
  more samples, and the next timed log no rows (run `server_log_is_fed`;
  `docs/feats/server-protocol.md:111`).
- The timer of a log on the server does not end it while a client stays connected without reading, or
  sends without a pause: the server waits for the client and does not look at the deadline
  (`ServerTimerEndsLog` in `CaptureServer`; `server.c:569`, `docs/feats/client.md:46`).
- A change of CH1 gives no row when it comes sooner than 90% of the period after the last row; the
  server's gate (`csv_logger.c:105`) and the client's are the same in this (`ChangesAreRows`, `GateChanges.cfg`;
  `docs/feats/server-protocol.md:62`, which says nothing of a minimum, while `docs/feats/server.md:88` does).
- The serializer loads the FIFO's output register one clock before the frame popped is in
  it: the first record of an arming is a frame of an earlier one, perhaps of an earlier
  acquisition, and the frame count jumps without a drop (`CountsOnByOne`,
  `AcquisitionCounts.cfg`; `docs/feats/dma-frame-record.md:77`).
- The answer to `SET_ENABLE 0` can mix two frames: the counter that guards the snapshot is
  held at 0 while the frame in progress is latched (`AnswersAreCoherent`,
  `SampleAnswers.cfg`; `docs/feats/server.md:42`).
- A file name sent after a longer one keeps the tail of the longer one: clearing the
  buffer zeroes its first byte, and the NUL that ends the new name is not stored (run
  `usb_log_name`; `docs/feats/server-protocol.md:57`).
- The interrupt line and the FIFO depth differ from the register map (lines 35 and
  71 of `docs/feats/fpga-register-map.md`).

Client:

- Requests pending at a disconnect stay in the queue as placeholders, and the first
  marker of the next connection pops one of them: the log asked for does not begin
  (run `client_log_starts`; `docs/feats/client.md:45`).
- The answer to a stop clears the deadline of a timed log that was started meanwhile, which
  then has no timer and does not end (`TimedLogHasTimer` in `ClientLogging`;
  `docs/feats/client.md:46`).
- A log started on this computer while one runs on the USB stick sends no stop, and from
  then on the stop button does not reach the one on the stick (`StopEndsUsbLog` in
  `ClientLogging`; `docs/feats/client.md:46`).
- A demodulation period of more than 32768 frames is taken for a step back by the gate, and
  a steady channel gets no second row, on the client as on the server; the controls allow 407000
  frames (`PeriodGivesRow`, `LongPeriod.cfg`; `docs/feats/client.md:44`; theorem `LongPeriodNeedsChange`).
- A message older than an edit that happens to show the edited divider clears the flag that
  protects it, and the next answer overwrites the edit (`DividerEditSurvives`,
  `DividerEdit.cfg`; the test `client/tests/test_controller_and_main_window.py:977`).
- A refresh that changes the frequency box marks it as edited, since its signal is not
  blocked; if no message agrees with what it then shows, the modulation controls stop
  following the server (`ModulationConverges` in `ControlSync`; no document speaks of it).
- New ASD settings, or a lost connection, clear the results but not the computation under
  way, which then appears as the current spectrum (`AsdIsCurrent` in `PlotView`;
  `docs/feats/client.md:79`).
- The selection of channels does not survive where `QSettings` returns strings
  (`ChannelsSurvive` in `PlotView`; no document promises it).
- The divider box starts at 3, so the check "Set divider `2`" of `docs/feats/client.md:94`
  cannot be made.

## Proofs

Each proof module extends its module (`ClientProofs` two, which share no variable), defines an inductive
invariant `IInv` (of the stream `StreamIInv`), and proves `Init => IInv`, that every action keeps it,
and from it the properties of the runs, for every value of the constants that the module's assumptions
allow. TLC finds each `IInv` to hold
under the configuration of the module's run (of `ControlSyncProofs` its part `WishInv`: the types
there are not finite; of `StreamIInv` its parts but the types, with the two halves of `sent` that fit in
place of all sequences). What the invariants add, and why:

`PingPongProofs`: every property of `PingPong`, for any number of wraps. None of
`ReaderWarned`, `LapsAccounted` and `LossCounted` is inductive: whether a lap can be
lost depends on where `dma_arm` is and what the enable bit was in the clock before.
`ArmingInv` says what the registers are at each step of arming, `ServingInv` that what the
server has seen or is reading is FULL, `WarnedInv` is `ReaderWarned` for the buffers seen and not
begun as well. The step lemma is split by what a clock does to each part, so that every
action of the server is one instance of `Clock` with its own acknowledgements.

`DmaWriterProofs`: first `Implementation`, that every step of `DmaWriter` is a step of `PingPong`
or leaves its variables unchanged. It needs `PulseInv` alone: a wrap pulse comes only while the
writer is out of reset, and never more often than bursts were begun. So `PingPong`'s invariant
holds here and is used for the rest, which numbers the bursts, addresses and beats of an arming
from its first on:

- `BurstInv`: an address waits only behind another, and only while its own beats are moved. This
  is the one place where the port's bound `Ahead` matters: were two bursts of beats moved past one
  stalled address, the next burst would take its place.
- `BeatInv`, `AddressInv`: every beat in the port or in the writer is the next of the arming, and so is
  every address; with a unique quotient and remainder, `AlignedIfDrained` follows.
- `TurnInv`: the slot index and the wraps count the same addresses, the wraps one address early;
  `OneAddressPerBurst` and `WrapPeriod` follow.
- `MemoryInv`: what is landed in an inner slot stays until the burst two laps on, and with `FullInv`,
  which of the buffers is FULL, `InnerSlotsSettle` follows.

`OnlyTheTailFollows` is proved (`TailFollows`) for ports that hold fewer addresses than a buffer has
slots, `AwDepth < Bursts`: a buffer is 32 slots at least (a page of 128-byte records), the port's queue is
not in the repository. With two slots and three addresses in the port TLC refutes it: the stalled
last address of the lap before is based on the buffer that is FULL now. For every port it is
proved that nothing of a later lap follows (`NothingNewer`). `SettleOnly` is the action property behind
this: a FULL buffer only becomes more complete, every beat that still lands in it being the announced
lap's at that place. It is proved for the same ports, and no run lists it (TLC finds it to hold with the
constants of `DmaWriter.cfg`).

`HandshakeKept`, here and in `CaptureServerProofs`, draws the consequence of the implementation:
`OverwriteVisible`, `ReaderWarned`, `LapsAccounted` and `LossCounted`, proved of `PingPong`, hold of the
registers with this writer, and of the server with all its modes, under the mapping.

`CaptureServerProofs`: `Implementation`, that the loop with all its modes, failures and restarts
implements `PingPong` under the mapping `ServerPc`; then `UnattendedIsTimed`, `IdleMeansStopped`,
`RowsInOrder` and `ReleasedIsLogged`. `LoopInv` says at which places of the loop the server has a client,
a buffer or a DMA being armed; `OrderInv` says that until the first overwrite the laps a log has not got
are at most the one that is FULL and those thrown away by arming. `PingPong`'s invariant is a part of it.

`AcquisitionProofs`: `FrameIsWhole`, `StagedInOrder`, `RecordsFollow`, for every FIFO depth and counter
width. The frames from the last record back to the receiver are one line (`LineInv`, `RecordInv`); a drop
widens the gap at its end, which the drop counter measures modulo the counter's width; switching
acquisition off makes all of the line old.

`SampleStreamProofs`: `CoherentSnapshot` and `PollsTellNews`, for any number of channels and attempts. Equal
counters mean one frame only if the counter has not gone all the way round (`AttemptInv`), and a
counter that differs means news only because of how counter, registers, snapshot and the newest
conversion told are ordered (`OrderInv`, `MarkInv`).

`ClientProofs`, of the log: `NoZombieLog`, for any number of starts, stops and connections and any name. Of the
requests only the wanted one waits for a marker, however many placeholders stand around it
(`PendingInv`); a START under way is of a request that no longer waits, so an error it is answered with
takes a placeholder at worst (`LinkInv`).

`ClientProofs`, of the stream: `MessagesAsSent` and `RowsAfterMarker`, for every size of header, frame,
line and counter, every period, any messages and any pieces; `RowsAtDemodRate` for every period and every
steps with `StepsFit`, which `RowsComeAtDemodRate` assumes by name; and for the periods it leaves out, those
of more than half the range, `SteadyChannelStops` (`LongPeriodNeedsChange`; no run lists it). The inductive
invariant `StreamIInv` has four parts beside the types, the last of which is an implication from `StepsFit`:

- `WireInv`: the messages sent are the line, those taken out of the stream and those ahead; what the
  controller has and is about to get is what the former give, and buffer and wire together hold the
  bytes of the latter. `Header` and `BulkSamples` then find a message again in its bytes, which takes
  the quotient by `FrameSize` to be the place of the frame.
- `FrameInv`: no frame is far below an earlier one, nor far above it unless one between them is nearer
  (`Follows`). Without the last part the invariant would not be inductive: the counts of a long stretch
  grow without bound, and only the rows, which come at least once a period, keep the gate's own distance
  within half the range, where the steps fit (`NearRow`).
- `GateInv`: the gate holds a row exactly if the last row and every message since were samples for it,
  and the count and the CH1 it holds are that row's. This holds of every period, and with it what a long
  one does to the rows.
- `RateInv`: under `StepsFit`, the samples since that row are less than a period from it.

What the messages give all together is a concatenation, so its lemmas need induction over sequences and
numbers. It is done on sets: the set of the numbers (of the sequences over a set) of which a fact holds is
all of them, because otherwise the rest of them has a least element in a well-founded order
(`EveryNumber`, `EverySequence`). The recursion inside `FlattenSeq` is stated as an equation
(`Flattens`) that determines its function as far as the members before go (`FlattenAgree`).

`ControlSyncProofs`: `ServerDoesAsCommanded`, for any registers, ranges and queue lengths. Inductive is
`WishInv`: what was last asked of an item is its last command in the queue, or if there is none
its last on the wire, or if there is none its register.

`PlotViewProofs`: `WindowIsConsistent` and `AsdIsOfLastRequest`, for any number of channels, terms and
operations. `FlightInv` is the account of the one computation under way: it is the last request, and
the Future that is kept is its own, so a refresh that finds the Future done or gone finds nothing
queued.

Assumptions. The theorems use the named assumptions of the modules, which TLC evaluates on every
run: sizes and bounds are natural numbers; a burst has two beats and a buffer two bursts at least, and
the port takes less than two bursts of beats ahead of an address (`DmaWriterAssumption`); there are two
channels at least (`ChannelAssumption`); of the names of a log one is the longest (`BoundsAssumption` of
`ClientLogging`); that the counts of a stream are apart (`StepsFit`) is an assumption of
`RowsComeAtDemodRate` alone, stated in it; the values of the controls and registers are of their ranges (`ValuesAssumption`). The
bounds of a behaviour (`MaxWraps`, `MaxRec`, `MaxConv`, `MaxOps` ...) are any natural numbers.

Only model-checked:

- liveness (`TimedLogEnds` with the assumption in its statement, `StreamCatchesUp`, `TimerEndsLog`, `ControlsConverge`): the prover has no
  rule for fairness. Every safety property of a passing run is proved, `OnlyTheTailFollows`
  for the ports named above.

## Plan

1. The demodulator of `ads1278_demod.v` against a reference average.
2. Sequence numbers of the server's messages.

## Not modelled

- `cmd_parse.c`: two pure functions, eight bytes to a command and a range check by opcode.
  The models send valid commands.
- The handshakes of the AXI-Lite slave: the one master makes uncached, ordered accesses, so an
  access is one step of the models that use it.
- The demodulator's arithmetic, the converter clock and the sync pulse: `Receiver` takes channel 1
  as unfiltered and conversions whenever they come.
- Drawing, units and the numerical side of traces and spectra: no protocol in them.
- `ASD.ipynb`: offline analysis of recorded files.
- Board wiring and constraints, `rpdevmem`, the wave forms of the fake server, build and
  deployment scripts: no state of their own, or a single access.
