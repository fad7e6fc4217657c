------------------------------- MODULE PingPong -------------------------------
(***************************************************************************)
(* The ownership of the two DDR buffers of the capture DMA: the status     *)
(* registers of fpga/rtl/ads1278_axi_slave.sv and the accesses             *)
(* server/server.c makes to them.                                          *)
(*                                                                         *)
(* Hardware fills one buffer, the active one, and on every wrap pulse of   *)
(* the burst writer marks it FULL and turns to the other, whether software *)
(* has released that one or not.  Software arms and stops the DMA, polls   *)
(* the FULL bits, reads the buffers it saw FULL (0 before 1) and releases  *)
(* each with an acknowledgement.                                           *)
(*                                                                         *)
(* One step is a clock edge of the register block, with at most one        *)
(* register write of software in it, or a step of software between two     *)
(* edges.  The burst writer is not in this module: a wrap pulse may come   *)
(* in any clock in which the writer is out of reset.  DmaWriter supplies   *)
(* the pulses the writer really makes.                                     *)
(***************************************************************************)
EXTENDS Integers, FiniteSets

CONSTANT MaxWraps   \* bound: wrap pulses in a behaviour

ASSUME MaxWrapsAssumption == MaxWraps \in Nat

VARIABLES
  enable,      \* dma_ctrl_reg[0], seen as dma_phase4_enable
  enablePrev,  \* dma_enable_prev
  active,      \* dma_active_buf_reg: the buffer hardware is filling
  full,        \* dma_buf_full_reg, as the set of buffers whose bit is 1
  irq,         \* dma_irq_status_reg[3:0], as a set of bit names
  wraps,       \* dma_wrap_count_reg
  overwrites,  \* dma_overwrite_count_reg
  pc,          \* where the server is in dma_arm, "down" when there is none
  seen,        \* FULL bits of the server's last poll it has still to serve
  reading,     \* the buffer the server is sending, or None
  lap,         \* history: the wrap that last set each FULL bit
  readLap,     \* history: lap[reading] when the server began to read it
  lastLap,     \* history: the last lap served, or the last before this arming
  servedLaps,  \* history: how many laps the server has read to the end
  discarded    \* history: how many FULL bits arming has cleared unread

regs == <<enable, enablePrev, active, full, irq, wraps, overwrites>>
server == <<pc, seen, reading>>
history == <<lap, readLap, lastLap, servedLaps, discarded>>
vars == <<regs, server, history>>

Buffers == {0, 1}
None == 2
Irqs == {"wrap", "error", "overwrite"}

-----------------------------------------------------------------------------
(* The register block. *)

\* dma_enable_rise
Rise == enable /\ ~enablePrev

\* How many FULL bits are 1.
FullCount == Cardinality(full)

\* Mutant: a wrap forgets the FULL bit of the other buffer.
FullNextForgets(wrap, bufAck) ==
  IF wrap THEN {active} ELSE IF Rise THEN {} ELSE full \ bufAck

\* The FULL bits after this edge.  A wrap is assigned last, so it wins over
\* an acknowledgement of the same bit in the same clock.
FullNext(wrap, bufAck) ==
  (IF Rise THEN {} ELSE full \ bufAck) \cup (IF wrap THEN {active} ELSE {})

\* Mutant: the compare looks at the buffer being left, not the one entered.
OverrunAtActive(wrap) == wrap /\ active \in full

\* A wrap turns to a buffer that is still FULL.  The register is compared
\* before this clock's acknowledgement reaches it.
Overrun(wrap) == wrap /\ (1 - active) \in full

\* The sticky interrupt bits after this edge: cleared first, set last.
IrqNext(wrap, berr, irqAck) ==
  ((irq \ irqAck) \ (IF Rise THEN {"overwrite"} ELSE {}))
    \cup (IF wrap THEN {"wrap"} ELSE {})
    \cup (IF Overrun(wrap) THEN {"overwrite"} ELSE {})
    \cup (IF berr THEN {"error"} ELSE {})

\* Mutant: the one-bit toggle counts on.
ActiveNextUnwrapped(wrap) == IF wrap THEN active + 1 ELSE IF Rise THEN 0 ELSE active

ActiveNext(wrap) == IF wrap THEN 1 - active ELSE IF Rise THEN 0 ELSE active

\* One clock edge.  wrap and berr are the writer's pulses; ctrl is the enable
\* bit and irqAck, bufAck the acknowledgements a register write leaves.
Clock(wrap, berr, ctrl, irqAck, bufAck) ==
  /\ enable' = ctrl
  /\ enablePrev' = enable
  /\ full' = FullNext(wrap, bufAck)
  /\ irq' = IrqNext(wrap, berr, irqAck)
  /\ active' = ActiveNext(wrap)
  /\ wraps' = IF wrap THEN wraps + 1 ELSE wraps
  /\ overwrites' = IF Overrun(wrap) THEN overwrites + 1 ELSE overwrites
  /\ lap' = IF wrap THEN [lap EXCEPT ![active] = wraps + 1] ELSE lap

\* What this module lets the writer do: its registers are held in reset until
\* the clock after DMA is enabled and one clock longer than it is.  A response
\* with an error may come at any time.
WriterMay(wrap) == wrap => enablePrev /\ wraps < MaxWraps

Init ==
  /\ enable = FALSE /\ enablePrev = FALSE
  /\ active = 0 /\ full = {} /\ irq = {}
  /\ wraps = 0 /\ overwrites = 0
  /\ pc = "down" /\ seen = {} /\ reading = None
  /\ lap = [b \in Buffers |-> 0] /\ readLap = 0 /\ lastLap = 0
  /\ servedLaps = 0 /\ discarded = 0

\* The laps of an arming are counted from its first clock.
Rebase == lastLap' = IF Rise THEN wraps ELSE lastLap

\* A clock without a register write.
Tick(wrap, berr) ==
  /\ Clock(wrap, berr, enable, {}, {})
  /\ Rebase
  /\ UNCHANGED <<server, readLap, servedLaps, discarded>>

-----------------------------------------------------------------------------
(* The server.  It is single-threaded: it stops or arms the DMA only between *)
(* two passes over the buffers.                                              *)

Idle == reading = None /\ seen = {}

\* dma_stop, and the first write of dma_arm: the only write a server that has
\* just been started makes.
StopDma(wrap, berr) ==
  /\ Idle /\ pc \in {"down", "stopped", "running"}
  /\ pc' = "stopped"
  /\ Clock(wrap, berr, FALSE, {}, {})
  /\ Rebase
  /\ UNCHANGED <<seen, reading, readLap, servedLaps, discarded>>

\* dma_arm: clear every sticky bit ...
AckIrqs(wrap, berr) ==
  /\ Idle /\ pc = "stopped"
  /\ pc' = "irqAcked"
  /\ Clock(wrap, berr, enable, Irqs, {})
  /\ UNCHANGED <<seen, reading, readLap, lastLap, servedLaps, discarded>>

\* ... then both FULL bits ...
AckBuffers(wrap, berr) ==
  /\ pc = "irqAcked"
  /\ pc' = "bufAcked"
  /\ Clock(wrap, berr, enable, {}, Buffers)
  /\ discarded' = discarded + FullCount
  /\ UNCHANGED <<seen, reading, readLap, lastLap, servedLaps>>

\* ... and enable capture.
EnableDma(wrap, berr) ==
  /\ pc = "bufAcked"
  /\ pc' = "running"
  /\ Clock(wrap, berr, TRUE, {}, {})
  /\ UNCHANGED <<seen, reading, readLap, lastLap, servedLaps, discarded>>

\* Mutant: the pass does not look at the FULL bits.
PollStatusBlind ==
  /\ pc \in {"stopped", "running"} /\ Idle
  /\ seen' = Buffers
  /\ UNCHANGED <<regs, pc, reading, history>>

\* service_dma_buffers reads DMA_BUF_STATUS once for both buffers.  It goes on
\* polling after a stop: an expired timed log stops the DMA under a client.
PollStatus ==
  /\ pc \in {"stopped", "running"} /\ Idle
  /\ full # {}
  /\ seen' = full
  /\ UNCHANGED <<regs, pc, reading, history>>

\* send_dma_buffer: buffer 0 first, whichever was filled first.
BeginBuffer(b) ==
  /\ reading = None
  /\ b \in seen /\ (b = 1 => 0 \notin seen)
  /\ reading' = b
  /\ seen' = seen \ {b}
  /\ readLap' = lap[b]
  /\ UNCHANGED <<regs, pc, lap, lastLap, servedLaps, discarded>>

\* Mutant: the acknowledgement names the other buffer.
EndBufferAcksOther(wrap, berr) ==
  /\ reading # None
  /\ Clock(wrap, berr, enable, {}, {1 - reading})
  /\ reading' = None
  /\ lastLap' = readLap
  /\ servedLaps' = servedLaps + 1
  /\ UNCHANGED <<pc, seen, readLap, discarded>>

\* Everything of the buffer is sent: write DMA_BUF_ACK.
EndBuffer(wrap, berr) ==
  /\ reading # None
  /\ Clock(wrap, berr, enable, {}, {reading})
  /\ reading' = None
  /\ lastLap' = readLap
  /\ servedLaps' = servedLaps + 1
  /\ UNCHANGED <<pc, seen, readLap, discarded>>

\* Mutant: a buffer that could not be sent is acknowledged all the same.
FailBufferAcks ==
  /\ reading # None
  /\ Clock(FALSE, FALSE, enable, {}, {reading})
  /\ reading' = None
  /\ seen' = {}
  /\ UNCHANGED <<pc, readLap, lastLap, servedLaps, discarded>>

\* The client went away while its buffer was sent, or no stride canary was
\* found: the buffer is not released and the rest of the pass is given up.
FailBuffer ==
  /\ reading # None
  /\ reading' = None
  /\ seen' = {}
  /\ UNCHANGED <<regs, pc, history>>

\* The server process ends, by a signal it handles or not: it releases nothing,
\* and DMA may stay enabled.  Another may be started later.
Die ==
  /\ pc # "down"
  /\ pc' = "down" /\ seen' = {} /\ reading' = None
  /\ UNCHANGED <<regs, history>>

Writes(wrap, berr) ==
  \/ StopDma(wrap, berr)
  \/ AckIrqs(wrap, berr)
  \/ AckBuffers(wrap, berr)
  \/ EnableDma(wrap, berr)
  \/ EndBuffer(wrap, berr)

ServerStep ==
  \/ PollStatus
  \/ \E b \in Buffers : BeginBuffer(b)
  \/ FailBuffer
  \/ Die

Next ==
  \/ \E wrap, berr \in BOOLEAN :
       /\ WriterMay(wrap)
       /\ Tick(wrap, berr) \/ Writes(wrap, berr)
  \/ ServerStep

Spec == Init /\ [][Next]_vars

-----------------------------------------------------------------------------
(* What the handshake is for. *)

\* Every variable holds a value of its kind.
TypeOK ==
  /\ enable \in BOOLEAN /\ enablePrev \in BOOLEAN
  /\ active \in Buffers /\ full \in SUBSET Buffers /\ irq \in SUBSET Irqs
  /\ wraps \in Nat /\ overwrites \in Nat
  /\ pc \in {"down", "stopped", "irqAcked", "bufAcked", "running"}
  /\ seen \in SUBSET Buffers /\ reading \in Buffers \cup {None}
  /\ lap \in [Buffers -> Nat] /\ readLap \in Nat /\ lastLap \in Nat
  /\ servedLaps \in Nat /\ discarded \in Nat

\* The registers describe the present arming: from the clock that resets them
\* (enable rising) until the server begins the next arming.
Armed == pc = "running" /\ enablePrev

\* Hardware never fills a buffer software still owns without the sticky
\* overwrite bit being up (axi_slave: the compare at the wrap, and the order
\* in which dma_arm clears the bits).
OverwriteVisible ==
  Armed /\ active \in full => "overwrite" \in irq

\* A buffer the server is reading is safe, or the overwrite bit is up: while
\* it is down hardware fills the other one, and the lap that the coming
\* acknowledgement releases is the lap that was read.
ReaderWarned ==
  pc = "running" /\ reading # None /\ "overwrite" \notin irq =>
    active # reading /\ lap[reading] = readLap

\* While the overwrite bit is down no lap is skipped, reread or served out of
\* order, although the server always looks at buffer 0 first: at most one
\* buffer is FULL, it holds the newest lap, and every older one was served.
LapsAccounted ==
  Armed /\ "overwrite" \notin irq =>
    \/ full = {} /\ lastLap = wraps
    \/ full = {1 - active} /\ lap[1 - active] = wraps /\ lastLap = wraps - 1

\* DMA_OVERWRITE_COUNT never under-reports: every lap the writer completed was
\* read to the end, is still FULL, was thrown away by an arming, or is covered
\* by an overwrite counted before the data was lost.
LossCounted ==
  wraps <= servedLaps + FullCount + discarded + overwrites

\* A FULL bit drops only when the server releases the buffer it has read, or
\* arms the DMA anew.
ReleasedByServer ==
  [][\A b \in full \ full' : reading = b \/ pc = "irqAcked"]_vars
===============================================================================
