------------------------------- MODULE DmaWriter -------------------------------
(***************************************************************************)
(* The burst writer of the capture DMA, clock by clock, with the register  *)
(* block and the server of PingPong: fpga/rtl/axis_ram_writer.v and its    *)
(* two output_buffers, the wrap pulse of ads1278_dma_phase4.v, and the     *)
(* memory port behind them.                                                *)
(*                                                                         *)
(* A burst is one frame record of Beats words.  When the writer's FIFO     *)
(* holds a whole record the writer offers an address and the beats on two  *)
(* channels that stall independently, each through a one-entry register.   *)
(* The buffer base in the address follows the active buffer at the clock   *)
(* the address enters that register.  Disabling DMA resets all of it at    *)
(* once, whatever the port has already taken.                              *)
(*                                                                         *)
(* The memory port is outside the repository.  It takes addresses and      *)
(* beats in order, pairs every address with the Beats beats its AWLEN      *)
(* announces, and lands them in memory in its own time.                    *)
(***************************************************************************)
EXTENDS Integers, Sequences, FiniteSets

CONSTANTS
  Bursts,   \* bursts in a buffer: DMA_BUF_SIZE / 128
  Beats,    \* beats in a burst: 16
  Ahead,    \* how many beats the port takes ahead of their address
  AwDepth,  \* how many addresses the port holds
  MaxRec    \* bound: bursts in a behaviour

\* The server only configures whole pages, so a buffer is many bursts.  A port
\* that ran further ahead could take two bursts of beats past one stalled
\* address, which the writer does not survive.
ASSUME DmaWriterAssumption ==
  /\ Bursts \in Nat /\ Bursts >= 2
  /\ Beats \in Nat /\ Beats >= 2
  /\ Ahead \in 1 .. 2 * Beats - 2
  /\ AwDepth \in Nat \ {0}
  /\ MaxRec \in Nat

VARIABLES
  enable, enablePrev, active, full, irq, wraps, overwrites,
  pc, seen, reading,
  lap, readLap, lastLap, servedLaps, discarded,
  awPend,    \* int_awvalid_reg: an address is waiting to enter awOut
  wBusy,     \* int_wvalid_reg: beats of the current burst remain
  cntr,      \* int_cntr_reg: beats of the current burst moved so far
  index,     \* int_addr_reg: the slot of the next address
  awOut,     \* buf_aw, as a sequence of at most one address
  wOut,      \* buf_w, as a sequence of at most one beat
  awq,       \* port: addresses taken, not yet complete
  wq,        \* port: beats taken, not yet landed
  wpos,      \* port: beats landed for Head(awq)
  ddr,       \* the two buffers: the beat that each word of each slot holds
  rec,       \* history: bursts begun
  armRec,    \* history: rec when this arming began
  armWraps,  \* history: wraps when this arming began
  clean      \* history: this arming began with nothing in the port

Regs == INSTANCE PingPong WITH MaxWraps <- MaxRec

registers == <<enable, enablePrev, active, full, irq, wraps, overwrites, pc, seen,
               reading, lap, readLap, lastLap, servedLaps, discarded>>
writer == <<awPend, wBusy, cntr, index, awOut, wOut>>
port == <<awq, wq, wpos, ddr>>
arming == <<rec, armRec, armWraps, clean>>
vars == <<registers, writer, port, arming>>

Slots == 0 .. Bursts - 1
NoBeat == [rec |-> 0, beat |-> 0]

-----------------------------------------------------------------------------
(* The writer's combinational signals.  avail says that its FIFO holds a     *)
(* whole record; awready and wready are the port's.                          *)

\* int_valid_wire
Begins(avail) == avail /\ ~wBusy

\* int_awvalid_wire, int_wvalid_wire
AwIn(avail) == Begins(avail) \/ awPend
WIn(avail) == Begins(avail) \/ wBusy

\* int_awready_wire, int_wready_wire
AwFree(awready) == awOut = <<>> \/ awready
WFree(wready) == wOut = <<>> \/ wready

\* The burst being moved.
Current(avail) == IF Begins(avail) THEN rec + 1 ELSE rec

\* Mutant: the base address is the other buffer's.
AddressInOther(avail) == [buf |-> 1 - active, slot |-> index, rec |-> Current(avail)]

\* What enters buf_aw: the slot in the buffer that is active in this clock.
Address(avail) == [buf |-> active, slot |-> index, rec |-> Current(avail)]

LastBeat == cntr = Beats - 1

\* Mutant: the pulse does not wait for the handshake.
WrapPulseStalled(awready) == awOut # <<>> /\ index = Bursts - 1

\* An address leaves while the index, already advanced, is the last.
WrapPulse(awready) == awOut # <<>> /\ awready /\ index = Bursts - 1

-----------------------------------------------------------------------------
(* A clock edge. *)

\* Mutant: an address is offered for one clock only.
AwPendNextOnce(avail, awready) == Begins(avail) /\ ~AwFree(awready)

AwPendNext(avail, awready) == AwIn(avail) /\ ~AwFree(awready)

\* Mutant: the last slot is one past the end.
IndexNextPastEnd(avail, awready) ==
  IF AwIn(avail) /\ AwFree(awready)
    THEN IF index <= Bursts - 1 THEN index + 1 ELSE 0
    ELSE index

IndexNext(avail, awready) ==
  IF AwIn(avail) /\ AwFree(awready)
    THEN IF index < Bursts - 1 THEN index + 1 ELSE 0
    ELSE index

AwOutNext(avail, awready) ==
  IF ~AwFree(awready) THEN awOut
  ELSE IF AwIn(avail) THEN <<Address(avail)>> ELSE <<>>

\* Mutant: WLAST one beat early.
WBusyNextShort(avail, wready) == WIn(avail) /\ ~(WFree(wready) /\ cntr = Beats - 2)

WBusyNext(avail, wready) == WIn(avail) /\ ~(WFree(wready) /\ LastBeat)

CntrNext(avail, wready) ==
  IF WIn(avail) /\ WFree(wready) THEN (cntr + 1) % Beats
  ELSE IF Begins(avail) THEN 0 ELSE cntr

\* Mutant: a stalled beat is overwritten by the next.
WOutNextOverwrites(avail, wready) ==
  IF WIn(avail) THEN <<[rec |-> Current(avail), beat |-> cntr]>>
  ELSE IF WFree(wready) THEN <<>> ELSE wOut

WOutNext(avail, wready) ==
  IF ~WFree(wready) THEN wOut
  ELSE IF WIn(avail) THEN <<[rec |-> Current(avail), beat |-> cntr]>> ELSE <<>>

\* Mutant: disabling DMA does not reset the writer.
WriterClockUnreset(avail, awready, wready) ==
  /\ awPend' = AwPendNext(avail, awready)
  /\ index' = IndexNext(avail, awready)
  /\ awOut' = AwOutNext(avail, awready)
  /\ wBusy' = WBusyNext(avail, wready)
  /\ cntr' = CntrNext(avail, wready)
  /\ wOut' = WOutNext(avail, wready)

\* The writer's registers: held in reset while DMA is disabled.
WriterClock(avail, awready, wready) ==
  IF enable
    THEN /\ awPend' = AwPendNext(avail, awready)
         /\ index' = IndexNext(avail, awready)
         /\ awOut' = AwOutNext(avail, awready)
         /\ wBusy' = WBusyNext(avail, wready)
         /\ cntr' = CntrNext(avail, wready)
         /\ wOut' = WOutNext(avail, wready)
    ELSE /\ awPend' = FALSE /\ wBusy' = FALSE
         /\ cntr' = 0 /\ index' = 0
         /\ awOut' = <<>> /\ wOut' = <<>>

\* Beats the port holds whose address it has not taken.
Unaddressed == Len(wq) + wpos - Beats * Len(awq)

\* The port accepts what its handshakes say, whether DMA is being reset or not.
\* Ready without valid is left out: it changes nothing.
PortClock(awready, wready) ==
  /\ awready => awOut # <<>> /\ Len(awq) < AwDepth
  /\ wready => wOut # <<>> /\ Unaddressed < Ahead
  /\ awq' = IF awready THEN awq \o awOut ELSE awq
  /\ wq' = IF wready THEN wq \o wOut ELSE wq
  /\ UNCHANGED <<wpos, ddr>>

\* The history of an arming starts in the clock that resets the registers.
ArmingClock(avail) ==
  /\ rec' = Current(avail)
  /\ armRec' = IF Regs!Rise THEN rec ELSE armRec
  /\ armWraps' = IF Regs!Rise THEN wraps ELSE armWraps
  /\ clean' = IF Regs!Rise THEN awq = <<>> /\ wq = <<>> /\ wpos = 0 ELSE clean

\* A record takes 32 clocks to reach the FIFO, which was empty until the writer
\* left its reset.
MayBeAvailable == enable /\ enablePrev /\ rec < MaxRec

Clock ==
  \E avail, awready, wready \in BOOLEAN :
    /\ avail => MayBeAvailable
    /\ WriterClock(avail, awready, wready)
    /\ PortClock(awready, wready)
    /\ ArmingClock(avail)
    /\ \/ Regs!Tick(WrapPulse(awready), FALSE)
       \/ Regs!Writes(WrapPulse(awready), FALSE)

\* The server between two register writes.
ServerStep == Regs!ServerStep /\ UNCHANGED <<writer, port, arming>>

\* A beat reaches memory.
Land ==
  /\ awq # <<>> /\ wq # <<>>
  /\ ddr' = [ddr EXCEPT ![Head(awq).buf][Head(awq).slot][wpos] = Head(wq)]
  /\ wq' = Tail(wq)
  /\ wpos' = (wpos + 1) % Beats
  /\ awq' = IF wpos = Beats - 1 THEN Tail(awq) ELSE awq
  /\ UNCHANGED <<registers, writer, arming>>

Init ==
  /\ Regs!Init
  /\ awPend = FALSE /\ wBusy = FALSE /\ cntr = 0 /\ index = 0
  /\ awOut = <<>> /\ wOut = <<>>
  /\ awq = <<>> /\ wq = <<>> /\ wpos = 0
  /\ ddr = [b \in Regs!Buffers |-> [s \in Slots |-> [j \in 0 .. Beats - 1 |-> NoBeat]]]
  /\ rec = 0 /\ armRec = 0 /\ armWraps = 0 /\ clean = TRUE

Next == Clock \/ ServerStep \/ Land

Spec == Init /\ [][Next]_vars

-----------------------------------------------------------------------------
(* What the writer promises the register block and the server. *)

Addresses == [buf : Regs!Buffers, slot : Slots, rec : Nat]
WordBeats == [rec : Nat, beat : 0 .. Beats - 1]

\* Every variable of the writer and of the port holds a value of its kind.
TypeOK ==
  /\ Regs!TypeOK
  /\ awPend \in BOOLEAN /\ wBusy \in BOOLEAN
  /\ cntr \in 0 .. Beats - 1 /\ index \in Slots
  /\ awOut \in Seq(Addresses) /\ Len(awOut) <= 1
  /\ wOut \in Seq(WordBeats) /\ Len(wOut) <= 1
  /\ awq \in Seq(Addresses) /\ Len(awq) <= AwDepth
  /\ wq \in Seq(WordBeats) /\ wpos \in 0 .. Beats - 1
  /\ ddr \in [Regs!Buffers -> [Slots -> [0 .. Beats - 1 -> WordBeats]]]
  /\ rec \in 0 .. MaxRec /\ armRec \in 0 .. rec /\ armWraps \in 0 .. wraps
  /\ clean \in BOOLEAN

\* An arming under way, begun with nothing of an earlier one left in the port.
\* An address an earlier disabling left without its beats would stay for good.
Sound == enable /\ enablePrev /\ clean

\* Bursts of this arming whose address has entered buf_aw, and has left it.
Entered == rec - armRec - (IF awPend THEN 1 ELSE 0)
Left == Entered - Len(awOut)

\* No stall of either channel costs or invents an address: the slot register
\* counts the bursts of the arming.
OneAddressPerBurst == Sound => index = Entered % Bursts

\* The register block counts one wrap per buffer's worth of addresses, one
\* address early, and the active buffer follows.
WrapPeriod ==
  Sound => /\ wraps - armWraps = (Left + 1) \div Bursts
           /\ active = (wraps - armWraps) % 2

\* In an arming that began with the port drained, every word lands at its own
\* place of the slot its record was addressed to, however the channels skew.
AlignedIfDrained ==
  Sound /\ awq # <<>> /\ wq # <<>> =>
    Head(wq) = [rec |-> Head(awq).rec, beat |-> wpos]

\* While the overwrite bit is down, whatever is still on its way into a FULL
\* buffer belongs to the lap that was announced: it can make the buffer newer
\* than its FULL bit, never mix in the next lap.
OnlyTheTailFollows ==
  Sound /\ "overwrite" \notin irq =>
    \A i \in 1 .. Len(awq \o awOut) :
      LET a == (awq \o awOut)[i] IN
      a.buf \in full => lap[a.buf] = armWraps + ((a.rec - armRec - 1) \div Bursts) + 1

\* The record that slot s of buffer b should hold: the one of the lap that set
\* its FULL bit.
LapRecord(b, s) == armRec + (lap[b] - armWraps - 1) * Bursts + s + 1
Holds(b, s, r) == \A j \in 0 .. Beats - 1 : ddr[b][s][j] = [rec |-> r, beat |-> j]

\* Once the port is idle, a FULL buffer the writer has not come back to holds
\* its own lap in every slot but the last.
InnerSlotsSettle ==
  Sound /\ "overwrite" \notin irq /\ awOut = <<>> /\ awq = <<>> =>
    \A b \in full : \A s \in 0 .. Bursts - 2 : Holds(b, s, LapRecord(b, s))

\* The writer and the port, with the registers and the server, behave as
\* PingPong lets them: its wrap pulses come only when PingPong may see one, so
\* what is proved of PingPong holds here.
ImplementsPingPong == Regs!Spec

-----------------------------------------------------------------------------
(* What the documents promise and the writer does not keep. *)

\* docs/feats/fpga-register-map.md: a FULL bit means that hardware has completed
\* the buffer.  The pulse comes with the last address but one, and the last
\* address is then based on the other buffer.
FullIsComplete ==
  Sound /\ "overwrite" \notin irq /\ awOut = <<>> /\ awq = <<>> =>
    \A b \in full : \A s \in Slots : Holds(b, s, LapRecord(b, s))

\* docs/feats/dma-frame-record.md: record i always starts at byte i * 128.  DMA
\* disabled between an address and its beats shifts every later arming.
RecordsStartOnSlots ==
  awq # <<>> /\ wq # <<>> => Head(wq).beat = wpos
===============================================================================
