------------------------------- MODULE Receiver -------------------------------
(***************************************************************************)
(* The SPI receiver of the converter's frames (fpga/rtl/ads1278_spi_tdm.v) *)
(* clock by clock: a falling DRDY, a wait, 192 bits, and the latch that    *)
(* hands the frame to the channel registers, the status word and the FIFO. *)
(*                                                                         *)
(* The lengths of the wait and of the shift follow EXTCLK_DIV, which       *)
(* software may write at any time: each lasts one clock or more.  A frame  *)
(* is represented by the conversions its bits were taken from.             *)
(*                                                                         *)
(* The converter is outside the repository.  It presents a conversion with *)
(* each falling DRDY, at a rate of its own, and may do so once more after  *)
(* its clock is stopped or restart when it is synchronised.                *)
(***************************************************************************)
EXTENDS Integers, FiniteSets

CONSTANTS
  CntMod,   \* frame_cnt is a counter modulo this: 2^16
  MaxConv   \* bound: conversions in a behaviour

ASSUME ReceiverAssumption == CntMod \in Nat /\ CntMod >= 2 /\ MaxConv \in Nat

VARIABLES
  enable,     \* ctrl_reg[1]: acquisition enabled
  state,      \* state of the FSM
  shift,      \* shift_reg, as the conversions that its bits are of
  ch,         \* ch_data_0 .. ch_data_7, likewise
  new_data, frame_cnt, overflow,
  conv,       \* converter: the conversion it presents
  cut         \* history: acquisition was off at some clock of the frame in
              \* progress, or of the one latched last

receiver == <<enable, state, shift, ch, new_data, frame_cnt, overflow, conv, cut>>

-----------------------------------------------------------------------------

\* Mutant: a falling DRDY during the shift is taken for noise.
OverflowNextWaiting(fall) ==
  enable /\ (overflow \/ (fall /\ state = "wait"))

\* A conversion presented before the last one was read; disabling clears it.
OverflowNext(fall) ==
  enable /\ (overflow \/ (fall /\ state \in {"wait", "shift"}))

\* Counted at the latch, and held at 0 while disabled.
FrameCntNext ==
  IF ~enable THEN 0
  ELSE IF state = "latch" THEN (frame_cnt + 1) % CntMod ELSE frame_cnt

\* The FSM goes on when acquisition is disabled; it only starts when enabled.
StateNext(fall, done) ==
  CASE state = "idle" -> IF enable /\ fall THEN "wait" ELSE "idle"
    [] state = "wait" -> IF done THEN "shift" ELSE "wait"
    [] state = "shift" -> IF done THEN "latch" ELSE "shift"
    [] state = "latch" -> "idle"

\* The bits shifted in are of the conversion presented.
ShiftNext ==
  CASE state = "wait" -> {}
    [] state = "shift" -> shift \cup {conv}
    [] OTHER -> shift

\* One clock.  fall is drdy_fall; done says that the wait or the shift ends;
\* ctrl is the enable bit that a register write leaves.
ReceiverClock(fall, done, ctrl) ==
  /\ fall => conv < MaxConv
  /\ done => state \in {"wait", "shift"}
  /\ enable' = ctrl
  /\ state' = StateNext(fall, done)
  /\ shift' = ShiftNext
  /\ ch' = IF state = "latch" THEN shift ELSE ch
  /\ new_data' = (state = "latch")
  /\ frame_cnt' = FrameCntNext
  /\ overflow' = OverflowNext(fall)
  /\ conv' = IF fall THEN conv + 1 ELSE conv
  /\ cut' = ((state # "idle" /\ cut) \/ (state # "idle" /\ ~enable))

ReceiverInit ==
  /\ enable = FALSE /\ state = "idle" /\ shift = {} /\ ch = {}
  /\ new_data = FALSE /\ frame_cnt = 0 /\ overflow = FALSE
  /\ conv = 0 /\ cut = FALSE

-----------------------------------------------------------------------------

ReceiverTypeOK ==
  /\ enable \in BOOLEAN /\ state \in {"idle", "wait", "shift", "latch"}
  /\ shift \in SUBSET (0 .. MaxConv) /\ ch \in SUBSET (0 .. MaxConv)
  /\ new_data \in BOOLEAN /\ overflow \in BOOLEAN /\ cut \in BOOLEAN
  /\ frame_cnt \in 0 .. CntMod - 1 /\ conv \in 0 .. MaxConv

\* A frame that arrives without the overflow flag holds the bits of one
\* conversion, unless acquisition was switched off while it was received: that
\* clears the flag and lets the frame go on.
FrameIsWhole ==
  new_data /\ enable /\ ~overflow /\ ~cut => Cardinality(ch) = 1
===============================================================================
