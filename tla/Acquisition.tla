------------------------------ MODULE Acquisition ------------------------------
(***************************************************************************)
(* The way of a frame from the receiver to the record it becomes in DDR:   *)
(* the push and the drop counter of fpga/rtl/ads1278_acq_top.v, the FIFO   *)
(* of ads1278_frame_fifo.v and the serializer of ads1278_dma_fifo_axis.v,  *)
(* clock by clock with the Receiver.                                       *)
(*                                                                         *)
(* Software switches acquisition and DMA on and off at any clock.  The     *)
(* FIFO is cleared with the first and outlives the second; its output      *)
(* register outlives both.  The 32 words of a record take one clock or     *)
(* more: the writer behind the serializer may stall.                       *)
(***************************************************************************)
EXTENDS Receiver, Sequences

CONSTANT Depth   \* frames in the FIFO: 512

ASSUME DepthAssumption == Depth \in Nat \ {0}

VARIABLES
  dma,        \* writer_enable && capture_mode
  fifo,       \* mem between rd_ptr and wr_ptr
  dout,       \* the FIFO's output register
  drops,      \* fifo_drop_count_reg
  ser,        \* serializer: "idle", "load" (fifo_pop, load_frame), "send" (frame_active)
  record,     \* frame_reg
  last,       \* history: the record sent before in this arming
  kept        \* history: acquisition stayed on since before this arming

vars == <<receiver, dma, fifo, dout, drops, ser, record, last, kept>>

\* What is told apart of a frame: its count and, as history, the drop counter
\* when it was pushed, and whether acquisition was switched off after that.
Frames == [cnt : 0 .. CntMod - 1, drops : 0 .. MaxConv, old : BOOLEAN]

\* The registers before anything was popped, and no record.
Blank == [cnt |-> 0, drops |-> 0, old |-> TRUE]

Aged(f) == IF enable THEN f ELSE [f EXCEPT !.old = TRUE]

-----------------------------------------------------------------------------

Full == Len(fifo) = Depth

\* fifo_push
Push == enable /\ new_data

DoPush == Push /\ ~Full
DoPop == enable /\ ser = "load" /\ fifo # <<>>

FrameIn == [cnt |-> frame_cnt, drops |-> drops, old |-> FALSE]

\* Mutant: a frame is pushed into a full FIFO.
FifoNextOverfull ==
  IF ~enable THEN <<>>
  ELSE (IF DoPop THEN Tail(fifo) ELSE fifo) \o (IF Push THEN <<FrameIn>> ELSE <<>>)

FifoNext ==
  IF ~enable THEN <<>>
  ELSE (IF DoPop THEN Tail(fifo) ELSE fifo) \o (IF DoPush THEN <<FrameIn>> ELSE <<>>)

\* Mutant: a frame dropped while another is popped is not counted.
DropsNextUnread ==
  IF ~enable THEN 0 ELSE IF Push /\ Full /\ ~DoPop THEN drops + 1 ELSE drops

DropsNext ==
  IF ~enable THEN 0 ELSE IF Push /\ Full THEN drops + 1 ELSE drops

\* Popped into the output register, which no reset reaches.
DoutNext == IF DoPop THEN Head(fifo) ELSE Aged(dout)

SerNext(sent) ==
  IF ~dma THEN "idle"
  ELSE CASE ser = "idle" -> IF fifo # <<>> THEN "load" ELSE "idle"
         [] ser = "load" -> "send"
         [] ser = "send" -> IF sent THEN "idle" ELSE "send"

\* Mutant: a record is built from the head of the FIFO, which the pop removes.
RecordNextFromHead ==
  IF ~dma THEN Blank
  ELSE IF ser = "load" THEN (IF Len(fifo) > 1 THEN fifo[2] ELSE Aged(dout)) ELSE Aged(record)

\* The frame is loaded in the clock of the pop, before the pop reaches dout.
RecordNext ==
  IF ~dma THEN Blank ELSE IF ser = "load" THEN Aged(dout) ELSE Aged(record)

\* The last beat of a record.
Sends(sent) == dma /\ ser = "send" /\ sent

LastNext(sent) ==
  IF ~dma THEN Blank ELSE IF Sends(sent) THEN Aged(record) ELSE Aged(last)

Clock(fall, done, sent, ctrl, dmaCtrl) ==
  /\ ReceiverClock(fall, done, ctrl)
  /\ sent => ser = "send"
  /\ dma' = dmaCtrl
  /\ fifo' = FifoNext
  /\ drops' = DropsNext
  /\ dout' = DoutNext
  /\ ser' = SerNext(sent)
  /\ record' = RecordNext
  /\ last' = LastNext(sent)
  /\ kept' = (enable /\ (kept \/ ~dma))

\* Software writes at most one register in a clock.
Next ==
  \E fall, done, sent, ctrl, dmaCtrl \in BOOLEAN :
    /\ ctrl = enable \/ dmaCtrl = dma
    /\ Clock(fall, done, sent, ctrl, dmaCtrl)

Init ==
  /\ ReceiverInit
  /\ dma = FALSE /\ fifo = <<>> /\ dout = Blank /\ drops = 0
  /\ ser = "idle" /\ record = Blank /\ last = Blank /\ kept = FALSE

Spec == Init /\ [][Next]_vars

-----------------------------------------------------------------------------

\* Every variable holds a value of its kind.
TypeOK ==
  /\ ReceiverTypeOK
  /\ dma \in BOOLEAN /\ kept \in BOOLEAN
  /\ fifo \in Seq(Frames) /\ Len(fifo) <= Depth
  /\ dout \in Frames /\ record \in Frames /\ last \in Frames
  /\ drops \in 0 .. MaxConv /\ ser \in {"idle", "load", "send"}

\* g comes after f with nothing lost in between but what the drop counter says.
Follows(f, g) == (g.cnt - f.cnt) % CntMod = (1 + g.drops - f.drops) % CntMod

\* Of two records sent in a row, both of the acquisition that still goes on, the
\* second is the next frame, or FIFO_DROPS counts what is missing: within an
\* arming the FIFO and the serializer lose, double and reorder nothing, at
\* whatever clocks pushes and pops meet.
RecordsFollow ==
  ser = "send" /\ enable /\ ~record.old /\ ~last.old => Follows(last, record)

\* The frames waiting in the FIFO follow one another, and the first of them
\* follows the frame popped last, unless an earlier acquisition left that one.
StagedInOrder ==
  enable =>
    /\ \A i \in 1 .. Len(fifo) - 1 : Follows(fifo[i], fifo[i + 1])
    /\ fifo # <<>> /\ ~dout.old => Follows(dout, fifo[1])

-----------------------------------------------------------------------------
(* What docs/feats/dma-frame-record.md promises and the serializer does not   *)
(* keep.                                                                      *)

\* "frame_count should increase by 1 between consecutive valid records."  The
\* first record of an arming is the frame popped last before it, although
\* acquisition may have been switched off and on since: with acquisition on
\* throughout the arming, and nothing dropped, the count still jumps.
CountsOnByOne ==
  ser = "send" /\ kept /\ drops = 0 /\ last # Blank =>
    record.cnt = (last.cnt + 1) % CntMod
===============================================================================
