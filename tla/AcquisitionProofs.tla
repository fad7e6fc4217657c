--------------------------- MODULE AcquisitionProofs ---------------------------
(***************************************************************************)
(* The way of a frame into its record, for every depth of the FIFO, every  *)
(* counter width and any number of conversions.                            *)
(*                                                                         *)
(* The frames form a line: the record sent last, the one being sent, the   *)
(* output register, the FIFO, and the frame the receiver hands over next.  *)
(* Each step moves frames along the line; a drop widens the one gap at its *)
(* end, and switching acquisition off makes every frame in it old.  That   *)
(* the gaps are what the drop counter says is arithmetic modulo the width  *)
(* of the frame counter.                                                   *)
(***************************************************************************)
EXTENDS Acquisition, FiniteSetTheorems, SequenceTheorems, TLAPS

\* While a frame is received unhurt, its bits are of the conversion presented.
WholeInv ==
  ~overflow /\ ~cut =>
    /\ state = "shift" => shift \subseteq {conv}
    /\ state = "latch" => \E c \in 0 .. MaxConv : shift = {c}
    /\ new_data => \E c \in 0 .. MaxConv : ch = {c}

\* Every drop takes a conversion, and so do the frame being received and the one
\* being pushed.
DropsInv ==
  /\ new_data => state = "idle"
  /\ drops + (IF new_data \/ state # "idle" THEN 1 ELSE 0) <= conv

\* The frames of s follow each other and, unless that is old, the frame d.
Line(s, d) ==
  /\ \A i \in 1 .. Len(s) : ~s[i].old
  /\ \A i \in 1 .. Len(s) - 1 : Follows(s[i], s[i + 1])
  /\ s # <<>> /\ ~d.old => Follows(d, s[1])

\* The frame at the end of that line.
Newest(s, d) == IF s = <<>> THEN d ELSE s[Len(s)]

\* What is counted since frame f is the frame to be pushed, if there is one, and
\* the drops.
Due(f) ==
  (frame_cnt - f.cnt) % CntMod
    = ((IF new_data THEN 1 ELSE 0) + drops - f.drops) % CntMod

LineInv ==
  /\ Line(fifo, dout)
  /\ ~Newest(fifo, dout).old => Due(Newest(fifo, dout))

\* The serializer loads the frame popped before, and finds the FIFO empty then
\* only when it was cleared.
RecordInv ==
  /\ ser = "load" /\ ~dout.old => fifo # <<>>
  /\ ~record.old => ~dout.old /\ Follows(record, dout)
  /\ ~last.old =>
       /\ ser # "send" => last = record
       /\ ser = "send" /\ ~record.old => Follows(last, record)

IInv == TypeOK /\ DropsInv /\ WholeInv /\ LineInv /\ RecordInv

-----------------------------------------------------------------------------
(* Arithmetic modulo the width of the frame counter. *)

\* A quotient and a remainder are unique.
LEMMA RemainderUnique ==
  ASSUME NEW p \in Int, NEW q \in Int,
         NEW r \in 0 .. CntMod - 1, NEW s \in 0 .. CntMod - 1,
         CntMod * p + r = CntMod * q + s
  PROVE  r = s
<1>1. CntMod * (p - q) = s - r /\ CntMod * (q - p) = r - s
  BY ReceiverAssumption
<1>2. \A k \in Int : k >= 1 => CntMod * k >= CntMod
  BY ReceiverAssumption
<1>3. CASE p - q >= 1
  BY <1>1, <1>2, <1>3, ReceiverAssumption
<1>4. CASE q - p >= 1
  BY <1>1, <1>2, <1>4, ReceiverAssumption
<1>5. CASE p = q
  BY <1>1, <1>5, ReceiverAssumption
<1> QED
  BY <1>3, <1>4, <1>5

LEMMA Division ==
  ASSUME NEW a \in Int
  PROVE  /\ a % CntMod \in 0 .. CntMod - 1 /\ a \div CntMod \in Int
         /\ a = CntMod * (a \div CntMod) + (a % CntMod)
BY ReceiverAssumption

LEMMA SubtractModulus ==
  ASSUME NEW a \in Int
  PROVE  (a - CntMod) % CntMod = a % CntMod
<1> DEFINE p == a \div CntMod
           q == (a - CntMod) \div CntMod
<1>1. a = CntMod * p + (a % CntMod) /\ a % CntMod \in 0 .. CntMod - 1 /\ p \in Int
  BY Division
<1>2. /\ a - CntMod = CntMod * q + ((a - CntMod) % CntMod)
      /\ (a - CntMod) % CntMod \in 0 .. CntMod - 1 /\ q \in Int
  <2>1. a - CntMod \in Int
    BY ReceiverAssumption
  <2> QED
    BY <2>1, Division
<1> HIDE DEF p, q
<1>3. CntMod * (q + 1) = CntMod * q + CntMod
  BY <1>2, ReceiverAssumption
<1>4. CntMod * p + (a % CntMod) = CntMod * (q + 1) + ((a - CntMod) % CntMod)
  BY <1>1, <1>2, <1>3, ReceiverAssumption
<1>5. q + 1 \in Int
  BY <1>2
<1> QED
  BY <1>1, <1>2, <1>4, <1>5, RemainderUnique

LEMMA AddToBoth ==
  ASSUME NEW a \in Int, NEW b \in Int, NEW d \in Int, a % CntMod = b % CntMod
  PROVE  (a + d) % CntMod = (b + d) % CntMod
<1> DEFINE p == a \div CntMod
           q == b \div CntMod
           s == (a + d) \div CntMod
           t == (b + d) \div CntMod
           r == a % CntMod
           u == (a + d) % CntMod
           v == (b + d) % CntMod
<1>1. /\ a = CntMod * p + r /\ b = CntMod * q + r
      /\ a + d = CntMod * s + u /\ b + d = CntMod * t + v
  BY Division
<1>2. /\ p \in Int /\ q \in Int /\ s \in Int /\ t \in Int
      /\ r \in 0 .. CntMod - 1 /\ u \in 0 .. CntMod - 1 /\ v \in 0 .. CntMod - 1
  BY Division
<1> HIDE DEF p, q, r, s, t, u, v
<1>3. CntMod * (s - p + q) = CntMod * s - CntMod * p + CntMod * q
  BY <1>2, ReceiverAssumption
<1>4. CntMod * s - CntMod * p + CntMod * q + u = CntMod * t + v
  <2> DEFINE cp == CntMod * p
             cq == CntMod * q
             cs == CntMod * s
             ct == CntMod * t
  <2>1. cp \in Int /\ cq \in Int /\ cs \in Int /\ ct \in Int
    BY <1>2, ReceiverAssumption
  <2>2. a = cp + r /\ b = cq + r /\ a + d = cs + u /\ b + d = ct + v
    BY <1>1
  <2>3. r \in Int /\ u \in Int /\ v \in Int
    BY <1>2, ReceiverAssumption
  <2> HIDE DEF cp, cq, cs, ct
  <2>4. cs - cp + cq + u = ct + v
    BY <2>1, <2>2, <2>3
  <2> QED
    BY <2>4 DEF cp, cq, cs, ct
<1>5. s - p + q \in Int
  BY <1>2
<1>6. u = v
  BY <1>2, <1>3, <1>4, <1>5, RemainderUnique
<1> QED
  BY <1>6 DEF u, v

\* The frame counter counts on by one, across its wrap.
LEMMA CountOn ==
  ASSUME NEW x \in 0 .. CntMod - 1, NEW a \in Int, NEW b \in Int,
         (x - a) % CntMod = b % CntMod
  PROVE  /\ (x + 1) % CntMod \in 0 .. CntMod - 1
         /\ (((x + 1) % CntMod) - a) % CntMod = (b + 1) % CntMod
<1>1. x \in Int /\ x - a \in Int /\ x + 1 \in Int /\ x + 1 - a \in Int /\ CntMod \in Int
  BY ReceiverAssumption
<1>2. (x + 1 - a) % CntMod = (b + 1) % CntMod
  <2> DEFINE y == x - a
  <2>1. y \in Int /\ y % CntMod = b % CntMod
    BY <1>1
  <2>2. x + 1 - a = y + 1
    BY <1>1
  <2> HIDE DEF y
  <2>3. (y + 1) % CntMod = (b + 1) % CntMod
    BY <2>1, AddToBoth
  <2> QED
    BY <2>2, <2>3
<1>3. CASE x + 1 < CntMod
  <2>1. (x + 1) % CntMod = x + 1
    BY <1>1, <1>3, ReceiverAssumption
  <2> QED
    BY <1>1, <1>2, <1>3, <2>1
<1>4. CASE x + 1 = CntMod
  <2>1. (x + 1) % CntMod = 0
    BY <1>1, <1>4, ReceiverAssumption
  <2>2. (x + 1 - a) - CntMod = 0 - a
    BY <1>1, <1>4
  <2>3. (0 - a) % CntMod = (x + 1 - a) % CntMod
    BY <1>1, <2>2, SubtractModulus
  <2> QED
    BY <1>1, <1>2, <2>1, <2>3, ReceiverAssumption
<1> QED
  BY <1>1, <1>3, <1>4

-----------------------------------------------------------------------------
(* The receiver. *)

LEMMA InitInv == Init => IInv
<1> SUFFICES ASSUME Init PROVE IInv
  OBVIOUS
<1>1. fifo = <<>> /\ fifo \in Seq(Frames) /\ Len(fifo) = 0
  BY EmptySeq DEF Init
<1>2. Blank \in Frames /\ Blank.old
  BY ReceiverAssumption DEF Blank, Frames
<1>3. /\ enable \in BOOLEAN /\ new_data \in BOOLEAN /\ overflow \in BOOLEAN /\ cut \in BOOLEAN
      /\ dma \in BOOLEAN /\ kept \in BOOLEAN
  BY DEF Init, ReceiverInit
<1>4. TypeOK
  BY <1>1, <1>2, <1>3, ReceiverAssumption, DepthAssumption
     DEF Init, ReceiverInit, TypeOK, ReceiverTypeOK
<1>5. DropsInv /\ WholeInv
  BY DEF Init, ReceiverInit, DropsInv, WholeInv
<1>6. LineInv
  BY <1>1, <1>2 DEF Init, LineInv, Line, Newest
<1>7. RecordInv
  BY <1>2 DEF Init, RecordInv
<1> QED
  BY <1>4, <1>5, <1>6, <1>7 DEF IInv

LEMMA ReceiverType ==
  ASSUME ReceiverTypeOK, NEW fall \in BOOLEAN, NEW done \in BOOLEAN, NEW ctrl \in BOOLEAN,
         ReceiverClock(fall, done, ctrl)
  PROVE  ReceiverTypeOK'
<1> USE DEF ReceiverTypeOK, ReceiverClock
<1>1. enable' \in BOOLEAN /\ state' \in {"idle", "wait", "shift", "latch"}
  BY DEF StateNext
<1>2. shift' \in SUBSET (0 .. MaxConv) /\ ch' \in SUBSET (0 .. MaxConv)
  BY DEF ShiftNext
<1>3. new_data' \in BOOLEAN
  BY ReceiverAssumption
<1>4. overflow' \in BOOLEAN
  BY DEF OverflowNext
<1>5. cut' \in BOOLEAN
  BY ReceiverAssumption
<1>6. frame_cnt' \in 0 .. CntMod - 1
  BY ReceiverAssumption DEF FrameCntNext
<1>7. conv' \in 0 .. MaxConv
  BY ReceiverAssumption
<1> QED
  BY <1>1, <1>2, <1>3, <1>4, <1>5, <1>6, <1>7

\* A falling DRDY during the wait or the shift raises the flag, so without it the
\* bits are of one conversion; switching acquisition off clears it and marks the
\* frame.
LEMMA WholeStep ==
  ASSUME ReceiverTypeOK, WholeInv,
         NEW fall \in BOOLEAN, NEW done \in BOOLEAN, NEW ctrl \in BOOLEAN,
         ReceiverClock(fall, done, ctrl)
  PROVE  WholeInv'
<1> SUFFICES ASSUME ~overflow', ~cut' PROVE WholeInv'
  BY DEF WholeInv
<1> USE DEF ReceiverTypeOK, ReceiverClock
<1>1. state # "idle" => enable /\ ~cut
  OBVIOUS
<1>2. state \in {"wait", "shift"} => ~overflow /\ ~fall
  BY <1>1 DEF OverflowNext
<1>3. state = "latch" => ~overflow
  BY <1>1 DEF OverflowNext
<1>4. ASSUME state' = "shift" PROVE shift' \subseteq {conv'}
  <2>1. state \in {"wait", "shift"}
    BY <1>4 DEF StateNext
  <2>2. conv' = conv
    BY <1>2, <2>1
  <2>3. CASE state = "wait"
    BY <2>3 DEF ShiftNext
  <2>4. CASE state = "shift"
    BY <1>1, <1>2, <2>2, <2>4 DEF ShiftNext, WholeInv
  <2> QED
    BY <2>1, <2>3, <2>4
<1>5. ASSUME state' = "latch" PROVE \E c \in 0 .. MaxConv : shift' = {c}
  <2>1. state = "shift"
    BY <1>5 DEF StateNext
  <2>2. shift' = {conv}
    BY <1>1, <1>2, <2>1 DEF ShiftNext, WholeInv
  <2> QED
    BY <2>2
<1>6. ASSUME new_data' PROVE \E c \in 0 .. MaxConv : ch' = {c}
  <2>1. state = "latch"
    BY <1>6
  <2> QED
    BY <1>1, <1>3, <2>1 DEF WholeInv
<1> QED
  BY <1>4, <1>5, <1>6 DEF WholeInv

-----------------------------------------------------------------------------
(* The FIFO and what was popped from it. *)

LEMMA AgedType ==
  ASSUME TypeOK, NEW f \in Frames
  PROVE  /\ Aged(f) \in Frames
         /\ enable => Aged(f) = f
         /\ ~enable => Aged(f).old
BY DEF Aged, Frames

\* The line after a pop: what was its first frame is in the output register.
LEMMA PopLine ==
  ASSUME NEW s \in Seq(Frames), s # <<>>, NEW d, Line(s, d)
  PROVE  /\ Line(Tail(s), Head(s)) /\ ~Head(s).old
         /\ Newest(Tail(s), Head(s)) = Newest(s, d)
<1> DEFINE t == Tail(s)
<1>1. /\ Len(s) \in Nat \ {0} /\ t \in Seq(Frames) /\ Len(t) = Len(s) - 1
      /\ \A i \in 1 .. Len(t) : t[i] = s[i + 1]
      /\ Head(s) = s[1]
  BY EmptySeq, HeadTailProperties
<1>2. t = <<>> <=> Len(t) = 0
  BY <1>1, EmptySeq
<1> HIDE DEF t
<1>3. ASSUME NEW i \in 1 .. Len(t) PROVE ~t[i].old
  <2>1. i + 1 \in 1 .. Len(s) /\ t[i] = s[i + 1]
    BY <1>1
  <2> QED
    BY <2>1 DEF Line
<1>4. ASSUME NEW i \in 1 .. Len(t) - 1 PROVE Follows(t[i], t[i + 1])
  <2>1. /\ i + 1 \in 1 .. Len(s) - 1 /\ i \in 1 .. Len(t) /\ i + 1 \in 1 .. Len(t)
    BY <1>1
  <2>2. t[i] = s[i + 1] /\ t[i + 1] = s[(i + 1) + 1]
    BY <1>1, <2>1
  <2> QED
    BY <2>1, <2>2 DEF Line
<1>5. ASSUME t # <<>> PROVE Follows(s[1], t[1])
  <2>1. 1 \in 1 .. Len(t) /\ 1 \in 1 .. Len(s) - 1
    BY <1>1, <1>2, <1>5
  <2>2. t[1] = s[1 + 1]
    BY <1>1, <2>1
  <2> QED
    BY <2>1, <2>2 DEF Line
<1>6. 1 \in 1 .. Len(s)
  BY <1>1
<1>7. Newest(t, s[1]) = Newest(s, d)
  <2>1. CASE t = <<>>
    <3>1. Len(s) = 1 /\ s # <<>>
      BY <1>1, <1>2, <2>1
    <3> QED
      BY <2>1, <3>1 DEF Newest
  <2>2. CASE t # <<>>
    <3>1. Len(t) \in 1 .. Len(t) /\ Len(t) + 1 = Len(s)
      BY <1>1, <1>2, <2>2
    <3>2. t[Len(t)] = s[Len(s)]
      BY <1>1, <3>1
    <3> QED
      BY <2>2, <3>2 DEF Newest
  <2> QED
    BY <2>1, <2>2
<1> QED
  BY <1>1, <1>3, <1>4, <1>5, <1>6, <1>7 DEF Line, t

\* The line after a push of the frame that is next.
LEMMA PushLine ==
  ASSUME NEW s \in Seq(Frames), NEW d, NEW f \in Frames, Line(s, d), ~f.old,
         ~Newest(s, d).old => Follows(Newest(s, d), f)
  PROVE  Line(Append(s, f), d) /\ Newest(Append(s, f), d) = f
<1> DEFINE t == Append(s, f)
<1>1. /\ Len(s) \in Nat /\ t \in Seq(Frames) /\ Len(t) = Len(s) + 1
      /\ \A i \in 1 .. Len(s) : t[i] = s[i]
      /\ t[Len(s) + 1] = f
      /\ s = <<>> <=> Len(s) = 0
  BY EmptySeq, LenProperties, AppendProperties
<1>2. t # <<>>
  BY <1>1, EmptySeq
<1> HIDE DEF t
<1>3. ASSUME NEW i \in 1 .. Len(t) PROVE ~t[i].old
  <2>1. CASE i \in 1 .. Len(s)
    BY <1>1, <2>1 DEF Line
  <2>2. CASE i = Len(s) + 1
    BY <1>1, <2>2
  <2> QED
    BY <1>1, <2>1, <2>2
<1>4. ASSUME NEW i \in 1 .. Len(t) - 1 PROVE Follows(t[i], t[i + 1])
  <2>1. CASE i \in 1 .. Len(s) - 1
    <3>1. i \in 1 .. Len(s) /\ i + 1 \in 1 .. Len(s)
      BY <1>1, <2>1
    <3>2. t[i] = s[i] /\ t[i + 1] = s[i + 1]
      BY <1>1, <3>1
    <3> QED
      BY <2>1, <3>2 DEF Line
  <2>2. CASE i = Len(s)
    <3>1. Len(s) \in 1 .. Len(s) /\ s # <<>>
      BY <1>1, <2>2
    <3>2. t[i] = s[Len(s)] /\ t[i + 1] = f
      BY <1>1, <2>2, <3>1
    <3>3. Newest(s, d) = s[Len(s)] /\ ~s[Len(s)].old
      BY <3>1 DEF Newest, Line
    <3> QED
      BY <3>2, <3>3
  <2> QED
    BY <1>1, <2>1, <2>2
<1>5. ASSUME ~d.old PROVE Follows(d, t[1])
  <2>1. CASE s = <<>>
    BY <1>1, <1>5, <2>1 DEF Newest
  <2>2. CASE s # <<>>
    <3>1. 1 \in 1 .. Len(s)
      BY <1>1, <2>2
    <3>2. t[1] = s[1]
      BY <1>1, <3>1
    <3> QED
      BY <1>5, <2>2, <3>2 DEF Line
  <2> QED
    BY <2>1, <2>2
<1> QED
  BY <1>1, <1>2, <1>3, <1>4, <1>5 DEF Line, Newest, t

\* The frame handed over follows the newest one in the line.
LEMMA PushedIsNext ==
  ASSUME LineInv, DoPush
  PROVE  ~Newest(fifo, dout).old => Follows(Newest(fifo, dout), FrameIn)
BY DEF LineInv, Due, DoPush, Push, Follows, FrameIn

\* What a clock does to the line while acquisition is on.
LEMMA LineStep ==
  ASSUME TypeOK, LineInv, enable, fifo' = FifoNext, dout' = DoutNext
  PROVE  /\ fifo' \in Seq(Frames) /\ Len(fifo') <= Depth /\ dout' \in Frames
         /\ Line(fifo', dout')
         /\ Newest(fifo', dout') = IF DoPush THEN FrameIn ELSE Newest(fifo, dout)
         /\ ~DoPop => dout' = dout
         /\ DoPop => dout' = fifo[1] /\ ~dout'.old
<1> DEFINE P == IF DoPop THEN Tail(fifo) ELSE fifo
           D == IF DoPop THEN Head(fifo) ELSE dout
<1>1. /\ fifo \in Seq(Frames) /\ Len(fifo) \in Nat /\ Len(fifo) <= Depth
      /\ dout \in Frames /\ Line(fifo, dout) /\ Depth \in Nat
      /\ DoPop => fifo # <<>>
      /\ Head(fifo) = fifo[1]
  BY LenProperties, DepthAssumption DEF TypeOK, LineInv, DoPop
<1>2. dout' = D
  BY <1>1, AgedType DEF DoutNext
<1>3. /\ P \in Seq(Frames) /\ Len(P) \in Nat /\ Len(P) <= Len(fifo) /\ D \in Frames
      /\ Line(P, D) /\ Newest(P, D) = Newest(fifo, dout)
      /\ DoPop => ~D.old
  <2>1. CASE DoPop
    BY <1>1, <2>1, HeadTailProperties, LenProperties, PopLine
  <2>2. CASE ~DoPop
    BY <1>1, <2>2
  <2> QED
    BY <2>1, <2>2
<1>4. fifo' = P \o (IF DoPush THEN <<FrameIn>> ELSE <<>>)
  BY DEF FifoNext
<1>5. DoPop => D = fifo[1]
  BY <1>1
<1>6. ~DoPop => D = dout
  OBVIOUS
<1> HIDE DEF P, D
<1>7. CASE DoPush
  <2>1. FrameIn \in Frames /\ ~FrameIn.old
    BY DEF TypeOK, ReceiverTypeOK, FrameIn, Frames
  <2>2. fifo' = Append(P, FrameIn)
    BY <1>3, <1>4, <1>7, <2>1
  <2>3. fifo' \in Seq(Frames) /\ Len(fifo') = Len(P) + 1
    BY <1>3, <2>1, <2>2, AppendProperties
  <2>4. Len(fifo) # Depth
    BY <1>7 DEF DoPush, Full
  <2>5. Line(fifo', D) /\ Newest(fifo', D) = FrameIn
    BY <1>3, <1>7, <2>1, <2>2, PushedIsNext, PushLine
  <2> QED
    BY <1>1, <1>2, <1>3, <1>5, <1>6, <1>7, <2>3, <2>4, <2>5
<1>8. CASE ~DoPush
  <2>1. fifo' = P
    BY <1>3, <1>4, <1>8, ConcatEmptySeq
  <2> QED
    BY <1>1, <1>2, <1>3, <1>5, <1>6, <1>8, <2>1
<1> QED
  BY <1>7, <1>8

\* The frame counter and the drop counter count what is due, and nothing is due
\* to the frame that was just pushed.
LEMMA DueStep ==
  ASSUME TypeOK, DropsInv, enable, NEW fall \in BOOLEAN, NEW done \in BOOLEAN,
         NEW ctrl \in BOOLEAN, ReceiverClock(fall, done, ctrl), drops' = DropsNext,
         NEW f \in Frames, IF DoPush THEN f = FrameIn ELSE Due(f)
  PROVE  (frame_cnt' - f.cnt) % CntMod
           = ((IF new_data' THEN 1 ELSE 0) + drops' - f.drops) % CntMod
<1>1. /\ frame_cnt \in 0 .. CntMod - 1 /\ drops \in Int /\ frame_cnt \in Int
      /\ f.cnt \in Int /\ f.drops \in Int
      /\ frame_cnt' = IF state = "latch" THEN (frame_cnt + 1) % CntMod ELSE frame_cnt
      /\ new_data' = (state = "latch")
      /\ new_data => state # "latch"
  BY ReceiverAssumption
     DEF TypeOK, ReceiverTypeOK, Frames, ReceiverClock, FrameCntNext, DropsInv
<1>2. CASE DoPush
  <2>1. new_data' = FALSE /\ frame_cnt' = frame_cnt /\ drops' = drops
    BY <1>1, <1>2 DEF DoPush, Push, DropsNext
  <2>2. f.cnt = frame_cnt /\ f.drops = drops
    BY <1>2 DEF FrameIn
  <2>3. frame_cnt' - f.cnt = 0 /\ 0 + drops' - f.drops = 0
    BY <1>1, <2>1, <2>2
  <2> QED
    BY <2>1, <2>3
<1>3. CASE new_data /\ ~DoPush
  <2>1. new_data' = FALSE /\ frame_cnt' = frame_cnt /\ drops' = drops + 1
    BY <1>1, <1>3 DEF DoPush, Push, DropsNext
  <2>2. (frame_cnt - f.cnt) % CntMod = (1 + drops - f.drops) % CntMod
    BY <1>3 DEF Due
  <2>3. 0 + drops' - f.drops = 1 + drops - f.drops
    BY <1>1, <2>1
  <2> QED
    BY <2>1, <2>2, <2>3
<1>4. CASE ~new_data
  <2>1. drops' = drops /\ ~DoPush
    BY <1>4 DEF DoPush, Push, DropsNext
  <2>2. (frame_cnt - f.cnt) % CntMod = (0 + drops - f.drops) % CntMod
    BY <1>4, <2>1 DEF Due
  <2>3. CASE state = "latch"
    <3> DEFINE b == 0 + drops - f.drops
    <3>1. b \in Int /\ b + 1 = 1 + drops' - f.drops
      BY <1>1, <2>1
    <3> HIDE DEF b
    <3>2. (frame_cnt - f.cnt) % CntMod = b % CntMod
      BY <2>2 DEF b
    <3>3. (((frame_cnt + 1) % CntMod) - f.cnt) % CntMod = (b + 1) % CntMod
      BY <1>1, <3>1, <3>2, CountOn
    <3> QED
      BY <1>1, <2>3, <3>1, <3>3
  <2>4. CASE state # "latch"
    BY <1>1, <2>1, <2>2, <2>4
  <2> QED
    BY <2>3, <2>4
<1> QED
  BY <1>2, <1>3, <1>4

-----------------------------------------------------------------------------
(* The whole clock. *)

LEMMA TypeStep == TypeOK /\ DropsInv /\ LineInv /\ [Next]_vars => TypeOK' /\ DropsInv'
<1> SUFFICES ASSUME TypeOK, DropsInv, LineInv, [Next]_vars PROVE TypeOK' /\ DropsInv'
  OBVIOUS
<1>1. CASE UNCHANGED vars
  BY <1>1 DEF vars, receiver, TypeOK, ReceiverTypeOK, DropsInv
<1>2. CASE Next
  <2>1. PICK fall, done, sent, ctrl, dmaCtrl \in BOOLEAN :
          Clock(fall, done, sent, ctrl, dmaCtrl)
    BY <1>2 DEF Next
  <2>2. ReceiverTypeOK' /\ ReceiverClock(fall, done, ctrl)
    BY <2>1, ReceiverType DEF Clock, TypeOK
  <2>3. dma' \in BOOLEAN
    BY <2>1 DEF Clock
  <2>4. kept' \in BOOLEAN
    BY <2>1 DEF Clock
  <2>5. ser' \in {"idle", "load", "send"}
    BY <2>1 DEF Clock, SerNext, TypeOK
  <2>6. fifo' \in Seq(Frames) /\ Len(fifo') <= Depth /\ dout' \in Frames
    <3>1. CASE enable
      BY <2>1, <3>1, LineStep DEF Clock
    <3>2. CASE ~enable
      <4>1. fifo' = <<>> /\ dout' = Aged(dout)
        BY <2>1, <3>2 DEF Clock, FifoNext, DoutNext, DoPop
      <4>2. dout' \in Frames
        BY <4>1, AgedType DEF TypeOK
      <4> QED
        BY <4>1, <4>2, EmptySeq, DepthAssumption
    <3> QED
      BY <3>1, <3>2
  <2>7. record' \in Frames /\ last' \in Frames
    <3>1. Blank \in Frames
      BY ReceiverAssumption DEF Blank, Frames
    <3> QED
      BY <2>1, <3>1, AgedType DEF Clock, RecordNext, LastNext, TypeOK
  <2>8. new_data' => state' = "idle"
    BY <2>2 DEF ReceiverClock, StateNext
  <2>9. /\ drops' \in Nat /\ drops' <= conv'
        /\ drops' + (IF new_data' \/ state' # "idle" THEN 1 ELSE 0) <= conv'
    <3>1. /\ drops \in Nat /\ conv \in Nat
          /\ drops' = DropsNext /\ conv' = IF fall THEN conv + 1 ELSE conv
      BY <2>1, ReceiverAssumption DEF TypeOK, ReceiverTypeOK, Clock, ReceiverClock
    <3>2. drops' \in Nat /\ drops' <= drops + (IF new_data THEN 1 ELSE 0)
      BY <3>1 DEF DropsNext, Push
    <3>3. new_data' \/ state' # "idle" => state # "idle" \/ fall
      BY <2>2 DEF ReceiverClock, StateNext
    <3> QED
      BY <3>1, <3>2, <3>3 DEF DropsInv
  <2>10. drops' \in 0 .. MaxConv
    <3>1. conv' \in 0 .. MaxConv /\ MaxConv \in Nat
      BY <2>2, ReceiverAssumption DEF ReceiverTypeOK
    <3> QED
      BY <2>9, <3>1
  <2> QED
    BY <2>2, <2>3, <2>4, <2>5, <2>6, <2>7, <2>8, <2>9, <2>10 DEF TypeOK, DropsInv
<1> QED
  BY <1>1, <1>2

LEMMA LineInvStep == IInv /\ [Next]_vars => LineInv'
<1> SUFFICES ASSUME IInv, [Next]_vars PROVE LineInv'
  OBVIOUS
<1> USE DEF IInv
<1>1. CASE UNCHANGED vars
  BY <1>1 DEF vars, receiver, LineInv, Line, Newest, Follows, Due
<1>2. CASE Next
  <2>1. PICK fall, done, sent, ctrl, dmaCtrl \in BOOLEAN :
          Clock(fall, done, sent, ctrl, dmaCtrl)
    BY <1>2 DEF Next
  <2>2. /\ ReceiverClock(fall, done, ctrl) /\ fifo' = FifoNext /\ dout' = DoutNext
        /\ drops' = DropsNext
    BY <2>1 DEF Clock
  <2>3. CASE ~enable
    <3>1. fifo' = <<>> /\ dout' = Aged(dout) /\ dout'.old
      BY <2>2, <2>3, AgedType DEF FifoNext, DoutNext, DoPop, TypeOK
    <3>2. Len(fifo') = 0
      BY <3>1, EmptySeq
    <3> QED
      BY <3>1, <3>2 DEF LineInv, Line, Newest
  <2>4. CASE enable
    <3> DEFINE n == Newest(fifo', dout')
    <3>1. /\ Line(fifo', dout') /\ fifo' \in Seq(Frames) /\ dout' \in Frames
          /\ n = IF DoPush THEN FrameIn ELSE Newest(fifo, dout)
      BY <2>2, <2>4, LineStep
    <3>2. n \in Frames
      BY <3>1, EmptySeq, ElementOfSeq DEF Newest
    <3> HIDE DEF n
    <3>3. ASSUME ~n.old
          PROVE  (frame_cnt' - n.cnt) % CntMod
                   = ((IF new_data' THEN 1 ELSE 0) + drops' - n.drops) % CntMod
      <4>1. IF DoPush THEN n = FrameIn ELSE Due(n)
        BY <3>1, <3>3 DEF LineInv
      <4> QED
        BY <2>2, <2>4, <3>2, <4>1, DueStep
    <3> QED
      BY <3>1, <3>3 DEF LineInv, Line, Newest, Due, Follows, n
  <2> QED
    BY <2>3, <2>4
<1> QED
  BY <1>1, <1>2

LEMMA RecordStep == IInv /\ [Next]_vars => RecordInv'
<1> SUFFICES ASSUME IInv, [Next]_vars PROVE RecordInv'
  OBVIOUS
<1> USE DEF IInv
<1>1. CASE UNCHANGED vars
  BY <1>1 DEF vars, RecordInv, Follows
<1>2. CASE Next
  <2>1. PICK fall, done, sent, ctrl, dmaCtrl \in BOOLEAN :
          Clock(fall, done, sent, ctrl, dmaCtrl)
    BY <1>2 DEF Next
  <2>2. /\ fifo' = FifoNext /\ dout' = DoutNext /\ ser' = SerNext(sent)
        /\ record' = RecordNext /\ last' = LastNext(sent) /\ (sent => ser = "send")
        /\ dout \in Frames /\ record \in Frames /\ last \in Frames
        /\ ser \in {"idle", "load", "send"}
        /\ Blank.old
    BY <2>1 DEF Clock, TypeOK, Blank
  <2>3. CASE ~enable
    <3>1. dout'.old
      BY <2>2, <2>3, AgedType DEF DoutNext, DoPop
    <3>2. record'.old /\ last'.old
      BY <2>2, <2>3, AgedType DEF RecordNext, LastNext
    <3> QED
      BY <3>1, <3>2 DEF RecordInv
  <2>4. CASE enable /\ ~dma
    <3>1. ser' = "idle" /\ record'.old /\ last'.old
      BY <2>2, <2>4 DEF SerNext, RecordNext, LastNext
    <3> QED
      BY <3>1 DEF RecordInv
  <2>5. CASE enable /\ dma
    <3>1. Aged(dout) = dout /\ Aged(record) = record /\ Aged(last) = last
      BY <2>2, <2>5, AgedType
    <3>2. CASE ser = "load"
      <4>1. ser' = "send" /\ record' = dout /\ last' = last
        BY <2>2, <2>5, <3>1, <3>2 DEF SerNext, RecordNext, LastNext, Sends
      <4>2. ~dout.old => /\ DoPop /\ dout' = fifo[1] /\ ~dout'.old
                         /\ Follows(dout, dout')
        BY <2>2, <2>5, <3>2, LineStep DEF RecordInv, DoPop, LineInv, Line
      <4>3. ~last.old /\ ~dout.old => Follows(last, dout)
        BY <3>2 DEF RecordInv
      <4>4. ser' # "load"
        BY <4>1
      <4> QED
        BY <4>1, <4>2, <4>3 DEF RecordInv, Follows
    <3>3. CASE ser = "send"
      <4>1. /\ record' = record /\ dout' = dout
            /\ \/ sent /\ ser' = "idle" /\ last' = record
               \/ ser' = "send" /\ last' = last
        BY <2>2, <2>5, <3>1, <3>3 DEF SerNext, RecordNext, LastNext, Sends, DoutNext, DoPop
      <4> QED
        BY <3>3, <4>1 DEF RecordInv, Follows
    <3>4. CASE ser = "idle"
      <4>1. /\ record' = record /\ dout' = dout /\ last' = last
            /\ ser' = IF fifo # <<>> THEN "load" ELSE "idle"
            /\ ~DoPop
        BY <2>2, <2>5, <3>1, <3>4 DEF SerNext, RecordNext, LastNext, Sends, DoutNext, DoPop
      <4>2. fifo # <<>> => fifo' # <<>>
        <5>1. fifo' = fifo \o (IF DoPush THEN <<FrameIn>> ELSE <<>>)
          BY <2>2, <2>5, <4>1 DEF FifoNext
        <5>2. FrameIn \in Frames /\ fifo \in Seq(Frames)
          BY DEF TypeOK, ReceiverTypeOK, FrameIn, Frames
        <5>3. <<FrameIn>> \in Seq(Frames) /\ <<>> \in Seq(Frames)
          BY <5>2
        <5> QED
          BY <5>1, <5>2, <5>3, ConcatEqualIffEmpty
      <4> QED
        BY <3>4, <4>1, <4>2 DEF RecordInv, Follows
    <3> QED
      BY <2>2, <3>2, <3>3, <3>4
  <2> QED
    BY <2>3, <2>4, <2>5
<1> QED
  BY <1>1, <1>2

-----------------------------------------------------------------------------
(* The theorems. *)

THEOREM Invariance == Spec => []IInv
<1>1. Init => IInv
  BY InitInv
<1>2. IInv /\ [Next]_vars => IInv'
  <2> SUFFICES ASSUME IInv, [Next]_vars PROVE IInv'
    OBVIOUS
  <2>1. WholeInv'
    <3>1. CASE UNCHANGED vars
      BY <3>1 DEF vars, receiver, IInv, WholeInv
    <3>2. CASE Next
      BY <3>2, WholeStep DEF IInv, TypeOK, Next, Clock
    <3> QED
      BY <3>1, <3>2
  <2> QED
    BY <2>1, TypeStep, LineInvStep, RecordStep DEF IInv
<1> QED
  BY <1>1, <1>2, PTL DEF Spec

\* Every register holds a value of its kind, and the drop counter never counts
\* more frames than the converter presented.
THEOREM TypeCorrect == Spec => []TypeOK
<1>1. IInv => TypeOK
  BY DEF IInv
<1> QED
  BY <1>1, Invariance, PTL

\* A frame that arrives without the overflow flag, with acquisition on all the
\* while, holds the bits of exactly one conversion.
THEOREM FramesAreWhole == Spec => []FrameIsWhole
<1>1. IInv => FrameIsWhole
  BY FS_Singleton DEF IInv, WholeInv, FrameIsWhole
<1> QED
  BY <1>1, Invariance, PTL

\* Two records sent in a row are consecutive frames, or the drop counter counts
\* what is missing between them.
THEOREM RecordsAreInOrder == Spec => []RecordsFollow
<1>1. IInv => RecordsFollow
  BY DEF IInv, RecordInv, RecordsFollow
<1> QED
  BY <1>1, Invariance, PTL

\* So are any two frames next to each other in the FIFO, and the frame popped last
\* and the one at the FIFO's head.
THEOREM FifoIsInOrder == Spec => []StagedInOrder
<1>1. IInv => StagedInOrder
  BY DEF IInv, LineInv, Line, StagedInOrder
<1> QED
  BY <1>1, Invariance, PTL
===============================================================================
