--------------------------- MODULE SampleStreamProofs ---------------------------
(***************************************************************************)
(* The snapshots of the legacy mode and the stream made of them, for every *)
(* number of channels and retries, every counter width and any number of   *)
(* conversions.                                                            *)
(*                                                                         *)
(* Two reads of STATUS that agree mean one frame only because the counter  *)
(* cannot have gone all the way round, which the history variable `turns`  *)
(* tells; and "differs from what was sent last" means "newer" only because *)
(* of what relates the counter, the channel registers, the snapshot and    *)
(* the newest conversion that was told to anyone.                          *)
(***************************************************************************)
EXTENDS SampleStream, FiniteSetTheorems, WellFoundedInduction, TLAPS

\* The newest conversion of a channel register, and of several.
Newest(s) == Max(s \cup {0})
Convs(F) == UNION {f.of : f \in F}
NewestOf(F) == Newest(Convs(F))

\* The bits being received are newer than the frame in the channel registers,
\* and a counter that is not 0 is that frame's.
FrameInv ==
  /\ Newest(ch) <= conv
  /\ state \in {"wait", "shift"} => Newest(ch) < conv
  /\ state \in {"shift", "latch"} => \A c \in shift : Newest(ch) < c /\ c <= conv
  /\ state = "latch" => shift # {}
  /\ frame_cnt # 0 => tag = frame_cnt /\ Newest(ch) # 0

\* While the channels are read the counter has gone on by `turns`, unless
\* acquisition was off; and if by none, all the channels are of one frame.
AttemptInv ==
  at = "channels" =>
    /\ turns < CntMod => \/ frame_cnt = before + turns
                         \/ frame_cnt = before + turns - CntMod
    /\ turns = 0 => got \subseteq {Frame}
    /\ read > 0 => got # {}

\* What was told came from the snapshot kept, and that from frames no newer than
\* the one in the channel registers.
OrderInv ==
  /\ told <= NewestOf(snap.frames) /\ told <= Newest(ch)
  /\ \A f \in snap.frames : Newest(f.of) <= Newest(ch)
  /\ at = "channels" => \A f \in got : told <= Newest(f.of) /\ Newest(f.of) <= Newest(ch)

\* CoherentSnapshot, without the cardinality.
SnapInv ==
  snap.sure =>
    \E f \in snap.frames :
      snap.frames = {f} /\ (snap.cnt # 0 => f.tag = snap.cnt)

\* What was told has left its mark: if it is the present frame, the mark is the
\* counter, and so it is if it is the snapshot.
MarkInv ==
  /\ frame_cnt # 0 /\ NewestOf(snap.frames) >= Newest(ch) => snap.cnt = frame_cnt
  /\ frame_cnt # 0 /\ told >= Newest(ch) => sent = frame_cnt
  /\ snap.sure /\ snap.cnt # 0 /\ told >= NewestOf(snap.frames) => sent = snap.cnt

IInv == TypeOK /\ FrameInv /\ AttemptInv /\ OrderInv /\ SnapInv /\ MarkInv

-----------------------------------------------------------------------------
(* Maxima of sets of conversions. *)

LEMMA MaxIs ==
  ASSUME NEW S \in SUBSET (0 .. MaxConv), S # {}
  PROVE  Max(S) \in S /\ \A y \in S : y <= Max(S)
<1> DEFINE T == {n \in 0 .. MaxConv : MaxConv - n \in S}
<1>1. T \subseteq Nat /\ T # {}
  <2>1. PICK x \in S : TRUE
    OBVIOUS
  <2>2. MaxConv - x \in 0 .. MaxConv /\ MaxConv - (MaxConv - x) = x
    BY ReceiverAssumption
  <2> QED
    BY <2>2
<1>2. \A v \in S : MaxConv - v \in T
  BY ReceiverAssumption
<1>3. \A n \in T : MaxConv - n \in S /\ n \in 0 .. MaxConv
  OBVIOUS
<1> HIDE DEF T
<1>4. PICK n \in T : \A m \in T : ~(m < n)
  <2>1. \A x, y \in Nat : x < y => <<x, y>> \in OpToRel(<, Nat)
    BY DEF OpToRel
  <2>2. \E x \in T : \A y \in T : ~ (<<y, x>> \in OpToRel(<, Nat))
    BY <1>1, NatLessThanWellFounded, WFMin
  <2> QED
    BY <1>1, <2>1, <2>2
<1>5. \A y \in S : MaxConv - n >= y
  BY <1>2, <1>3, <1>4, ReceiverAssumption
<1>6. \E x \in S : \A y \in S : x >= y
  BY <1>3, <1>5
<1>7. Max(S) \in S /\ \A y \in S : Max(S) >= y
  BY <1>6 DEF Max
<1>8. S \subseteq Int
  BY ReceiverAssumption
<1> QED
  BY <1>7, <1>8

LEMMA NewestIs ==
  ASSUME NEW s \in SUBSET (0 .. MaxConv)
  PROVE  /\ Newest(s) \in 0 .. MaxConv
         /\ \A c \in s : c <= Newest(s)
         /\ Newest(s) \in s \/ Newest(s) = 0
<1>1. s \cup {0} \in SUBSET (0 .. MaxConv) /\ s \cup {0} # {}
  BY ReceiverAssumption
<1>2. Max(s \cup {0}) \in s \cup {0} /\ \A y \in s \cup {0} : y <= Max(s \cup {0})
  BY <1>1, MaxIs
<1> QED
  BY <1>1, <1>2 DEF Newest

LEMMA ConvsType ==
  ASSUME NEW F \in SUBSET Frames
  PROVE  /\ Convs(F) \in SUBSET (0 .. MaxConv)
         /\ \A f \in F : f.of \in SUBSET (0 .. MaxConv) /\ f.of \subseteq Convs(F)
         /\ \A c \in Convs(F) : \E f \in F : c \in f.of
BY DEF Convs, Frames

\* The newest of several frames is that of one of them.
LEMMA NewestOfIs ==
  ASSUME NEW F \in SUBSET Frames
  PROVE  /\ NewestOf(F) \in 0 .. MaxConv
         /\ \A f \in F : Newest(f.of) \in 0 .. MaxConv /\ Newest(f.of) <= NewestOf(F)
         /\ NewestOf(F) = 0 \/ \E f \in F : NewestOf(F) <= Newest(f.of)
<1>1. /\ NewestOf(F) \in 0 .. MaxConv
      /\ \A c \in Convs(F) : c <= NewestOf(F)
      /\ NewestOf(F) \in Convs(F) \/ NewestOf(F) = 0
  BY ConvsType, NewestIs DEF NewestOf
<1>2. ASSUME NEW f \in F PROVE /\ Newest(f.of) \in 0 .. MaxConv
                               /\ Newest(f.of) <= NewestOf(F)
                               /\ \A c \in f.of : c <= Newest(f.of)
  <2>1. /\ Newest(f.of) \in 0 .. MaxConv
        /\ \A c \in f.of : c <= Newest(f.of)
        /\ Newest(f.of) \in f.of \/ Newest(f.of) = 0
    BY ConvsType, NewestIs
  <2>2. f.of \subseteq Convs(F)
    BY ConvsType
  <2> QED
    BY <1>1, <2>1, <2>2, ReceiverAssumption
<1>3. NewestOf(F) = 0 \/ \E f \in F : NewestOf(F) <= Newest(f.of)
  <2>1. NewestOf(F) \in Convs(F) => \E f \in F : NewestOf(F) \in f.of
    BY ConvsType
  <2> QED
    BY <1>1, <1>2, <2>1
<1> QED
  BY <1>1, <1>2, <1>3

\* Telling raises `told` to the newest conversion of the snapshot.
LEMMA TellIs ==
  ASSUME NEW F \in SUBSET Frames, NEW t \in 0 .. MaxConv, t <= NewestOf(F)
  PROVE  Max({t} \cup UNION {f.of : f \in F}) = NewestOf(F)
<1> DEFINE U == Convs(F)
           m == Max({t} \cup U)
           n == NewestOf(F)
<1>1. /\ U \in SUBSET (0 .. MaxConv) /\ n \in 0 .. MaxConv
      /\ \A c \in U : c <= n
      /\ n \in U \/ n = 0
  BY ConvsType, NewestIs DEF NewestOf
<1>2. {t} \cup U \in SUBSET (0 .. MaxConv) /\ {t} \cup U # {}
  BY <1>1
<1>3. m \in {t} \cup U /\ \A y \in {t} \cup U : y <= m
  BY <1>2, MaxIs
<1>4. t <= n
  OBVIOUS
<1> HIDE DEF U, m, n
<1>5. m \in 0 .. MaxConv
  BY <1>2, <1>3
<1>6. m <= n
  BY <1>1, <1>3, <1>4
<1>7. n <= m
  BY <1>1, <1>3, <1>5, ReceiverAssumption
<1>8. m = n
  BY <1>1, <1>5, <1>6, <1>7, ReceiverAssumption
<1> QED
  BY <1>8 DEF U, m, n, Convs

-----------------------------------------------------------------------------
(* Types. *)

LEMMA InitInv == Init => IInv
<1> SUFFICES ASSUME Init PROVE IInv
  OBVIOUS
<1>1. /\ Convs({}) = {} /\ NewestOf({}) \in 0 .. MaxConv /\ NewestOf({}) = 0
      /\ Newest({}) = 0
  <2>1. Convs({}) = {}
    BY DEF Convs
  <2>2. {} \in SUBSET (0 .. MaxConv) /\ 0 \in 0 .. MaxConv
    BY ReceiverAssumption
  <2>3. Newest({}) \in {} \/ Newest({}) = 0
    BY <2>2, NewestIs
  <2> QED
    BY <2>1, <2>2, <2>3 DEF NewestOf
<1>2. /\ enable \in BOOLEAN /\ new_data \in BOOLEAN /\ overflow \in BOOLEAN /\ cut \in BOOLEAN
      /\ client \in BOOLEAN /\ log \in BOOLEAN /\ have \in BOOLEAN
  BY DEF Init, ReceiverInit
<1>3. snap \in [cnt : 0 .. CntMod - 1, frames : SUBSET Frames, sure : BOOLEAN]
  BY ReceiverAssumption DEF Init, NoSnapshot
<1>4. TypeOK
  BY <1>2, <1>3, ReceiverAssumption, SampleStreamAssumption
     DEF Init, ReceiverInit, TypeOK, ReceiverTypeOK
<1>5. FrameInv
  BY <1>1 DEF Init, ReceiverInit, FrameInv
<1>6. AttemptInv
  BY DEF Init, AttemptInv
<1>7. OrderInv /\ SnapInv
  BY <1>1 DEF Init, ReceiverInit, NoSnapshot, OrderInv, SnapInv
<1>8. MarkInv
  BY DEF Init, ReceiverInit, NoSnapshot, MarkInv
<1> QED
  BY <1>4, <1>5, <1>6, <1>7, <1>8 DEF IInv

LEMMA ReceiverType ==
  ASSUME ReceiverTypeOK, NEW fall \in BOOLEAN, NEW done \in BOOLEAN, NEW ctrl \in BOOLEAN,
         ReceiverClock(fall, done, ctrl)
  PROVE  ReceiverTypeOK'
<1> USE DEF ReceiverTypeOK, ReceiverClock
<1>1. enable' \in BOOLEAN /\ state' \in {"idle", "wait", "shift", "latch"}
  BY DEF StateNext
<1>2. shift' \in SUBSET (0 .. MaxConv) /\ ch' \in SUBSET (0 .. MaxConv)
  BY DEF ShiftNext
<1>3. new_data' \in BOOLEAN
  BY ReceiverAssumption
<1>4. overflow' \in BOOLEAN
  BY DEF OverflowNext
<1>5. cut' \in BOOLEAN
  BY ReceiverAssumption
<1>6. frame_cnt' \in 0 .. CntMod - 1
  BY ReceiverAssumption DEF FrameCntNext
<1>7. conv' \in 0 .. MaxConv
  BY ReceiverAssumption
<1> QED
  BY <1>1, <1>2, <1>3, <1>4, <1>5, <1>6, <1>7

LEMMA ClockType ==
  ASSUME TypeOK, NEW ctrl \in BOOLEAN, Clock(ctrl)
  PROVE  ReceiverTypeOK' /\ tag' \in 0 .. CntMod - 1 /\ turns' \in 0 .. CntMod
<1>1. PICK fall, done \in BOOLEAN : ReceiverClock(fall, done, ctrl)
  BY DEF Clock
<1>2. ReceiverTypeOK'
  BY <1>1, ReceiverType DEF TypeOK
<1>3. FrameCntNext \in 0 .. CntMod - 1
  BY ReceiverAssumption DEF FrameCntNext, TypeOK, ReceiverTypeOK
<1>4. tag' \in 0 .. CntMod - 1
  BY <1>3 DEF Clock, TypeOK
<1>5. turns' \in 0 .. CntMod
  BY ReceiverAssumption DEF Clock, TypeOK
<1> QED
  BY <1>2, <1>4, <1>5

LEMMA TypeStep == TypeOK /\ OrderInv /\ [Next]_vars => TypeOK'
<1> SUFFICES ASSUME TypeOK, OrderInv, [Next]_vars PROVE TypeOK'
  OBVIOUS
<1> USE DEF TypeOK
<1>1. CASE UNCHANGED vars
  BY <1>1 DEF vars, receiver, server, ReceiverTypeOK
<1>2. CASE Tick
  <2>1. ReceiverTypeOK' /\ tag' \in 0 .. CntMod - 1 /\ turns' \in 0 .. CntMod
    BY <1>2, ClockType DEF Tick, ReceiverTypeOK
  <2> QED
    BY <1>2, <2>1 DEF Tick, server
<1>3. CASE Command
  <2>1. ReceiverTypeOK' /\ tag' \in 0 .. CntMod - 1 /\ turns' \in 0 .. CntMod
    BY <1>3, ClockType DEF Command, ReceiverTypeOK
  <2>2. log' \in BOOLEAN /\ tries' \in 0 .. Retries - 1
    BY <1>3, SampleStreamAssumption DEF Command, Refresh
  <2> QED
    BY <1>3, <2>1, <2>2 DEF Command, Refresh
<1>4. CASE Start \/ Accept \/ Poll
  <2>1. tries' = 0 /\ at' = "status" /\ purpose' \in {"start", "greet", "poll"}
    BY <1>4 DEF Start, Accept, Poll, Refresh
  <2>2. tries' \in 0 .. Retries - 1
    BY <2>1, SampleStreamAssumption
  <2>3. client' \in BOOLEAN
    BY <1>4 DEF Start, Accept, Poll
  <2>4. UNCHANGED <<receiver, log, before, read, got, snap, have, sent, told, tag, turns>>
    BY <1>4 DEF Start, Accept, Poll
  <2> QED
    BY <2>1, <2>2, <2>3, <2>4 DEF receiver, ReceiverTypeOK
<1>5. CASE ReadStatus
  <2>1. /\ before' \in 0 .. CntMod - 1 /\ turns' \in 0 .. CntMod
        /\ read' \in 0 .. Channels /\ got' \subseteq Frames
    BY <1>5, ReceiverAssumption, SampleStreamAssumption DEF ReadStatus, ReceiverTypeOK
  <2> QED
    BY <1>5, <2>1 DEF ReadStatus, receiver, ReceiverTypeOK
<1>6. CASE ReadChannel
  <2>1. Frame \in Frames /\ read' \in 0 .. Channels
    BY <1>6, SampleStreamAssumption DEF ReadChannel, Frame, Frames, ReceiverTypeOK
  <2>2. got' \subseteq Frames
    BY <1>6, <2>1 DEF ReadChannel
  <2> QED
    BY <1>6, <2>1, <2>2 DEF ReadChannel, receiver, ReceiverTypeOK
<1>7. CASE ReadStatusAgain
  <2>1. tries' \in 0 .. Retries - 1
    BY <1>7, SampleStreamAssumption DEF ReadStatusAgain, Again
  <2>2. have' \in BOOLEAN
    BY <1>7 DEF ReadStatusAgain
  <2>3. snap' \in [cnt : 0 .. CntMod - 1, frames : SUBSET Frames, sure : BOOLEAN]
    <3>1. snap' \in {snap, Attempt, [Attempt EXCEPT !.sure = FALSE]}
      BY <1>7 DEF ReadStatusAgain, FallBack
    <3>2. Attempt \in [cnt : 0 .. CntMod - 1, frames : SUBSET Frames, sure : BOOLEAN]
      BY DEF Attempt, ReceiverTypeOK
    <3>3. [Attempt EXCEPT !.sure = FALSE]
            \in [cnt : 0 .. CntMod - 1, frames : SUBSET Frames, sure : BOOLEAN]
      BY <3>2
    <3> QED
      BY <3>1, <3>2, <3>3
  <2>4. at' \in {"status", "reply"}
    BY <1>7 DEF ReadStatusAgain
  <2> QED
    BY <1>7, <2>1, <2>2, <2>3, <2>4 DEF ReadStatusAgain, receiver, ReceiverTypeOK
<1>8. CASE Reply
  <2>1. told' \in 0 .. MaxConv
    BY <1>8, TellIs, NewestOfIs DEF Reply, Tell, OrderInv
  <2>2. sent' \in 0 .. CntMod - 1
    BY <1>8 DEF Reply, Mark
  <2> QED
    BY <1>8, <2>1, <2>2 DEF Reply, receiver, ReceiverTypeOK
<1>9. CASE ReplyFails \/ Leave \/ Quit
  <2>1. client' \in BOOLEAN /\ log' \in BOOLEAN /\ have' \in BOOLEAN
    BY <1>9 DEF ReplyFails, Leave, Quit
  <2>2. sent' \in 0 .. CntMod - 1 /\ told' \in 0 .. MaxConv
    <3>1. sent' \in {sent, snap.cnt, 0} /\ told' \in {told, 0}
      BY <1>9 DEF ReplyFails, Leave, Quit
    <3> QED
      BY <3>1, ReceiverAssumption
  <2>3. snap' \in [cnt : 0 .. CntMod - 1, frames : SUBSET Frames, sure : BOOLEAN]
    <3>1. snap' \in {snap, NoSnapshot}
      BY <1>9 DEF ReplyFails, Leave, Quit
    <3>2. NoSnapshot \in [cnt : 0 .. CntMod - 1, frames : SUBSET Frames, sure : BOOLEAN]
      BY ReceiverAssumption DEF NoSnapshot
    <3> QED
      BY <3>1, <3>2
  <2>4. at' \in {"loop", "off"}
    BY <1>9 DEF ReplyFails, Leave, Quit
  <2> QED
    BY <1>9, <2>1, <2>2, <2>3, <2>4 DEF ReplyFails, Leave, Quit, receiver, ReceiverTypeOK
<1> QED
  BY <1>1, <1>2, <1>3, <1>4, <1>5, <1>6, <1>7, <1>8, <1>9 DEF Next, Loop

-----------------------------------------------------------------------------
(* A clock of the receiver. *)

\* A latch brings a newer frame; without one the frame stays, and its counter
\* unless it is reset.
LEMMA ClockFrame ==
  ASSUME TypeOK, FrameInv, NEW ctrl \in BOOLEAN, Clock(ctrl)
  PROVE  /\ FrameInv'
         /\ Newest(ch) \in 0 .. MaxConv /\ Newest(ch') \in 0 .. MaxConv
         /\ state = "latch" => Newest(ch) < Newest(ch')
         /\ state # "latch" => ch' = ch /\ tag' = tag /\ frame_cnt' \in {frame_cnt, 0}
<1>1. PICK fall, done \in BOOLEAN : ReceiverClock(fall, done, ctrl)
  BY DEF Clock
<1> DEFINE n == Newest(ch)
<1>2. /\ ch \in SUBSET (0 .. MaxConv) /\ shift \in SUBSET (0 .. MaxConv)
      /\ conv \in 0 .. MaxConv /\ frame_cnt \in 0 .. CntMod - 1
      /\ state \in {"idle", "wait", "shift", "latch"}
      /\ n \in 0 .. MaxConv
  BY NewestIs DEF TypeOK, ReceiverTypeOK
<1>3. /\ n <= conv
      /\ state \in {"wait", "shift"} => n < conv
      /\ state \in {"shift", "latch"} => \A c \in shift : n < c /\ c <= conv
      /\ state = "latch" => shift # {}
      /\ frame_cnt # 0 => tag = frame_cnt /\ n # 0
  BY DEF FrameInv
<1>4. /\ ch' = IF state = "latch" THEN shift ELSE ch
      /\ tag' = IF state = "latch" THEN FrameCntNext ELSE tag
      /\ frame_cnt' = FrameCntNext
      /\ state' = StateNext(fall, done) /\ shift' = ShiftNext
      /\ conv' = IF fall THEN conv + 1 ELSE conv
      /\ conv' \in Int /\ conv' >= conv
  BY <1>1, <1>2, ReceiverAssumption DEF Clock, ReceiverClock
<1>5. CASE state = "latch"
  <2>1. /\ ch' = shift /\ Newest(shift) \in 0 .. MaxConv
        /\ \A c \in shift : c <= Newest(shift)
        /\ Newest(shift) \in shift \/ Newest(shift) = 0
    BY <1>2, <1>4, <1>5, NewestIs
  <2>2. PICK c \in shift : n < c /\ c <= conv
    BY <1>3, <1>5
  <2>3. n < Newest(shift) /\ Newest(shift) <= conv /\ c \in Int
    BY <1>2, <1>3, <1>5, <2>1, <2>2, ReceiverAssumption
  <2>4. state' = "idle" /\ tag' = frame_cnt'
    BY <1>4, <1>5 DEF StateNext
  <2>5. Newest(ch') <= conv' /\ Newest(ch') # 0
    BY <1>2, <1>4, <2>1, <2>3, ReceiverAssumption
  <2>6. FrameInv'
    BY <2>4, <2>5 DEF FrameInv, Newest
  <2> QED
    BY <1>2, <1>5, <2>1, <2>3, <2>6
<1>6. CASE state # "latch"
  <2>1. ch' = ch /\ tag' = tag /\ frame_cnt' \in {frame_cnt, 0}
    BY <1>4, <1>6 DEF FrameCntNext
  <2>2. n <= conv'
    BY <1>2, <1>3, <1>4, ReceiverAssumption
  <2>3. state' \in {"wait", "shift"} => n < conv'
    <3>1. state' \in {"wait", "shift"} => fall \/ state \in {"wait", "shift"}
      BY <1>2, <1>4, <1>6 DEF StateNext
    <3> QED
      BY <1>2, <1>3, <1>4, <3>1, ReceiverAssumption
  <2>4. ASSUME state' \in {"shift", "latch"}, NEW c \in shift' PROVE n < c /\ c <= conv'
    <3>1. CASE state = "wait"
      BY <1>4, <2>4, <3>1 DEF ShiftNext
    <3>2. CASE state = "shift"
      <4>1. c \in shift \/ c = conv
        BY <1>4, <2>4, <3>2 DEF ShiftNext
      <4>2. n < c /\ c <= conv /\ c \in 0 .. MaxConv
        <5>1. CASE c \in shift
          BY <1>2, <1>3, <3>2, <5>1
        <5>2. CASE c = conv
          BY <1>2, <1>3, <3>2, <5>2
        <5> QED
          BY <4>1, <5>1, <5>2
      <4> QED
        BY <1>2, <1>4, <4>2, ReceiverAssumption
    <3> QED
      BY <1>2, <1>4, <1>6, <2>4, <3>1, <3>2 DEF StateNext
  <2>5. state' = "latch" => shift' # {}
    BY <1>2, <1>4, <1>6 DEF StateNext, ShiftNext
  <2>6. frame_cnt' # 0 => tag' = frame_cnt' /\ n # 0
    BY <1>3, <2>1
  <2>7. FrameInv'
    BY <2>1, <2>2, <2>3, <2>4, <2>5, <2>6 DEF FrameInv, Newest
  <2> QED
    BY <1>2, <1>6, <2>1, <2>7
<1> QED
  BY <1>5, <1>6

LEMMA ClockAttempt ==
  ASSUME TypeOK, AttemptInv, NEW ctrl \in BOOLEAN, Clock(ctrl),
         UNCHANGED <<before, read, got>>, at' = "channels" => at = "channels"
  PROVE  AttemptInv'
<1> SUFFICES ASSUME at' = "channels" PROVE AttemptInv'
  BY DEF AttemptInv
<1>1. PICK fall, done \in BOOLEAN : ReceiverClock(fall, done, ctrl)
  BY DEF Clock
<1>2. /\ turns < CntMod => \/ frame_cnt = before + turns
                            \/ frame_cnt = before + turns - CntMod
      /\ turns = 0 => got \subseteq {Frame}
      /\ read > 0 => got # {}
  BY DEF AttemptInv
<1>3. /\ before \in 0 .. CntMod - 1 /\ turns \in 0 .. CntMod /\ frame_cnt \in 0 .. CntMod - 1
      /\ CntMod \in Nat /\ CntMod >= 2
  BY ReceiverAssumption DEF TypeOK, ReceiverTypeOK
<1>4. /\ turns' = IF ~enable \/ turns = CntMod THEN CntMod
                  ELSE IF state = "latch" THEN turns + 1 ELSE turns
      /\ frame_cnt' = FrameCntNext
      /\ state # "latch" => ch' = ch /\ tag' = tag
  BY <1>1 DEF Clock, ReceiverClock
<1>5. ASSUME turns' < CntMod
      PROVE  frame_cnt' = before + turns' \/ frame_cnt' = before + turns' - CntMod
  <2>1. enable /\ turns # CntMod /\ turns < CntMod
    BY <1>3, <1>4, <1>5
  <2>2. CASE state = "latch"
    <3>1. turns' = turns + 1 /\ frame_cnt' = (frame_cnt + 1) % CntMod
      BY <1>4, <2>1, <2>2 DEF FrameCntNext
    <3>2. frame_cnt' = IF frame_cnt + 1 = CntMod THEN 0 ELSE frame_cnt + 1
      BY <1>3, <3>1
    <3> QED
      BY <1>2, <1>3, <1>5, <2>1, <3>1, <3>2
  <2>3. CASE state # "latch"
    BY <1>2, <1>4, <2>1, <2>3 DEF FrameCntNext
  <2> QED
    BY <2>2, <2>3
<1>6. turns' = 0 => got' \subseteq {Frame'}
  <2>1. turns' = 0 => turns = 0 /\ state # "latch"
    BY <1>3, <1>4
  <2> QED
    BY <1>2, <1>4, <2>1 DEF Frame
<1> QED
  BY <1>2, <1>5, <1>6 DEF AttemptInv, Frame

LEMMA ClockMark ==
  ASSUME IInv, NEW ctrl \in BOOLEAN, Clock(ctrl),
         UNCHANGED <<got, snap, sent, told>>, at' = "channels" => at = "channels"
  PROVE  OrderInv' /\ SnapInv' /\ MarkInv'
<1>1. /\ Newest(ch) \in 0 .. MaxConv /\ Newest(ch') \in 0 .. MaxConv
      /\ state = "latch" => Newest(ch) < Newest(ch')
      /\ state # "latch" => ch' = ch /\ tag' = tag /\ frame_cnt' \in {frame_cnt, 0}
  BY ClockFrame DEF IInv
<1>2. Newest(ch) <= Newest(ch')
  BY <1>1, ReceiverAssumption
<1>3. /\ told \in 0 .. MaxConv /\ NewestOf(snap.frames) \in 0 .. MaxConv
      /\ \A f \in snap.frames : Newest(f.of) \in 0 .. MaxConv
      /\ \A f \in got : Newest(f.of) \in 0 .. MaxConv
      /\ NewestOf(snap.frames) = 0 \/ \E f \in snap.frames : NewestOf(snap.frames) <= Newest(f.of)
  BY NewestOfIs DEF IInv, TypeOK
<1>4. OrderInv'
  <2>1. told <= Newest(ch')
    BY <1>1, <1>2, <1>3, ReceiverAssumption DEF IInv, OrderInv
  <2>2. \A f \in snap.frames : Newest(f.of) <= Newest(ch')
    BY <1>1, <1>2, <1>3, ReceiverAssumption DEF IInv, OrderInv
  <2>3. at = "channels" => \A f \in got : told <= Newest(f.of) /\ Newest(f.of) <= Newest(ch')
    BY <1>1, <1>2, <1>3, ReceiverAssumption DEF IInv, OrderInv
  <2> QED
    BY <2>1, <2>2, <2>3 DEF IInv, OrderInv, Newest, NewestOf, Convs
<1>5. SnapInv'
  BY DEF IInv, SnapInv
<1>6. NewestOf(snap.frames) <= Newest(ch)
  BY <1>1, <1>3, ReceiverAssumption DEF IInv, OrderInv
<1>7. MarkInv'
  <2>1. CASE state = "latch"
    <3>1. ~(NewestOf(snap.frames) >= Newest(ch')) /\ ~(told >= Newest(ch'))
      BY <1>1, <1>3, <1>6, <2>1, ReceiverAssumption DEF IInv, OrderInv
    <3> QED
      BY <3>1 DEF IInv, MarkInv, Newest, NewestOf, Convs
  <2>2. CASE state # "latch"
    BY <1>1, <2>2 DEF IInv, MarkInv, Newest, NewestOf, Convs
  <2> QED
    BY <2>1, <2>2
<1> QED
  BY <1>4, <1>5, <1>7

-----------------------------------------------------------------------------
(* The steps of the server between two clocks. *)

\* A step that leaves what was read, kept, sent and told.
LEMMA QuietMark ==
  ASSUME IInv, UNCHANGED <<receiver, tag, turns, before, read, got, snap, sent, told>>,
         at' = "channels" => at = "channels"
  PROVE  FrameInv' /\ AttemptInv' /\ OrderInv' /\ SnapInv' /\ MarkInv'
<1> USE DEF receiver, IInv
<1>1. FrameInv'
  BY DEF FrameInv, Newest
<1>2. AttemptInv'
  BY DEF AttemptInv, Frame
<1>3. OrderInv'
  BY DEF OrderInv, Newest, NewestOf, Convs
<1>4. SnapInv'
  BY DEF SnapInv
<1>5. MarkInv'
  BY DEF MarkInv, Newest, NewestOf, Convs
<1> QED
  BY <1>1, <1>2, <1>3, <1>4, <1>5

LEMMA ReadStatusKeeps ==
  ASSUME IInv, ReadStatus
  PROVE  FrameInv' /\ AttemptInv' /\ OrderInv' /\ SnapInv' /\ MarkInv'
<1> USE DEF receiver, IInv
<1>1. /\ UNCHANGED <<receiver, tag, snap, sent, told>>
      /\ before' = frame_cnt /\ read' = 0 /\ got' = {}
      /\ turns' = IF enable THEN 0 ELSE CntMod
  BY DEF ReadStatus
<1>2. FrameInv'
  BY <1>1 DEF FrameInv, Newest
<1>3. AttemptInv'
  <2>1. turns' < CntMod => frame_cnt' = before' + turns'
    BY <1>1, ReceiverAssumption DEF TypeOK, ReceiverTypeOK
  <2> QED
    BY <1>1, <2>1 DEF AttemptInv
<1>4. OrderInv'
  BY <1>1 DEF OrderInv, Newest, NewestOf, Convs
<1>5. SnapInv'
  BY <1>1 DEF SnapInv
<1>6. MarkInv'
  BY <1>1 DEF MarkInv, Newest, NewestOf, Convs
<1> QED
  BY <1>2, <1>3, <1>4, <1>5, <1>6

LEMMA ReadChannelKeeps ==
  ASSUME IInv, ReadChannel
  PROVE  FrameInv' /\ AttemptInv' /\ OrderInv' /\ SnapInv' /\ MarkInv'
<1> USE DEF receiver, IInv
<1>1. /\ UNCHANGED <<receiver, tag, turns, before, snap, sent, told>>
      /\ at = "channels" /\ got' = got \cup {Frame}
  BY DEF ReadChannel
<1>2. FrameInv'
  BY <1>1 DEF FrameInv, Newest
<1>3. AttemptInv'
  BY <1>1 DEF AttemptInv, Frame
<1>4. OrderInv'
  <2>1. Frame.of = ch
    BY DEF Frame
  <2>2. Newest(ch) <= Newest(ch)
    <3>1. Newest(ch) \in 0 .. MaxConv
      BY NewestIs DEF TypeOK, ReceiverTypeOK
    <3> QED
      BY <3>1
  <2>3. \A f \in got' : told <= Newest(f.of) /\ Newest(f.of) <= Newest(ch)
    BY <1>1, <2>1, <2>2 DEF OrderInv
  <2> QED
    BY <1>1, <2>3 DEF OrderInv, Newest, NewestOf, Convs
<1>5. SnapInv'
  BY <1>1 DEF SnapInv
<1>6. MarkInv'
  BY <1>1 DEF MarkInv, Newest, NewestOf, Convs
<1> QED
  BY <1>2, <1>3, <1>4, <1>5, <1>6

\* The channels of an attempt in which the counter has not moved.
LEMMA StillFrame ==
  ASSUME IInv, at = "channels", before = frame_cnt, turns < CntMod, read > 0
  PROVE  got = {Frame}
<1>1. turns = 0
  BY ReceiverAssumption DEF IInv, TypeOK, ReceiverTypeOK, AttemptInv
<1> QED
  BY <1>1 DEF IInv, AttemptInv

LEMMA ReadStatusAgainKeeps ==
  ASSUME IInv, ReadStatusAgain
  PROVE  FrameInv' /\ AttemptInv' /\ OrderInv' /\ SnapInv' /\ MarkInv'
<1> USE DEF IInv
<1>1. CASE UNCHANGED snap
  <2>1. /\ UNCHANGED <<receiver, before, read, got, sent, told, tag, turns>>
        /\ at' # "channels"
    BY DEF ReadStatusAgain
  <2> QED
    BY <1>1, <2>1, QuietMark
<1>2. CASE snap' # snap
  <2>1. /\ UNCHANGED <<receiver, sent, told, tag>> /\ at' = "reply"
        /\ \/ snap' = Attempt /\ before = frame_cnt
           \/ snap' = [Attempt EXCEPT !.sure = FALSE]
    BY <1>2 DEF ReadStatusAgain, FallBack
  <2>2. /\ snap'.cnt = frame_cnt /\ snap'.frames = got /\ got \in SUBSET Frames
        /\ snap'.sure => before = frame_cnt /\ turns < CntMod
    <3>1. got \in SUBSET Frames
      BY DEF TypeOK
    <3>2. CASE snap' = Attempt /\ before = frame_cnt
      <4>1. snap'.cnt = frame_cnt /\ snap'.frames = got /\ snap'.sure = (turns < CntMod)
        BY <3>2 DEF Attempt
      <4> QED
        BY <3>1, <3>2, <4>1
    <3>3. CASE snap' = [Attempt EXCEPT !.sure = FALSE]
      <4>1. snap'.cnt = frame_cnt /\ snap'.frames = got /\ snap'.sure = FALSE
        BY <3>3 DEF Attempt
      <4> QED
        BY <3>1, <4>1
    <3> QED
      BY <2>1, <3>2, <3>3
  <2>3. at = "channels" /\ read > 0 /\ got # {}
    BY SampleStreamAssumption DEF ReadStatusAgain, AttemptInv
  <2>4. snap'.sure => got = {Frame}
    BY <2>2, <2>3, StillFrame
  <2>5. FrameInv'
    BY <2>1 DEF FrameInv, Newest, receiver
  <2>6. AttemptInv'
    BY <2>1 DEF AttemptInv
  <2>7. /\ NewestOf(got) \in 0 .. MaxConv /\ Newest(ch) \in 0 .. MaxConv
        /\ \A f \in got : Newest(f.of) \in 0 .. MaxConv /\ Newest(f.of) <= NewestOf(got)
    BY <2>2, NewestOfIs, NewestIs DEF TypeOK, ReceiverTypeOK
  <2>8. told <= NewestOf(got)
    <3>1. PICK f \in got : TRUE
      BY <2>3
    <3>2. told <= Newest(f.of) /\ told \in 0 .. MaxConv
      BY <2>3, <3>1 DEF OrderInv, TypeOK
    <3> QED
      BY <2>7, <3>1, <3>2, ReceiverAssumption
  <2>9. OrderInv'
    <3>1. /\ told <= Newest(ch)
          /\ \A f \in got : Newest(f.of) <= Newest(ch)
      BY <2>3 DEF OrderInv
    <3> QED
      BY <2>1, <2>2, <2>8, <3>1 DEF OrderInv, Newest, NewestOf, Convs, receiver
  <2>10. Frame.of = ch /\ Frame.tag = tag
    BY DEF Frame
  <2>11. SnapInv'
    <3>1. snap'.cnt # 0 => tag = snap'.cnt
      BY <2>2 DEF FrameInv
    <3>2. snap'.sure => /\ Frame \in snap'.frames /\ snap'.frames = {Frame}
                        /\ (snap'.cnt # 0 => Frame.tag = snap'.cnt)
      BY <2>2, <2>4, <2>10, <3>1
    <3> QED
      BY <3>2 DEF SnapInv
  <2>12. MarkInv'
    <3>1. frame_cnt # 0 /\ told >= Newest(ch) => sent = frame_cnt
      BY DEF MarkInv
    <3>2. snap'.sure => Newest(ch) <= NewestOf(got)
      BY <2>4, <2>7, <2>10
    <3>3. snap'.sure /\ told >= NewestOf(got) => told >= Newest(ch)
      BY <2>7, <3>2, ReceiverAssumption DEF TypeOK
    <3> QED
      BY <2>1, <2>2, <3>1, <3>3 DEF MarkInv, Newest, NewestOf, Convs, receiver
  <2> QED
    BY <2>5, <2>6, <2>9, <2>11, <2>12
<1> QED
  BY <1>1, <1>2

\* A message tells the snapshot and marks it.
LEMMA ReplyKeeps ==
  ASSUME IInv, Reply
  PROVE  FrameInv' /\ AttemptInv' /\ OrderInv' /\ SnapInv' /\ MarkInv'
<1> USE DEF IInv
<1>1. CASE UNCHANGED <<sent, told>>
  <2>1. /\ UNCHANGED <<receiver, before, read, got, snap, tag, turns>> /\ at' # "channels"
    BY DEF Reply
  <2> QED
    BY <1>1, <2>1, QuietMark
<1>2. CASE Tell /\ Mark
  <2>1. /\ UNCHANGED <<receiver, snap, tag>> /\ at' # "channels" /\ sent' = snap.cnt
    BY <1>2 DEF Reply, Mark
  <2>2. /\ snap.frames \in SUBSET Frames /\ told \in 0 .. MaxConv
        /\ told <= NewestOf(snap.frames)
    BY DEF TypeOK, OrderInv
  <2>3. told' = NewestOf(snap.frames)
    BY <1>2, <2>2, TellIs DEF Tell
  <2>4. /\ NewestOf(snap.frames) \in 0 .. MaxConv /\ Newest(ch) \in 0 .. MaxConv
        /\ \/ NewestOf(snap.frames) = 0
           \/ \E f \in snap.frames : NewestOf(snap.frames) <= Newest(f.of)
        /\ \A f \in snap.frames : Newest(f.of) \in 0 .. MaxConv
    BY <2>2, NewestOfIs, NewestIs DEF TypeOK, ReceiverTypeOK
  <2>5. NewestOf(snap.frames) <= Newest(ch)
    BY <2>4, ReceiverAssumption DEF OrderInv
  <2>6. FrameInv'
    BY <2>1 DEF FrameInv, Newest, receiver
  <2>7. AttemptInv'
    BY <2>1 DEF AttemptInv
  <2>8. OrderInv'
    <3>1. NewestOf(snap.frames) <= NewestOf(snap.frames)
      BY <2>4
    <3> QED
      BY <2>1, <2>3, <2>5, <3>1 DEF OrderInv, Newest, NewestOf, Convs, receiver
  <2>9. SnapInv'
    BY <2>1 DEF SnapInv
  <2>10. MarkInv'
    BY <2>1, <2>3 DEF MarkInv, Newest, NewestOf, Convs, receiver
  <2> QED
    BY <2>6, <2>7, <2>8, <2>9, <2>10
<1> QED
  BY <1>1, <1>2 DEF Reply

\* A message that fails has marked its snapshot, or it has not.
LEMMA ReplyFailsKeeps ==
  ASSUME IInv, ReplyFails
  PROVE  FrameInv' /\ AttemptInv' /\ OrderInv' /\ SnapInv' /\ MarkInv'
<1> USE DEF IInv
<1>1. /\ UNCHANGED <<receiver, before, read, got, snap, told, tag, turns>>
      /\ at' # "channels" /\ sent' \in {sent, snap.cnt}
  BY DEF ReplyFails
<1>2. CASE sent' = sent
  BY <1>1, <1>2, QuietMark
<1>3. CASE sent' = snap.cnt
  <2>1. FrameInv' /\ AttemptInv' /\ SnapInv'
    BY <1>1 DEF FrameInv, AttemptInv, SnapInv, Newest, receiver
  <2>2. OrderInv'
    BY <1>1 DEF OrderInv, Newest, NewestOf, Convs, receiver
  <2>3. told >= Newest(ch) => NewestOf(snap.frames) >= Newest(ch)
    <3>1. /\ NewestOf(snap.frames) \in 0 .. MaxConv /\ Newest(ch) \in 0 .. MaxConv
          /\ told \in 0 .. MaxConv /\ told <= NewestOf(snap.frames)
      BY NewestOfIs, NewestIs DEF TypeOK, ReceiverTypeOK, OrderInv
    <3> QED
      BY <3>1, ReceiverAssumption
  <2>4. MarkInv'
    BY <1>1, <1>3, <2>3 DEF MarkInv, Newest, NewestOf, Convs, receiver
  <2> QED
    BY <2>1, <2>2, <2>4
<1> QED
  BY <1>1, <1>2, <1>3

LEMMA QuitKeeps ==
  ASSUME IInv, Quit
  PROVE  FrameInv' /\ AttemptInv' /\ OrderInv' /\ SnapInv' /\ MarkInv'
<1> USE DEF IInv
<1>1. /\ UNCHANGED <<receiver, tag>> /\ at' # "channels"
      /\ snap'.frames = {} /\ snap'.cnt = 0 /\ snap'.sure = FALSE
      /\ told' = 0
  BY DEF Quit, NoSnapshot
<1>2. NewestOf(snap'.frames) = 0 /\ Newest(ch) \in 0 .. MaxConv
  <2>1. Convs(snap'.frames) = {}
    BY <1>1 DEF Convs
  <2>2. Newest({}) = 0
    <3>1. {} \in SUBSET (0 .. MaxConv)
      OBVIOUS
    <3> QED
      BY <3>1, NewestIs
  <2> QED
    BY <2>1, <2>2, NewestIs DEF NewestOf, TypeOK, ReceiverTypeOK
<1>3. FrameInv' /\ AttemptInv' /\ SnapInv'
  BY <1>1 DEF FrameInv, AttemptInv, SnapInv, Newest, receiver
<1>4. OrderInv'
  <2>1. Newest(ch)' = Newest(ch) /\ NewestOf(snap.frames)' = 0
    BY <1>1, <1>2 DEF Newest, NewestOf, Convs, receiver
  <2>2. /\ told' <= NewestOf(snap.frames)' /\ told' <= Newest(ch)'
    BY <1>1, <1>2, <2>1, ReceiverAssumption
  <2> QED
    BY <1>1, <2>2 DEF OrderInv
<1>5. frame_cnt # 0 => ~(0 >= Newest(ch))
  BY <1>2, ReceiverAssumption DEF FrameInv
<1>6. MarkInv'
  BY <1>1, <1>2, <1>5 DEF MarkInv, Newest, NewestOf, Convs, receiver
<1> QED
  BY <1>3, <1>4, <1>6

LEMMA StepInv == IInv /\ [Next]_vars => IInv'
<1> SUFFICES ASSUME IInv, [Next]_vars
             PROVE  FrameInv' /\ AttemptInv' /\ OrderInv' /\ SnapInv' /\ MarkInv'
  BY TypeStep DEF IInv
<1>1. CASE Tick
  <2>1. enable \in BOOLEAN /\ Clock(enable) /\ UNCHANGED server
    BY <1>1 DEF Tick, IInv, TypeOK, ReceiverTypeOK
  <2> QED
    BY <2>1, ClockFrame, ClockAttempt, ClockMark DEF IInv, server
<1>2. CASE Command
  <2>1. PICK v \in BOOLEAN : Clock(v)
    BY <1>2 DEF Command, IInv, TypeOK, ReceiverTypeOK
  <2>2. UNCHANGED <<before, read, got, snap, sent, told>> /\ at' # "channels"
    BY <1>2 DEF Command, Refresh
  <2> QED
    BY <2>1, <2>2, ClockFrame, ClockAttempt, ClockMark DEF IInv
<1>3. CASE Start \/ Accept \/ Poll \/ Leave
  <2>1. /\ UNCHANGED <<receiver, tag, turns, before, read, got, snap, sent, told>>
        /\ at' = "channels" => at = "channels"
    BY <1>3 DEF Start, Accept, Poll, Leave, Refresh
  <2> QED
    BY <2>1, QuietMark
<1>4. CASE UNCHANGED vars
  BY <1>4, QuietMark DEF vars, server
<1> QED
  BY <1>1, <1>2, <1>3, <1>4, ReadStatusKeeps, ReadChannelKeeps, ReadStatusAgainKeeps,
     ReplyKeeps, ReplyFailsKeeps, QuitKeeps DEF Next, Loop

-----------------------------------------------------------------------------
(* The theorems. *)

THEOREM Invariance == Spec => []IInv
<1> QED
  BY InitInv, StepInv, PTL DEF Spec

\* Every variable of the receiver and of the server holds a value of its kind.
THEOREM TypeCorrect == Spec => []TypeOK
<1>1. IInv => TypeOK
  BY DEF IInv
<1> QED
  BY <1>1, Invariance, PTL

\* Two reads of the counter that agree enclose one frame, and the counter is that
\* frame's, as far as acquisition was on and the counter did not go all the way
\* round between them.
THEOREM SnapshotsAreCoherent == Spec => []CoherentSnapshot
<1>1. IInv => CoherentSnapshot
  BY FS_Singleton DEF IInv, SnapInv, CoherentSnapshot
<1> QED
  BY <1>1, Invariance, PTL

\* A poll sends a SAMPLE only of a frame newer than all that was sent or logged
\* before, whatever else was answered, failed or fell back in between.
THEOREM SamplesAreNews == Spec => PollsTellNews
<1>1. ASSUME IInv, Reply, Due, snap.sure, snap.cnt # 0, NEW f \in snap.frames
      PROVE  Max(f.of \cup {0}) > told
  <2>1. snap.frames = {f}
    BY <1>1 DEF IInv, SnapInv
  <2>2. /\ NewestOf(snap.frames) \in 0 .. MaxConv /\ told \in 0 .. MaxConv
        /\ NewestOf(snap.frames) = Newest(f.of)
    <3>1. Convs({f}) = f.of
      BY DEF Convs
    <3>2. snap.frames \in SUBSET Frames /\ told \in 0 .. MaxConv
      BY <1>1 DEF IInv, TypeOK
    <3>3. NewestOf({f}) = Newest(f.of)
      BY <3>1 DEF NewestOf
    <3> QED
      BY <2>1, <3>2, <3>3, NewestOfIs
  <2>3. ~(told >= NewestOf(snap.frames))
    BY <1>1 DEF IInv, MarkInv, Due
  <2> QED
    BY <2>2, <2>3, ReceiverAssumption DEF Newest
<1>2. IInv /\ [Next]_vars =>
        [(Reply /\ purpose = "poll" /\ Due /\ snap.sure /\ snap.cnt # 0) =>
           \A f \in snap.frames : Max(f.of \cup {0}) > told]_vars
  BY <1>1
<1> QED
  BY <1>2, Invariance, PTL DEF Spec, PollsTellNews
===============================================================================
