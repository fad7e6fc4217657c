---------------------------- MODULE DmaWriterProofs ----------------------------
(***************************************************************************)
(* For every buffer and burst length and every port, the writer gives the  *)
(* register block no pulse that PingPong forbids: the clocks in which an   *)
(* address can leave are those in which the registers have seen DMA        *)
(* enabled, and there are never more pulses than bursts.  So all that is   *)
(* proved of PingPong holds of the writer in its place.                    *)
(*                                                                         *)
(* And what a skewed pair of channels does to the buffers.  The beats of   *)
(* an arming are numbered, from its first beat on, and so are its bursts:  *)
(* every beat in the port and in the writer is the next in that order, and *)
(* so is every address.  The one hazard is an address that is overtaken by *)
(* a second burst of beats; the port's bound on beats ahead of their       *)
(* address excludes it.                                                    *)
(***************************************************************************)
EXTENDS DmaWriter, FiniteSetTheorems, SequenceTheorems, TLAPS

\* Addresses begun that may still make a pulse.
Pending == (IF awPend THEN 1 ELSE 0) + (IF awOut # <<>> THEN 1 ELSE 0)

\* An address stands in buf_aw only in a clock after an enabled one, and every
\* pulse has used up a burst.
PulseInv ==
  /\ awPend \in BOOLEAN /\ wraps \in Nat /\ rec \in Nat /\ rec <= MaxRec
  /\ awOut # <<>> => enablePrev
  /\ wraps + Pending <= rec

\* What is proved of the handshake.
HS == INSTANCE PingPongProofs WITH MaxWraps <- MaxRec

Flag(b) == IF b THEN 1 ELSE 0

\* The laps of this arming, and those the slot register has gone round.
Laps == wraps - armWraps
Rounds == IF awOut = <<>> /\ index = Bursts - 1 THEN Laps - 1 ELSE Laps

\* Bursts of this arming that are complete in memory, and so the number of the
\* burst that Head(awq) addresses.
Done == Left - Len(awq)

\* The number of a beat in its arming, and that of the beat to be moved next.
Position(r, j) == Beats * (r - armRec - 1) + j
NextPosition == IF wBusy THEN Position(rec, cntr) ELSE Position(rec + 1, 0)

\* The beats landed, and those that have been moved.
Landed == Beats * Done + wpos
Moved == Landed + Len(wq) + Len(wOut)

\* Out of its reset the writer only stays there; and the port keeps to its bound
\* and is in no burst that it has no address of.
ResetInv ==
  /\ ~enablePrev => /\ awPend = FALSE /\ wBusy = FALSE /\ cntr = 0 /\ index = 0
                    /\ awOut = <<>> /\ wOut = <<>>
  /\ Unaddressed <= Ahead
  /\ wpos # 0 => awq # <<>>

\* An address waits only behind another, and only while its beats are moved.
BurstInv ==
  Sound =>
    /\ Done \in Nat
    /\ ~wBusy => cntr = 0
    /\ wBusy => rec > armRec
    /\ awPend => wBusy /\ awOut # <<>>

\* The slots and the wraps count the same addresses.
TurnInv ==
  Sound =>
    /\ Entered = Bursts * Rounds + index
    /\ Laps \in Nat /\ active = Laps % 2

\* Every beat is the next of the arming.
BeatInv ==
  Sound =>
    /\ NextPosition = Moved
    /\ \A i \in 1 .. Len(wq) : Position(wq[i].rec, wq[i].beat) = Landed + i - 1
    /\ wOut # <<>> => Position(wOut[1].rec, wOut[1].beat) = Landed + Len(wq)

\* An address names the slot of its burst and, but for the last slot, the buffer
\* of its lap.
Aimed(a) ==
  LET e == a.rec - armRec - 1 IN
  a.slot = e % Bursts /\ (a.slot # Bursts - 1 => a.buf = (e \div Bursts) % 2)

\* Every address is the next of the arming.
AddressInv ==
  Sound =>
    /\ \A i \in 1 .. Len(awq) : awq[i].rec = armRec + Done + i /\ Aimed(awq[i])
    /\ awOut # <<>> => awOut[1].rec = armRec + Done + Len(awq) + 1 /\ Aimed(awOut[1])

\* LapsAccounted as far as it is the hardware's doing: it holds on when the
\* server is gone.
FullInv ==
  enable /\ enablePrev /\ "overwrite" \notin irq =>
    \/ full = {}
    \/ full = {1 - active} /\ lap[1 - active] = wraps /\ wraps > armWraps

\* Every beat landed in an inner slot is there until the burst two laps on.
MemoryInv ==
  Sound =>
    \A e \in 0 .. Done : \A j \in 0 .. Beats - 1 :
      /\ e % Bursts # Bursts - 1 /\ Done < e + 2 * Bursts
      /\ e = Done => j < wpos
      => ddr[(e \div Bursts) % 2][e % Bursts][j] = [rec |-> armRec + 1 + e, beat |-> j]

IInv ==
  /\ TypeOK /\ ResetInv /\ BurstInv /\ TurnInv /\ BeatInv /\ AddressInv
  /\ FullInv /\ MemoryInv

-----------------------------------------------------------------------------

\* Whatever the server writes, the registers move by one Clock of PingPong.
LEMMA EveryStepIsAClock ==
  ASSUME NEW wrap \in BOOLEAN, Regs!Tick(wrap, FALSE) \/ Regs!Writes(wrap, FALSE)
  PROVE  enablePrev' = enable /\ wraps' = IF wrap THEN wraps + 1 ELSE wraps
<1> USE DEF Regs!Clock
<1>1. CASE Regs!Tick(wrap, FALSE)
  BY <1>1 DEF Regs!Tick
<1>2. CASE Regs!StopDma(wrap, FALSE) \/ Regs!AckIrqs(wrap, FALSE)
  BY <1>2 DEF Regs!StopDma, Regs!AckIrqs
<1>3. CASE Regs!AckBuffers(wrap, FALSE) \/ Regs!EnableDma(wrap, FALSE)
  BY <1>3 DEF Regs!AckBuffers, Regs!EnableDma
<1>4. CASE Regs!EndBuffer(wrap, FALSE)
  BY <1>4 DEF Regs!EndBuffer
<1> QED
  BY <1>1, <1>2, <1>3, <1>4 DEF Regs!Writes

LEMMA PulseInit == Init => PulseInv
<1> SUFFICES ASSUME Init PROVE PulseInv
  OBVIOUS
<1>1. MaxRec \in Nat
  BY DmaWriterAssumption
<1>2. awPend = FALSE /\ awOut = <<>> /\ wraps = 0 /\ rec = 0
  BY DEF Init, Regs!Init
<1>3. awPend \in BOOLEAN
  BY <1>2
<1> QED
  BY <1>1, <1>2, <1>3 DEF PulseInv, Pending

\* A pulse finds the registers ready for it.
LEMMA PulseAllowed ==
  ASSUME PulseInv, NEW awready \in BOOLEAN
  PROVE  Regs!WriterMay(WrapPulse(awready))
<1>1. SUFFICES ASSUME WrapPulse(awready) PROVE enablePrev /\ wraps < MaxRec
  BY DEF Regs!WriterMay
<1>2. awOut # <<>>
  BY <1>1 DEF WrapPulse
<1>3. MaxRec \in Nat
  BY DmaWriterAssumption
<1> QED
  BY <1>2, <1>3 DEF PulseInv, Pending

\* One clock keeps the account of pulses and bursts.
LEMMA PulseClock ==
  ASSUME PulseInv, NEW avail \in BOOLEAN, NEW awready \in BOOLEAN,
         NEW wready \in BOOLEAN,
         avail => MayBeAvailable, WriterClock(avail, awready, wready),
         ArmingClock(avail), enablePrev' = enable,
         wraps' = IF WrapPulse(awready) THEN wraps + 1 ELSE wraps
  PROVE  PulseInv'
<1>1. MaxRec \in Nat
  BY DmaWriterAssumption
<1>2. /\ rec' \in Nat /\ rec' <= MaxRec /\ wraps' \in Nat
      /\ rec' = IF Begins(avail) THEN rec + 1 ELSE rec
  BY <1>1 DEF PulseInv, ArmingClock, Current, Begins, MayBeAvailable
<1>3. WrapPulse(awready) => awOut # <<>> /\ awready
  BY DEF WrapPulse
<1>4. CASE ~enable
  <2>1. awPend' = FALSE /\ awOut' = <<>>
    BY <1>4 DEF WriterClock
  <2>2. wraps' <= rec'
    BY <1>2, <1>3 DEF PulseInv, Pending
  <2>3. Pending' = 0
    BY <2>1 DEF Pending
  <2>4. awPend' \in BOOLEAN
    BY <2>1
  <2> QED
    BY <1>2, <2>1, <2>2, <2>3, <2>4 DEF PulseInv
<1>5. CASE enable /\ AwFree(awready)
  <2>1. awPend' = FALSE
    BY <1>5 DEF WriterClock, AwPendNext
  <2>2. awOut' # <<>> => Begins(avail) \/ awPend
    BY <1>5 DEF WriterClock, AwOutNext, AwIn
  <2>3. wraps' + (IF Begins(avail) \/ awPend THEN 1 ELSE 0) <= rec'
    BY <1>2, <1>3 DEF PulseInv, Pending
  <2>4. wraps' + (IF awOut' # <<>> THEN 1 ELSE 0) <= rec'
    BY <1>2, <2>2, <2>3
  <2>5. Pending' = IF awOut' # <<>> THEN 1 ELSE 0
    BY <2>1 DEF Pending
  <2>6. awPend' \in BOOLEAN
    BY <2>1
  <2> QED
    BY <1>2, <1>5, <2>4, <2>5, <2>6 DEF PulseInv
<1>6. CASE enable /\ ~AwFree(awready)
  <2>1. awOut # <<>> /\ ~awready
    BY <1>6 DEF AwFree
  <2>2. awPend' = (Begins(avail) \/ awPend) /\ awOut' = awOut /\ wraps' = wraps
    BY <1>3, <1>6, <2>1 DEF WriterClock, AwPendNext, AwOutNext, AwIn
  <2>3. awPend' \in BOOLEAN
    BY <2>2
  <2> QED
    BY <1>2, <1>6, <2>1, <2>2, <2>3 DEF PulseInv, Pending
<1> QED
  BY <1>4, <1>5, <1>6

LEMMA PulseStep == PulseInv /\ [Next]_vars => PulseInv'
<1> SUFFICES ASSUME PulseInv, [Next]_vars PROVE PulseInv'
  OBVIOUS
<1>1. CASE Clock
  <2>1. PICK avail \in BOOLEAN, awready \in BOOLEAN, wready \in BOOLEAN :
          /\ avail => MayBeAvailable
          /\ WriterClock(avail, awready, wready)
          /\ ArmingClock(avail)
          /\ \/ Regs!Tick(WrapPulse(awready), FALSE)
             \/ Regs!Writes(WrapPulse(awready), FALSE)
    BY <1>1 DEF Clock
  <2>2. WrapPulse(awready) \in BOOLEAN
    BY DEF WrapPulse
  <2>3. /\ enablePrev' = enable
        /\ wraps' = IF WrapPulse(awready) THEN wraps + 1 ELSE wraps
    BY <2>1, <2>2, EveryStepIsAClock
  <2> QED
    BY <2>1, <2>3, PulseClock, Zenon
<1>2. CASE ServerStep
  BY <1>2 DEF ServerStep, Regs!ServerStep, Regs!PollStatus, Regs!BeginBuffer,
     Regs!FailBuffer, Regs!Die, Regs!regs, writer, arming, PulseInv, Pending
<1>3. CASE Land
  BY <1>3 DEF Land, registers, writer, arming, PulseInv, Pending
<1>4. CASE UNCHANGED vars
  BY <1>4 DEF vars, registers, writer, arming, PulseInv, Pending
<1> QED
  BY <1>1, <1>2, <1>3, <1>4 DEF Next

\* The writer with its port, the registers and the server implement PingPong:
\* the initial states are PingPong's, and every clock is one of its clocks,
\* every other step one of its server steps or a stutter.
THEOREM Implementation == Spec => ImplementsPingPong
<1>1. Init => Regs!Init
  BY DEF Init
<1>2. PulseInv /\ [Next]_vars => [Regs!Next]_(Regs!vars)
  <2> SUFFICES ASSUME PulseInv, [Next]_vars PROVE [Regs!Next]_(Regs!vars)
    OBVIOUS
  <2>1. CASE Clock
    <3>1. PICK awready \in BOOLEAN :
            \/ Regs!Tick(WrapPulse(awready), FALSE)
            \/ Regs!Writes(WrapPulse(awready), FALSE)
      BY <2>1 DEF Clock
    <3>2. WrapPulse(awready) \in BOOLEAN /\ FALSE \in BOOLEAN
      BY DEF WrapPulse
    <3>3. Regs!WriterMay(WrapPulse(awready))
      BY PulseAllowed
    <3> QED
      BY <3>1, <3>2, <3>3, Zenon DEF Regs!Next
  <2>2. CASE ServerStep
    BY <2>2 DEF ServerStep, Regs!Next
  <2>3. CASE Land
    BY <2>3 DEF Land, registers, Regs!vars, Regs!regs, Regs!server, Regs!history
  <2>4. CASE UNCHANGED vars
    BY <2>4 DEF vars, registers, Regs!vars, Regs!regs, Regs!server, Regs!history
  <2> QED
    BY <2>1, <2>2, <2>3, <2>4 DEF Next
<1> QED
  BY <1>1, <1>2, PulseInit, PulseStep, PTL DEF Spec, ImplementsPingPong, Regs!Spec

-----------------------------------------------------------------------------
(* PingPongProofs and DmaWriter name the same PingPong. *)

LEMMA SameClock ==
  ASSUME NEW wrap, NEW berr, NEW ctrl, NEW irqAck, NEW bufAck
  PROVE  /\ Regs!WriterMay(wrap) <=> HS!WriterMay(wrap)
         /\ Regs!Clock(wrap, berr, ctrl, irqAck, bufAck)
              <=> HS!Clock(wrap, berr, ctrl, irqAck, bufAck)
BY DEF Regs!WriterMay, HS!WriterMay, Regs!Clock, HS!Clock, Regs!FullNext, HS!FullNext,
     Regs!IrqNext, HS!IrqNext, Regs!ActiveNext, HS!ActiveNext,
     Regs!Overrun, HS!Overrun, Regs!Rise, HS!Rise

LEMMA SameWrites ==
  ASSUME NEW wrap, NEW berr
  PROVE  /\ Regs!Tick(wrap, berr) <=> HS!Tick(wrap, berr)
         /\ Regs!Writes(wrap, berr) <=> HS!Writes(wrap, berr)
<1> USE DEF Regs!Rebase, HS!Rebase, Regs!Rise, HS!Rise, Regs!Idle, HS!Idle,
            Regs!None, HS!None
<1>1. Regs!Tick(wrap, berr) <=> HS!Tick(wrap, berr)
  BY SameClock DEF Regs!Tick, HS!Tick, Regs!server, HS!server
<1>2. Regs!StopDma(wrap, berr) <=> HS!StopDma(wrap, berr)
  BY SameClock DEF Regs!StopDma, HS!StopDma
<1>3. Regs!AckIrqs(wrap, berr) <=> HS!AckIrqs(wrap, berr)
  BY SameClock DEF Regs!AckIrqs, HS!AckIrqs, Regs!Irqs, HS!Irqs
<1>4. Regs!AckBuffers(wrap, berr) <=> HS!AckBuffers(wrap, berr)
  <2>1. Regs!Buffers = HS!Buffers /\ Regs!FullCount = HS!FullCount
    BY DEF Regs!Buffers, HS!Buffers, Regs!FullCount, HS!FullCount, Regs!Cardinality, HS!Cardinality
  <2>2. Regs!Clock(wrap, berr, enable, {}, Regs!Buffers)
          <=> HS!Clock(wrap, berr, enable, {}, HS!Buffers)
    BY <2>1, SameClock
  <2> QED
    BY <2>1, <2>2 DEF Regs!AckBuffers, HS!AckBuffers
<1>5. Regs!EnableDma(wrap, berr) <=> HS!EnableDma(wrap, berr)
  BY SameClock DEF Regs!EnableDma, HS!EnableDma
<1>6. Regs!EndBuffer(wrap, berr) <=> HS!EndBuffer(wrap, berr)
  BY SameClock DEF Regs!EndBuffer, HS!EndBuffer
<1> QED
  BY <1>1, <1>2, <1>3, <1>4, <1>5, <1>6 DEF Regs!Writes, HS!Writes

LEMMA SameSpec == Regs!Spec => HS!Spec
<1> USE DEF Regs!regs, HS!regs, Regs!server, HS!server, Regs!history, HS!history
<1>1. Regs!Init => HS!Init
  BY DEF Regs!Init, HS!Init, Regs!None, HS!None, Regs!Buffers, HS!Buffers
<1>2. Regs!ServerStep <=> HS!ServerStep
  BY DEF Regs!ServerStep, HS!ServerStep, Regs!PollStatus, HS!PollStatus,
       Regs!BeginBuffer, HS!BeginBuffer, Regs!FailBuffer, HS!FailBuffer, Regs!Die, HS!Die,
       Regs!Idle, HS!Idle, Regs!None, HS!None, Regs!Buffers, HS!Buffers
<1>3. Regs!Next <=> HS!Next
  BY <1>2, SameClock, SameWrites DEF Regs!Next, HS!Next
<1>4. [Regs!Next]_(Regs!vars) => [HS!Next]_(HS!vars)
  BY <1>3 DEF Regs!vars, HS!vars
<1> QED
  BY <1>1, <1>4, PTL DEF Regs!Spec, HS!Spec

\* So what is proved of the handshake holds under the writer.
LEMMA HandshakeHolds == Spec => []HS!IInv
<1>1. MaxRec \in Nat
  BY DmaWriterAssumption
<1>2. HS!Spec => []HS!IInv
  BY <1>1, HS!Invariance
<1> QED
  BY <1>2, Implementation, SameSpec, PTL DEF ImplementsPingPong

\* What the writer needs to know of it.
LEMMA Handshake ==
  ASSUME HS!IInv
  PROVE  /\ Regs!TypeOK
         /\ enable \in BOOLEAN /\ enablePrev \in BOOLEAN
         /\ active \in {0, 1} /\ full \in SUBSET {0, 1}
         /\ wraps \in Nat /\ lap \in [{0, 1} -> Nat]
         /\ enable => pc # "stopped"
BY DEF HS!IInv, HS!TypeOK, HS!ArmingInv, Regs!TypeOK, HS!Buffers, Regs!Buffers,
     HS!Irqs, Regs!Irqs, HS!None, Regs!None

-----------------------------------------------------------------------------
(* Division. *)

LEMMA DivisionIs ==
  ASSUME NEW d \in Nat \ {0}, NEW a \in Int
  PROVE  /\ a % d \in 0 .. d - 1 /\ a \div d \in Int
         /\ a = d * (a \div d) + (a % d)
OBVIOUS

\* A quotient and a remainder are unique.
LEMMA QuotientUnique ==
  ASSUME NEW d \in Nat \ {0}, NEW p \in Int, NEW q \in Int,
         NEW r \in 0 .. d - 1, NEW s \in 0 .. d - 1, d * p + r = d * q + s
  PROVE  p = q /\ r = s
<1>1. d * (p - q) = s - r /\ d * (q - p) = r - s
  OBVIOUS
<1>2. \A k \in Int : k >= 1 => d * k >= d
  OBVIOUS
<1>3. ~(p - q >= 1)
  BY <1>1, <1>2
<1>4. ~(q - p >= 1)
  BY <1>1, <1>2
<1>5. p = q
  BY <1>3, <1>4
<1> QED
  BY <1>1, <1>5

LEMMA DivideBy ==
  ASSUME NEW d \in Nat \ {0}, NEW q \in Int, NEW r \in 0 .. d - 1
  PROVE  (d * q + r) \div d = q /\ (d * q + r) % d = r
<1> DEFINE a == d * q + r
<1>1. a \in Int
  OBVIOUS
<1>2. /\ a % d \in 0 .. d - 1 /\ a \div d \in Int
      /\ a = d * (a \div d) + (a % d)
  BY <1>1, DivisionIs
<1>3. d * q + r = d * (a \div d) + (a % d)
  BY <1>2
<1> HIDE DEF a
<1>4. q = a \div d /\ r = a % d
  BY <1>2, <1>3, QuotientUnique
<1> QED
  BY <1>4 DEF a

-----------------------------------------------------------------------------
(* One clock edge. *)

Edge(avail, awready, wready) ==
  /\ avail => MayBeAvailable
  /\ WriterClock(avail, awready, wready)
  /\ PortClock(awready, wready)
  /\ ArmingClock(avail)
  /\ \/ Regs!Tick(WrapPulse(awready), FALSE)
     \/ Regs!Writes(WrapPulse(awready), FALSE)

\* Whatever the server writes, the registers take one clock, and while DMA is
\* enabled nobody clears the sticky bits.
LEMMA RegistersEdge ==
  ASSUME HS!IInv, NEW wrap \in BOOLEAN, Regs!Tick(wrap, FALSE) \/ Regs!Writes(wrap, FALSE)
  PROVE  /\ enablePrev' = enable
         /\ \E ctrl, irqAck, bufAck :
              /\ Regs!Clock(wrap, FALSE, ctrl, irqAck, bufAck)
              /\ enable => irqAck = {}
<1>1. CASE Regs!Tick(wrap, FALSE)
  BY <1>1 DEF Regs!Tick, Regs!Clock
<1>2. CASE Regs!StopDma(wrap, FALSE)
  BY <1>2 DEF Regs!StopDma, Regs!Clock
<1>3. CASE Regs!AckIrqs(wrap, FALSE)
  <2>1. ~enable
    BY <1>3, Handshake DEF Regs!AckIrqs
  <2> QED
    BY <1>3, <2>1 DEF Regs!AckIrqs, Regs!Clock
<1>4. CASE Regs!AckBuffers(wrap, FALSE)
  BY <1>4 DEF Regs!AckBuffers, Regs!Clock
<1>5. CASE Regs!EnableDma(wrap, FALSE)
  BY <1>5 DEF Regs!EnableDma, Regs!Clock
<1>6. CASE Regs!EndBuffer(wrap, FALSE)
  BY <1>6 DEF Regs!EndBuffer, Regs!Clock
<1> QED
  BY <1>1, <1>2, <1>3, <1>4, <1>5, <1>6 DEF Regs!Writes

\* The clock that resets the registers finds the writer in its reset, and leaves
\* it there.
LEMMA FirstEdge ==
  ASSUME HS!IInv, ResetInv, NEW avail \in BOOLEAN, NEW awready \in BOOLEAN,
         NEW wready \in BOOLEAN, Edge(avail, awready, wready), Regs!Rise
  PROVE  /\ awPend' = FALSE /\ wBusy' = FALSE /\ cntr' = 0 /\ index' = 0
         /\ awOut' = <<>> /\ wOut' = <<>> /\ UNCHANGED <<awq, wq, wpos, ddr>>
         /\ rec' = rec /\ armRec' = rec /\ armWraps' = wraps
         /\ clean' = (awq = <<>> /\ wq = <<>> /\ wpos = 0)
         /\ wraps' = wraps /\ active' = 0 /\ full' = {}
<1>1. enable /\ ~enablePrev
  BY DEF Regs!Rise
<1>2. ~avail /\ ~Begins(avail)
  BY <1>1 DEF Edge, MayBeAvailable, Begins
<1>3. /\ awPend = FALSE /\ wBusy = FALSE /\ cntr = 0 /\ index = 0
      /\ awOut = <<>> /\ wOut = <<>>
  BY <1>1 DEF ResetInv
<1>4. ~awready /\ ~wready
  BY <1>3 DEF Edge, PortClock
<1>5. WrapPulse(awready) = FALSE
  BY <1>4 DEF WrapPulse
<1>6. /\ awPend' = FALSE /\ wBusy' = FALSE /\ cntr' = 0 /\ index' = 0
      /\ awOut' = <<>> /\ wOut' = <<>>
  BY <1>1, <1>2, <1>3 DEF Edge, WriterClock, AwPendNext, IndexNext, AwOutNext, WBusyNext,
     CntrNext, WOutNext, AwIn, WIn, AwFree, WFree
<1>7. UNCHANGED <<awq, wq, wpos, ddr>>
  BY <1>4 DEF Edge, PortClock
<1>8. /\ rec' = rec /\ armRec' = rec /\ armWraps' = wraps
      /\ clean' = (awq = <<>> /\ wq = <<>> /\ wpos = 0)
  BY <1>2 DEF Edge, ArmingClock, Current, Regs!Rise
<1>9. \E ctrl, irqAck, bufAck : Regs!Clock(FALSE, FALSE, ctrl, irqAck, bufAck)
  BY <1>5, RegistersEdge DEF Edge
<1>10. wraps' = wraps /\ active' = 0 /\ full' = {}
  BY <1>9 DEF Regs!Clock, Regs!ActiveNext, Regs!FullNext
<1> QED
  BY <1>6, <1>7, <1>8, <1>10

\* An arming under way goes on, or ends.
LEMMA NextEdge ==
  ASSUME HS!IInv, rec \in Nat, NEW avail \in BOOLEAN, NEW awready \in BOOLEAN,
         NEW wready \in BOOLEAN, Edge(avail, awready, wready), ~Regs!Rise
  PROVE  /\ UNCHANGED <<armRec, armWraps, clean>>
         /\ Sound' => Sound
         /\ enable' /\ enablePrev' => enable /\ enablePrev
         /\ rec' = rec + Flag(Begins(avail))
         /\ wraps' = wraps + Flag(WrapPulse(awready))
         /\ active' = IF WrapPulse(awready) THEN 1 - active ELSE active
<1>1. UNCHANGED <<armRec, armWraps, clean>>
  BY DEF Edge, ArmingClock
<1>2. WrapPulse(awready) \in BOOLEAN
  BY DEF WrapPulse
<1>3. /\ enablePrev' = enable
      /\ \E ctrl, irqAck, bufAck : Regs!Clock(WrapPulse(awready), FALSE, ctrl, irqAck, bufAck)
  BY <1>2, RegistersEdge DEF Edge
<1>4. enable' /\ enablePrev' => enable /\ enablePrev
  BY <1>3 DEF Regs!Rise
<1>5. Sound' => Sound
  BY <1>1, <1>4 DEF Sound
<1>6. rec' = rec + Flag(Begins(avail))
  BY DEF Edge, ArmingClock, Current, Flag
<1>7. wraps' = IF WrapPulse(awready) THEN wraps + 1 ELSE wraps
  BY <1>3 DEF Regs!Clock
<1>8. active' = IF WrapPulse(awready) THEN 1 - active ELSE active
  BY <1>3 DEF Regs!Clock, Regs!ActiveNext
<1>9. wraps' = wraps + Flag(WrapPulse(awready))
  BY <1>7, Handshake DEF Flag
<1> QED
  BY <1>1, <1>4, <1>5, <1>6, <1>8, <1>9

-----------------------------------------------------------------------------
(* Types, and what holds outside an arming too. *)

LEMMA InitInv == Init => IInv
<1> SUFFICES ASSUME Init PROVE IInv
  OBVIOUS
<1>0. /\ awPend = FALSE /\ wBusy = FALSE /\ cntr = 0 /\ index = 0
      /\ awOut = <<>> /\ wOut = <<>> /\ awq = <<>> /\ wq = <<>> /\ wpos = 0
      /\ rec = 0 /\ armRec = 0 /\ armWraps = 0 /\ clean = TRUE
      /\ enable = FALSE /\ enablePrev = FALSE /\ wraps = 0
      /\ ddr = [b \in Regs!Buffers |-> [s \in Slots |-> [j \in 0 .. Beats - 1 |-> NoBeat]]]
  BY DEF Init, Regs!Init
<1>1. TypeOK
  <2>1. Regs!TypeOK
    BY DEF Init, Regs!Init, Regs!TypeOK, Regs!Buffers, Regs!None
  <2>2. /\ awPend \in BOOLEAN /\ wBusy \in BOOLEAN /\ clean \in BOOLEAN
    BY <1>0
  <2>3. /\ awOut \in Seq(Addresses) /\ awq \in Seq(Addresses)
        /\ wOut \in Seq(WordBeats) /\ wq \in Seq(WordBeats)
        /\ Len(awOut) = 0 /\ Len(awq) = 0 /\ Len(wOut) = 0
    BY <1>0
  <2>4. NoBeat \in WordBeats
    BY DmaWriterAssumption DEF NoBeat, WordBeats
  <2>5. ddr \in [Regs!Buffers -> [Slots -> [0 .. Beats - 1 -> WordBeats]]]
    BY <1>0, <2>4
  <2>6. /\ cntr \in 0 .. Beats - 1 /\ index \in Slots /\ wpos \in 0 .. Beats - 1
        /\ rec \in 0 .. MaxRec /\ armRec \in 0 .. rec /\ armWraps \in 0 .. wraps
    BY <1>0, DmaWriterAssumption DEF Slots
  <2> QED
    BY <2>1, <2>2, <2>3, <2>5, <2>6, DmaWriterAssumption DEF TypeOK
<1>2. ResetInv
  <2>1. Beats * 0 = 0
    BY DmaWriterAssumption
  <2>2. Unaddressed = 0
    BY <1>0, <2>1 DEF Unaddressed
  <2> QED
    BY <1>0, <2>2, DmaWriterAssumption DEF ResetInv
<1>3. BurstInv /\ TurnInv /\ BeatInv /\ AddressInv /\ FullInv /\ MemoryInv
  BY <1>0 DEF BurstInv, TurnInv, BeatInv, AddressInv, FullInv, MemoryInv, Sound
<1> QED
  BY <1>1, <1>2, <1>3 DEF IInv

\* An output register holds one or none.
LEMMA OneOrNone ==
  ASSUME NEW S, NEW s \in Seq(S), Len(s) <= 1, NEW x \in S, NEW t \in {s, <<>>, <<x>>}
  PROVE  t \in Seq(S) /\ Len(t) <= 1
<1>1. /\ <<>> \in Seq(S) /\ Len(<<>>) <= 1
      /\ <<x>> \in Seq(S) /\ Len(<<x>>) <= 1
  OBVIOUS
<1>2. t = s \/ t = <<>> \/ t = <<x>>
  OBVIOUS
<1> QED
  BY <1>1, <1>2, Zenon

\* The two output registers and the counters keep their types.
LEMMA WriterTypes ==
  ASSUME TypeOK, NEW avail \in BOOLEAN, NEW awready \in BOOLEAN, NEW wready \in BOOLEAN,
         WriterClock(avail, awready, wready)
  PROVE  /\ awPend' \in BOOLEAN /\ wBusy' \in BOOLEAN
         /\ cntr' \in 0 .. Beats - 1 /\ index' \in Slots
         /\ awOut' \in Seq(Addresses) /\ Len(awOut') <= 1
         /\ wOut' \in Seq(WordBeats) /\ Len(wOut') <= 1
<1>1. awPend' \in BOOLEAN /\ wBusy' \in BOOLEAN
  BY DEF WriterClock, AwPendNext, WBusyNext
<1>2. cntr' \in 0 .. Beats - 1
  <2>1. (cntr + 1) % Beats \in 0 .. Beats - 1
    BY DmaWriterAssumption DEF TypeOK
  <2> QED
    BY <2>1, DmaWriterAssumption DEF WriterClock, CntrNext, TypeOK
<1>3. index' \in Slots
  BY DmaWriterAssumption DEF WriterClock, IndexNext, TypeOK, Slots
<1>4. Current(avail) \in Nat
  BY DmaWriterAssumption DEF Current, TypeOK
<1>5. awOut' \in Seq(Addresses) /\ Len(awOut') <= 1
  <2>1. Address(avail) \in Addresses
    BY <1>4 DEF Address, Addresses, TypeOK, Regs!TypeOK
  <2>2. awOut' \in {awOut, <<>>, <<Address(avail)>>}
    BY DEF WriterClock, AwOutNext
  <2>3. awOut \in Seq(Addresses) /\ Len(awOut) <= 1
    BY DEF TypeOK
  <2> QED
    BY <2>1, <2>2, <2>3, OneOrNone
<1>6. wOut' \in Seq(WordBeats) /\ Len(wOut') <= 1
  <2> DEFINE moved == [rec |-> Current(avail), beat |-> cntr]
  <2>1. moved \in WordBeats
    BY <1>4 DEF WordBeats, TypeOK
  <2>2. wOut' \in {wOut, <<>>, <<moved>>}
    BY DEF WriterClock, WOutNext
  <2>3. wOut \in Seq(WordBeats) /\ Len(wOut) <= 1
    BY DEF TypeOK
  <2> HIDE DEF moved
  <2> QED
    BY <2>1, <2>2, <2>3, OneOrNone
<1> QED
  BY <1>1, <1>2, <1>3, <1>5, <1>6

LEMMA EdgeTypes ==
  ASSUME TypeOK, HS!IInv, HS!IInv', PulseInv', NEW avail \in BOOLEAN,
         NEW awready \in BOOLEAN, NEW wready \in BOOLEAN, Edge(avail, awready, wready)
  PROVE  TypeOK'
<1>1. Regs!TypeOK'
  BY DEF HS!IInv, HS!TypeOK, Regs!TypeOK, HS!Buffers, Regs!Buffers, HS!Irqs, Regs!Irqs,
     HS!None, Regs!None
<1>2. awq' \in Seq(Addresses) /\ Len(awq') <= AwDepth
  <2>1. CASE awready
    <3>1. awq' = awq \o awOut /\ Len(awq) < AwDepth
      BY <2>1 DEF Edge, PortClock
    <3>2. awq \in Seq(Addresses) /\ awOut \in Seq(Addresses) /\ Len(awOut) <= 1
      BY DEF TypeOK
    <3>3. awq' \in Seq(Addresses) /\ Len(awq') = Len(awq) + Len(awOut)
      BY <3>1, <3>2, ConcatProperties
    <3> QED
      BY <3>1, <3>2, <3>3, DmaWriterAssumption
  <2>2. CASE ~awready
    BY <2>2 DEF Edge, PortClock, TypeOK
  <2> QED
    BY <2>1, <2>2
<1>3. wq' \in Seq(WordBeats) /\ UNCHANGED <<wpos, ddr>>
  <2>1. wq' \in {wq, wq \o wOut} /\ UNCHANGED <<wpos, ddr>>
    BY DEF Edge, PortClock
  <2>2. wq \in Seq(WordBeats) /\ wOut \in Seq(WordBeats)
    BY DEF TypeOK
  <2> QED
    BY <2>1, <2>2, ConcatProperties
<1>4. rec' \in 0 .. MaxRec /\ rec' >= rec
  BY DmaWriterAssumption DEF Edge, ArmingClock, Current, TypeOK, PulseInv
<1>5. armRec' \in 0 .. rec'
  BY <1>4 DEF Edge, ArmingClock, TypeOK
<1>6. wraps' \in Nat /\ wraps' >= wraps
  <2>1. WrapPulse(awready) \in BOOLEAN
    BY DEF WrapPulse
  <2>2. wraps' \in {wraps, wraps + 1}
    BY <2>1, RegistersEdge DEF Edge, Regs!Clock
  <2> QED
    BY <2>2, Handshake
<1>7. armWraps' \in 0 .. wraps'
  BY <1>6, Handshake DEF Edge, ArmingClock, TypeOK
<1>8. clean' \in BOOLEAN
  <2>1. clean' \in {clean, (awq = <<>> /\ wq = <<>> /\ wpos = 0)}
    BY DEF Edge, ArmingClock
  <2> QED
    BY <2>1 DEF TypeOK
<1>9. /\ awPend' \in BOOLEAN /\ wBusy' \in BOOLEAN
      /\ cntr' \in 0 .. Beats - 1 /\ index' \in Slots
      /\ awOut' \in Seq(Addresses) /\ Len(awOut') <= 1
      /\ wOut' \in Seq(WordBeats) /\ Len(wOut') <= 1
  BY WriterTypes DEF Edge
<1>10. wpos' \in 0 .. Beats - 1 /\ ddr' \in [Regs!Buffers -> [Slots -> [0 .. Beats - 1 -> WordBeats]]]
  BY <1>3 DEF TypeOK
<1> QED
  BY <1>1, <1>2, <1>3, <1>4, <1>5, <1>7, <1>8, <1>9, <1>10 DEF TypeOK

LEMMA LandTypes ==
  ASSUME TypeOK, Land
  PROVE  TypeOK'
<1>1. awq \in Seq(Addresses) /\ awq # <<>> /\ wq \in Seq(WordBeats) /\ wq # <<>>
  BY DEF Land, TypeOK
<1>2. /\ Head(awq) \in Addresses /\ Tail(awq) \in Seq(Addresses) /\ Len(Tail(awq)) = Len(awq) - 1
      /\ Head(wq) \in WordBeats /\ Tail(wq) \in Seq(WordBeats)
      /\ Len(awq) \in Nat
  BY <1>1, HeadTailProperties, LenProperties
<1>3. awq' \in Seq(Addresses) /\ Len(awq') <= AwDepth
  BY <1>1, <1>2, DmaWriterAssumption DEF Land, TypeOK
<1>4. wq' \in Seq(WordBeats)
  BY <1>2 DEF Land
<1>5. wpos' \in 0 .. Beats - 1
  BY DmaWriterAssumption DEF Land, TypeOK
<1>6. ddr' \in [Regs!Buffers -> [Slots -> [0 .. Beats - 1 -> WordBeats]]]
  <2> DEFINE a == Head(awq)
             x == Head(wq)
  <2>1. a.buf \in Regs!Buffers /\ a.slot \in Slots /\ x \in WordBeats
    BY <1>2 DEF Addresses
  <2>2. ddr' = [ddr EXCEPT ![a.buf][a.slot][wpos] = x]
    BY DEF Land
  <2> HIDE DEF a, x
  <2> QED
    BY <2>1, <2>2 DEF TypeOK
<1>7. UNCHANGED <<registers, writer, arming>>
  BY DEF Land
<1> QED
  BY <1>3, <1>4, <1>5, <1>6, <1>7 DEF TypeOK, Regs!TypeOK, registers, writer, arming

LEMMA CountOn ==
  ASSUME NEW d \in Nat \ {0}, NEW x \in 0 .. d - 1
  PROVE  (x + 1) % d = IF x = d - 1 THEN 0 ELSE x + 1
<1>1. CASE x = d - 1
  <2>1. x + 1 = d * 1 + 0 /\ 0 \in 0 .. d - 1
    BY <1>1
  <2> QED
    BY <1>1, <2>1, DivideBy
<1>2. CASE x # d - 1
  BY <1>2
<1> QED
  BY <1>1, <1>2

-----------------------------------------------------------------------------
(* Beats and addresses in one clock of an arming. *)

LEMMA BeatMoves ==
  ASSUME TypeOK, BurstInv, Sound, NEW avail \in BOOLEAN, NEW awready \in BOOLEAN,
         NEW wready \in BOOLEAN, Edge(avail, awready, wready),
         rec' = rec + Flag(Begins(avail)), armRec' = armRec
  PROVE  /\ NextPosition' = NextPosition + Flag(WIn(avail) /\ WFree(wready))
         /\ ~wBusy' => cntr' = 0
         /\ wBusy' => rec' > armRec'
         /\ Begins(avail) => wBusy'
<1> DEFINE base(r) == Beats * (r - armRec - 1)
<1>1. /\ rec \in Nat /\ armRec \in Nat /\ armRec <= rec /\ Beats \in Nat /\ Beats >= 2
      /\ cntr \in 0 .. Beats - 1 /\ wBusy \in BOOLEAN /\ avail \in BOOLEAN
  BY DmaWriterAssumption DEF TypeOK
<1>2. /\ ~wBusy => cntr = 0
      /\ wBusy => rec > armRec
      /\ wBusy' = WBusyNext(avail, wready) /\ cntr' = CntrNext(avail, wready)
  BY DEF BurstInv, Sound, Edge, WriterClock
<1>3. \A r \in Nat : base(r) \in Int /\ base(r + 1) = base(r) + Beats
  BY <1>1
<1>4. /\ NextPosition = IF wBusy THEN base(rec) + cntr ELSE base(rec + 1) + 0
      /\ NextPosition' = IF wBusy' THEN base(rec') + cntr' ELSE base(rec' + 1) + 0
  BY DEF NextPosition, Position
<1>5. (cntr + 1) % Beats = IF cntr = Beats - 1 THEN 0 ELSE cntr + 1
  BY <1>1, CountOn
<1> HIDE DEF base
<1>6. CASE Begins(avail) /\ WFree(wready)
  <2>1. ~wBusy /\ rec' = rec + 1 /\ WIn(avail) /\ ~LastBeat /\ cntr = 0
    BY <1>1, <1>2, <1>6 DEF Begins, WIn, LastBeat, Flag
  <2>2. wBusy' = TRUE
    BY <1>2, <2>1 DEF WBusyNext
  <2>3. (cntr + 1) % Beats = 1
    BY <1>1, <1>5, <2>1
  <2>4. cntr' = 1
    BY <1>2, <1>6, <2>1, <2>3 DEF CntrNext
  <2> QED
    BY <1>1, <1>3, <1>4, <1>6, <2>1, <2>2, <2>4 DEF Flag
<1>7. CASE Begins(avail) /\ ~WFree(wready)
  <2>1. ~wBusy /\ rec' = rec + 1 /\ WIn(avail)
    BY <1>7 DEF Begins, WIn, Flag
  <2>2. wBusy' = TRUE /\ cntr' = 0
    BY <1>2, <1>7, <2>1 DEF WBusyNext, CntrNext
  <2> QED
    BY <1>1, <1>3, <1>4, <1>7, <2>1, <2>2 DEF Flag
<1>8. CASE wBusy /\ WFree(wready)
  <2>1. ~Begins(avail) /\ rec' = rec /\ WIn(avail)
    BY <1>1, <1>8 DEF Begins, WIn, Flag
  <2>2. CASE LastBeat
    <3>1. wBusy' = FALSE /\ cntr' = 0 /\ cntr = Beats - 1
      BY <1>2, <1>5, <1>8, <2>1, <2>2 DEF WBusyNext, CntrNext, LastBeat
    <3> QED
      BY <1>1, <1>3, <1>4, <1>8, <2>1, <3>1 DEF Flag
  <2>3. CASE ~LastBeat
    <3>1. wBusy' = TRUE /\ cntr' = cntr + 1
      BY <1>2, <1>5, <1>8, <2>1, <2>3 DEF WBusyNext, CntrNext, LastBeat
    <3> QED
      BY <1>1, <1>2, <1>3, <1>4, <1>8, <2>1, <3>1 DEF Flag
  <2> QED
    BY <2>2, <2>3
<1>9. CASE wBusy /\ ~WFree(wready)
  <2>1. ~Begins(avail) /\ rec' = rec /\ WIn(avail)
    BY <1>1, <1>9 DEF Begins, WIn, Flag
  <2>2. wBusy' = TRUE /\ cntr' = cntr
    BY <1>2, <1>9, <2>1 DEF WBusyNext, CntrNext
  <2> QED
    BY <1>1, <1>2, <1>3, <1>4, <1>9, <2>1, <2>2 DEF Flag
<1>10. CASE ~wBusy /\ ~Begins(avail)
  <2>1. rec' = rec /\ ~WIn(avail)
    BY <1>1, <1>10 DEF WIn, Flag
  <2>2. wBusy' = FALSE /\ cntr' = cntr
    BY <1>2, <1>10, <2>1 DEF WBusyNext, CntrNext
  <2> QED
    BY <1>1, <1>2, <1>3, <1>4, <1>10, <2>1, <2>2 DEF Flag
<1> QED
  BY <1>6, <1>7, <1>8, <1>9, <1>10

\* The beat moved is the last in the writer and the port; the others stand where
\* they stood.
LEMMA BeatsQueue ==
  ASSUME TypeOK, enable, NEW avail \in BOOLEAN, NEW awready \in BOOLEAN,
         NEW wready \in BOOLEAN, Edge(avail, awready, wready)
  PROVE  LET moves == WIn(avail) /\ WFree(wready)
             moved == [rec |-> Current(avail), beat |-> cntr]
         IN
         /\ Len(wq') + Len(wOut') = Len(wq) + Len(wOut) + Flag(moves)
         /\ \A i \in 1 .. Len(wq') :
              \/ i <= Len(wq) /\ wq'[i] = wq[i]
              \/ i = Len(wq) + 1 /\ wOut # <<>> /\ wq'[i] = wOut[1]
         /\ wOut' # <<>> =>
              \/ moves /\ wOut'[1] = moved
              \/ ~moves /\ wOut' = wOut /\ wq' = wq
         /\ wOut' # <<>> => Len(wOut') = 1
<1> DEFINE moves == WIn(avail) /\ WFree(wready)
           moved == [rec |-> Current(avail), beat |-> cntr]
<1>1. /\ wq \in Seq(WordBeats) /\ wOut \in Seq(WordBeats) /\ Len(wOut) <= 1
      /\ Len(wq) \in Nat /\ Len(wOut) \in Nat
  BY LenProperties DEF TypeOK
<1>2. wOut # <<>> => Len(wOut) = 1
  <2>1. wOut \in Seq(WordBeats)
    BY <1>1
  <2>2. wOut # <<>> => Len(wOut) \in Nat \ {0}
    BY <2>1, EmptySeq
  <2>3. \A n \in Nat \ {0} : n <= 1 => n = 1
    OBVIOUS
  <2>4. Len(wOut) <= 1
    BY <1>1
  <2> QED
    BY <2>2, <2>3, <2>4, Zenon
<1>3. wOut = <<>> => Len(wOut) = 0
  OBVIOUS
<1>4. /\ wOut' = WOutNext(avail, wready)
      /\ wready => wOut # <<>>
      /\ wq' = IF wready THEN wq \o wOut ELSE wq
  BY DEF Edge, WriterClock, PortClock
<1>5. Len(<<moved>>) = 1 /\ <<moved>>[1] = moved /\ <<moved>> # <<>>
  OBVIOUS
<1>6. moves \in BOOLEAN
  OBVIOUS
<1>7. CASE WFree(wready)
  <2>1. wOut' = IF moves THEN <<moved>> ELSE <<>>
    BY <1>4, <1>7 DEF WOutNext
  <2>2. Len(wOut') = Flag(moves)
    BY <1>5, <2>1 DEF Flag
  <2>3. /\ Len(wq') = Len(wq) + Len(wOut)
        /\ \A i \in 1 .. Len(wq') :
             \/ i <= Len(wq) /\ wq'[i] = wq[i]
             \/ i = Len(wq) + 1 /\ wOut # <<>> /\ wq'[i] = wOut[1]
    <3>1. CASE wready
      <4>1. wq' = wq \o wOut /\ wOut # <<>> /\ Len(wOut) = 1
        BY <1>2, <1>4, <3>1
      <4>2. /\ Len(wq \o wOut) = Len(wq) + 1
            /\ \A i \in 1 .. Len(wq) + 1 :
                 (wq \o wOut)[i] = IF i <= Len(wq) THEN wq[i] ELSE wOut[i - Len(wq)]
        <5>1. /\ Len(wq \o wOut) = Len(wq) + Len(wOut)
              /\ \A i \in 1 .. Len(wq) + Len(wOut) :
                   (wq \o wOut)[i] = IF i <= Len(wq) THEN wq[i] ELSE wOut[i - Len(wq)]
          BY <1>1, ConcatProperties, Zenon
        <5> QED
          BY <4>1, <5>1, Zenon
      <4>3. \A i \in 1 .. Len(wq) + 1 : ~(i <= Len(wq)) => i = Len(wq) + 1 /\ i - Len(wq) = 1
        BY <1>1
      <4> QED
        BY <4>1, <4>2, <4>3
    <3>2. CASE ~wready
      <4>1. wq' = wq /\ wOut = <<>>
        BY <1>4, <1>7, <3>2 DEF WFree
      <4> QED
        BY <1>1, <1>3, <4>1
    <3> QED
      BY <3>1, <3>2
  <2>4. wOut' # <<>> => moves /\ wOut'[1] = moved /\ Len(wOut') = 1
    BY <1>5, <2>1
  <2> HIDE DEF moves, moved
  <2>5. Len(wq') + Len(wOut') = Len(wq) + Len(wOut) + Flag(moves)
    BY <1>1, <1>6, <2>2, <2>3 DEF Flag
  <2> QED
    BY <2>3, <2>4, <2>5 DEF moves, moved
<1>8. CASE ~WFree(wready)
  <2>1. ~wready /\ wOut' = wOut /\ wq' = wq /\ ~moves
    BY <1>4, <1>8 DEF WFree, WOutNext
  <2> QED
    BY <1>1, <1>2, <2>1 DEF Flag
<1> QED
  BY <1>7, <1>8

\* So it is with the addresses.
LEMMA AddressesQueue ==
  ASSUME TypeOK, enable, NEW avail \in BOOLEAN, NEW awready \in BOOLEAN,
         NEW wready \in BOOLEAN, Edge(avail, awready, wready)
  PROVE  LET enters == AwIn(avail) /\ AwFree(awready) IN
         /\ Len(awq') = Len(awq) + Flag(awready)
         /\ Len(awOut') = Len(awOut) + Flag(enters) - Flag(awready)
         /\ \A i \in 1 .. Len(awq') :
              \/ i <= Len(awq) /\ awq'[i] = awq[i]
              \/ i = Len(awq) + 1 /\ awOut # <<>> /\ awq'[i] = awOut[1]
         /\ awOut' # <<>> =>
              \/ enters /\ awOut'[1] = Address(avail)
              \/ ~enters /\ awOut' = awOut /\ awq' = awq
         /\ awready => awOut # <<>>
         /\ awOut # <<>> => Len(awOut) = 1
         /\ awOut' # <<>> => Len(awOut') = 1
         /\ awOut = <<>> => Len(awOut) = 0
         /\ awOut' = <<>> => Len(awOut') = 0
<1> DEFINE enters == AwIn(avail) /\ AwFree(awready)
           addr == Address(avail)
<1>1. /\ awq \in Seq(Addresses) /\ awOut \in Seq(Addresses) /\ Len(awOut) <= 1
      /\ Len(awq) \in Nat /\ Len(awOut) \in Nat
  BY LenProperties DEF TypeOK
<1>2. awOut # <<>> => Len(awOut) = 1
  <2>1. awOut \in Seq(Addresses)
    BY <1>1
  <2>2. awOut # <<>> => Len(awOut) \in Nat \ {0}
    BY <2>1, EmptySeq
  <2>3. \A n \in Nat \ {0} : n <= 1 => n = 1
    OBVIOUS
  <2>4. Len(awOut) <= 1
    BY <1>1
  <2> QED
    BY <2>2, <2>3, <2>4, Zenon
<1>3. awOut = <<>> => Len(awOut) = 0
  OBVIOUS
<1>4. /\ awOut' = AwOutNext(avail, awready)
      /\ awready => awOut # <<>>
      /\ awq' = IF awready THEN awq \o awOut ELSE awq
  BY DEF Edge, WriterClock, PortClock
<1>5. Len(<<addr>>) = 1 /\ <<addr>>[1] = addr /\ <<addr>> # <<>>
  OBVIOUS
<1>6. enters \in BOOLEAN
  OBVIOUS
<1>7. CASE AwFree(awready)
  <2>1. awOut' = IF enters THEN <<addr>> ELSE <<>>
    BY <1>4, <1>7 DEF AwOutNext
  <2>2. Len(awOut') = Flag(enters)
    BY <1>5, <2>1 DEF Flag
  <2>3. /\ Len(awq') = Len(awq) + Flag(awready)
        /\ Len(awOut) = Flag(awready)
        /\ \A i \in 1 .. Len(awq') :
             \/ i <= Len(awq) /\ awq'[i] = awq[i]
             \/ i = Len(awq) + 1 /\ awOut # <<>> /\ awq'[i] = awOut[1]
    <3>1. CASE awready
      <4>1. awq' = awq \o awOut /\ awOut # <<>> /\ Len(awOut) = 1
        BY <1>2, <1>4, <3>1
      <4>2. /\ Len(awq \o awOut) = Len(awq) + 1
            /\ \A i \in 1 .. Len(awq) + 1 :
                 (awq \o awOut)[i] = IF i <= Len(awq) THEN awq[i] ELSE awOut[i - Len(awq)]
        <5>1. /\ Len(awq \o awOut) = Len(awq) + Len(awOut)
              /\ \A i \in 1 .. Len(awq) + Len(awOut) :
                   (awq \o awOut)[i] = IF i <= Len(awq) THEN awq[i] ELSE awOut[i - Len(awq)]
          BY <1>1, ConcatProperties, Zenon
        <5> QED
          BY <4>1, <5>1, Zenon
      <4>3. \A i \in 1 .. Len(awq) + 1 : ~(i <= Len(awq)) => i = Len(awq) + 1 /\ i - Len(awq) = 1
        BY <1>1
      <4> QED
        BY <3>1, <4>1, <4>2, <4>3 DEF Flag
    <3>2. CASE ~awready
      <4>1. awq' = awq /\ awOut = <<>>
        BY <1>4, <1>7, <3>2 DEF AwFree
      <4> QED
        BY <1>1, <1>3, <3>2, <4>1 DEF Flag
    <3> QED
      BY <3>1, <3>2
  <2>4. awOut' # <<>> => enters /\ awOut'[1] = addr /\ Len(awOut') = 1
    BY <1>5, <2>1
  <2>5. awOut' = <<>> => Len(awOut') = 0
    OBVIOUS
  <2> HIDE DEF enters, addr
  <2>6. Len(awOut') = Len(awOut) + Flag(enters) - Flag(awready)
    BY <1>6, <2>2, <2>3 DEF Flag
  <2> QED
    BY <1>2, <1>3, <1>4, <2>3, <2>4, <2>5, <2>6 DEF enters, addr
<1>8. CASE ~AwFree(awready)
  <2>1. ~awready /\ awOut' = awOut /\ awq' = awq /\ ~enters
    BY <1>4, <1>8 DEF AwFree, AwOutNext
  <2> QED
    BY <1>1, <1>2, <1>3, <2>1 DEF Flag
<1> QED
  BY <1>7, <1>8

\* A burst that begins finds no address waiting; so every address is that of the
\* next burst.
LEMMA AddressMoves ==
  ASSUME TypeOK, BurstInv, Sound, NEW avail \in BOOLEAN, NEW awready \in BOOLEAN,
         NEW wready \in BOOLEAN, Edge(avail, awready, wready),
         rec' = rec + Flag(Begins(avail)), armRec' = armRec
  PROVE  /\ Entered' = Entered + Flag(AwIn(avail) /\ AwFree(awready))
         /\ Left' = Left + Flag(awready)
         /\ Done' = Done
         /\ AwIn(avail) => Current(avail) = armRec + Entered + 1
         /\ awPend' => ~AwFree(awready) /\ awOut' # <<>> /\ (awPend \/ Begins(avail))
         /\ Entered = Done + Len(awq) + Len(awOut) /\ Left = Done + Len(awq)
<1> DEFINE enters == AwIn(avail) /\ AwFree(awready)
           begins == Begins(avail)
<1>1. /\ rec \in Nat /\ armRec \in Nat /\ armRec <= rec
      /\ awPend \in BOOLEAN /\ wBusy \in BOOLEAN
      /\ Len(awq) \in Nat /\ Len(awOut) \in Nat
  BY LenProperties, DmaWriterAssumption DEF TypeOK
<1>2. /\ awPend' = (AwIn(avail) /\ ~AwFree(awready))
      /\ AwIn(avail) = (begins \/ awPend)
      /\ begins \in BOOLEAN /\ enters \in BOOLEAN
  BY <1>1 DEF Sound, Edge, WriterClock, AwPendNext, AwIn, Begins
<1>3. awPend => ~begins
  BY DEF BurstInv, Begins
<1>4. /\ Len(awq') = Len(awq) + Flag(awready)
      /\ Len(awOut') = Len(awOut) + Flag(enters) - Flag(awready)
  BY AddressesQueue, Zenon DEF Sound
<1>5. Flag(awPend') = Flag(awPend) + Flag(begins) - Flag(enters)
  <2>1. /\ awPend' \in BOOLEAN
        /\ awPend' = ((begins \/ awPend) /\ ~enters)
        /\ enters => begins \/ awPend
    BY <1>2
  <2> HIDE DEF begins, enters
  <2> QED
    BY <1>1, <1>2, <1>3, <2>1 DEF Flag
<1>6. /\ Entered = rec - armRec - Flag(awPend)
      /\ Entered' = rec' - armRec' - Flag(awPend')
  BY DEF Entered, Flag
<1>7. /\ Left = Entered - Len(awOut) /\ Left' = Entered' - Len(awOut')
      /\ Done = Left - Len(awq) /\ Done' = Left' - Len(awq')
  BY DEF Left, Done
<1>8. /\ Flag(enters) \in Int /\ Flag(begins) \in Int /\ Flag(awready) \in Int
      /\ Flag(awPend) \in Int
  BY DEF Flag
<1>9. AwIn(avail) => Current(avail) = armRec + Entered + 1
  BY <1>1, <1>2, <1>3, <1>6 DEF Current, Flag
<1>10. awPend' => ~AwFree(awready) /\ awOut' # <<>> /\ (awPend \/ begins)
  BY <1>2 DEF Sound, Edge, WriterClock, AwOutNext, AwFree
<1>11. rec' = rec + Flag(begins)
  OBVIOUS
<1> HIDE DEF enters, begins
<1>12. Entered' = Entered + Flag(enters)
  BY <1>1, <1>5, <1>6, <1>8, <1>11
<1>13. Entered \in Int
  BY <1>1, <1>6, <1>8
<1>14. Left \in Int
  BY <1>1, <1>7, <1>13
<1>15. Left' = Left + Flag(awready) /\ Done' = Done
  <2>1. Left' = (Entered + Flag(enters)) - (Len(awOut) + Flag(enters) - Flag(awready))
    BY <1>4, <1>7, <1>12, Zenon
  <2>2. Left = Entered - Len(awOut) /\ Done = Left - Len(awq)
    BY <1>7
  <2>3. Left' = Left + Flag(awready)
    BY <1>1, <1>8, <1>13, <2>1, <2>2
  <2>4. Done' = (Left + Flag(awready)) - (Len(awq) + Flag(awready))
    BY <1>4, <1>7, <2>3, Zenon
  <2> QED
    BY <1>1, <1>8, <1>14, <2>2, <2>3, <2>4
<1>16. Entered = Done + Len(awq) + Len(awOut) /\ Left = Done + Len(awq)
  <2>1. Left = Entered - Len(awOut) /\ Done = Left - Len(awq)
    BY <1>7
  <2> QED
    BY <1>1, <1>13, <1>14, <2>1
<1> QED
  BY <1>9, <1>10, <1>12, <1>15, <1>16 DEF enters, begins

-----------------------------------------------------------------------------
(* The port. *)

LEMMA PortLengths ==
  ASSUME TypeOK, NEW avail \in BOOLEAN, NEW awready \in BOOLEAN,
         NEW wready \in BOOLEAN, Edge(avail, awready, wready)
  PROVE  /\ Len(awq') = Len(awq) + Flag(awready)
         /\ Len(wq') = Len(wq) + Flag(wready)
         /\ wready => Unaddressed < Ahead
         /\ awq # <<>> => awq' # <<>>
<1>1. /\ awq \in Seq(Addresses) /\ awOut \in Seq(Addresses) /\ Len(awOut) <= 1
      /\ wq \in Seq(WordBeats) /\ wOut \in Seq(WordBeats) /\ Len(wOut) <= 1
  BY DEF TypeOK
<1>2. /\ Len(awq) \in Nat /\ Len(wq) \in Nat
      /\ awOut # <<>> => Len(awOut) \in Nat \ {0}
      /\ wOut # <<>> => Len(wOut) \in Nat \ {0}
  BY <1>1, LenProperties, EmptySeq
<1>3. \A n \in Nat \ {0} : n <= 1 => n = 1
  OBVIOUS
<1>4. /\ awOut # <<>> => Len(awOut) = 1
      /\ wOut # <<>> => Len(wOut) = 1
  BY <1>1, <1>2, <1>3, Zenon
<1>5. /\ awready => awOut # <<>>
      /\ wready => wOut # <<>> /\ Unaddressed < Ahead
      /\ awq' = IF awready THEN awq \o awOut ELSE awq
      /\ wq' = IF wready THEN wq \o wOut ELSE wq
  BY DEF Edge, PortClock
<1>6. /\ Len(awq \o awOut) = Len(awq) + Len(awOut)
      /\ Len(wq \o wOut) = Len(wq) + Len(wOut)
  BY <1>1, ConcatProperties, Zenon
<1>7. Len(awq') = Len(awq) + Flag(awready)
  <2>1. CASE awready
    <3>1. Len(awq') = Len(awq) + 1
      BY <1>4, <1>5, <1>6, <2>1, Zenon
    <3> QED
      BY <2>1, <3>1 DEF Flag
  <2>2. CASE ~awready
    <3>1. awq' = awq
      BY <1>5, <2>2
    <3> QED
      BY <1>2, <2>2, <3>1 DEF Flag
  <2> QED
    BY <2>1, <2>2
<1>8. Len(wq') = Len(wq) + Flag(wready)
  <2>1. CASE wready
    <3>1. Len(wq') = Len(wq) + 1
      BY <1>4, <1>5, <1>6, <2>1, Zenon
    <3> QED
      BY <2>1, <3>1 DEF Flag
  <2>2. CASE ~wready
    <3>1. wq' = wq
      BY <1>5, <2>2
    <3> QED
      BY <1>2, <2>2, <3>1 DEF Flag
  <2> QED
    BY <2>1, <2>2
<1>9. awq # <<>> => awq' # <<>>
  <2>1. Len(awq) = 0 => awq = <<>>
    BY <1>1, EmptySeq
  <2>2. awq # <<>> => Len(awq') # 0
    BY <1>2, <1>7, <2>1 DEF Flag
  <2> QED
    BY <2>2
<1> QED
  BY <1>5, <1>7, <1>8, <1>9

LEMMA EdgeReset ==
  ASSUME HS!IInv, TypeOK, ResetInv, NEW avail \in BOOLEAN, NEW awready \in BOOLEAN,
         NEW wready \in BOOLEAN, Edge(avail, awready, wready)
  PROVE  ResetInv'
<1>1. enablePrev' = enable /\ UNCHANGED wpos
  <2>1. WrapPulse(awready) \in BOOLEAN
    BY DEF WrapPulse
  <2> QED
    BY <2>1, RegistersEdge DEF Edge, PortClock
<1>2. ~enablePrev' => /\ awPend' = FALSE /\ wBusy' = FALSE /\ cntr' = 0 /\ index' = 0
                      /\ awOut' = <<>> /\ wOut' = <<>>
  BY <1>1 DEF Edge, WriterClock
<1>3. Unaddressed' <= Ahead
  <2> DEFINE n == Len(awq)
             m == Len(wq)
             p == Beats * n
             q == Beats * (n + 1)
  <2>1. /\ n \in Nat /\ m \in Nat /\ wpos \in Nat /\ Beats \in Nat /\ Ahead \in Int
    BY LenProperties, DmaWriterAssumption DEF TypeOK
  <2>2. p \in Int /\ q = p + Beats
    BY <2>1
  <2>3. /\ Unaddressed = m + wpos - p /\ Unaddressed <= Ahead
        /\ wready => Unaddressed < Ahead
    BY PortLengths DEF Unaddressed, ResetInv
  <2>4. Unaddressed' = Len(wq') + wpos - Beats * Len(awq')
    BY <1>1 DEF Unaddressed
  <2>5. Len(wq') = m + Flag(wready) /\ Len(awq') \in {n, n + 1}
    BY <2>1, PortLengths DEF Flag
  <2>6. Beats * Len(awq') \in {p, q}
    BY <2>5
  <2> HIDE DEF n, m, p, q
  <2>7. CASE wready
    <3>1. Len(wq') = m + 1
      BY <2>1, <2>5, <2>7 DEF Flag
    <3> QED
      BY <2>1, <2>2, <2>3, <2>4, <2>6, <2>7, <3>1
  <2>8. CASE ~wready
    <3>1. Len(wq') = m
      BY <2>1, <2>5, <2>8 DEF Flag
    <3> QED
      BY <2>1, <2>2, <2>3, <2>4, <2>6, <3>1
  <2> QED
    BY <2>7, <2>8
<1>4. wpos' # 0 => awq' # <<>>
  BY <1>1, PortLengths DEF ResetInv
<1> QED
  BY <1>2, <1>3, <1>4 DEF ResetInv

\* What a beat that lands leaves in the port.
LEMMA LandQueues ==
  ASSUME TypeOK, Land
  PROVE  /\ Len(wq) \in Nat \ {0} /\ Len(wq') = Len(wq) - 1
         /\ \A i \in 1 .. Len(wq') : wq'[i] = wq[i + 1]
         /\ Len(awq) \in Nat \ {0} /\ awq' \in Seq(Addresses)
         /\ \/ /\ wpos = Beats - 1 /\ wpos' = 0 /\ Len(awq') = Len(awq) - 1
               /\ \A i \in 1 .. Len(awq') : awq'[i] = awq[i + 1]
            \/ wpos # Beats - 1 /\ wpos' = wpos + 1 /\ awq' = awq
         /\ Head(wq) = wq[1] /\ Head(awq) = awq[1]
         /\ wq[1] \in WordBeats /\ awq[1] \in Addresses
<1>1. awq \in Seq(Addresses) /\ awq # <<>> /\ wq \in Seq(WordBeats) /\ wq # <<>>
  BY DEF Land, TypeOK
<1>2. Len(wq) \in Nat \ {0} /\ Len(awq) \in Nat \ {0}
  BY <1>1, EmptySeq
<1>3. /\ Len(Tail(wq)) = Len(wq) - 1
      /\ \A i \in 1 .. Len(wq) - 1 : Tail(wq)[i] = wq[i + 1]
      /\ Head(wq) = wq[1] /\ Head(wq) \in WordBeats
  BY <1>1, <1>2, HeadTailProperties
<1>4. /\ Len(Tail(awq)) = Len(awq) - 1 /\ Tail(awq) \in Seq(Addresses)
      /\ \A i \in 1 .. Len(awq) - 1 : Tail(awq)[i] = awq[i + 1]
      /\ Head(awq) = awq[1] /\ Head(awq) \in Addresses
  BY <1>1, <1>2, HeadTailProperties
<1>5. /\ wq' = Tail(wq) /\ wpos' = (wpos + 1) % Beats
      /\ awq' = IF wpos = Beats - 1 THEN Tail(awq) ELSE awq
  BY DEF Land
<1>6. wpos \in 0 .. Beats - 1 /\ Beats \in Nat \ {0}
  BY DmaWriterAssumption DEF TypeOK
<1>7. wpos' = IF wpos = Beats - 1 THEN 0 ELSE wpos + 1
  BY <1>5, <1>6, CountOn
<1>8. /\ Len(wq') = Len(wq) - 1
      /\ \A i \in 1 .. Len(wq') : wq'[i] = wq[i + 1]
  BY <1>3, <1>5, Zenon
<1>9. CASE wpos = Beats - 1
  <2>1. awq' = Tail(awq) /\ wpos' = 0
    BY <1>5, <1>7, <1>9
  <2>2. /\ awq' \in Seq(Addresses) /\ Len(awq') = Len(awq) - 1
        /\ \A i \in 1 .. Len(awq') : awq'[i] = awq[i + 1]
    BY <1>4, <2>1, Zenon
  <2> QED
    BY <1>2, <1>3, <1>4, <1>8, <1>9, <2>1, <2>2, Zenon
<1>10. CASE wpos # Beats - 1
  <2>1. awq' = awq /\ wpos' = wpos + 1
    BY <1>5, <1>7, <1>10
  <2> QED
    BY <1>1, <1>2, <1>3, <1>4, <1>8, <1>10, <2>1, Zenon
<1> QED
  BY <1>9, <1>10

LEMMA LandCounts ==
  ASSUME TypeOK, BurstInv, Sound, Land
  PROVE  /\ Done \in Nat /\ Done' \in Nat
         /\ Left' = Left /\ Entered' = Entered
         /\ Done' + Len(awq') = Done + Len(awq)
         /\ \/ wpos = Beats - 1 /\ Done' = Done + 1
            \/ wpos # Beats - 1 /\ Done' = Done
         /\ Landed' = Landed + 1 /\ Landed \in Nat
         /\ Landed' + Len(wq') = Landed + Len(wq)
         /\ NextPosition' = NextPosition /\ Moved' = Moved
<1>1. /\ Beats \in Nat \ {0} /\ wpos \in 0 .. Beats - 1
      /\ Done \in Nat /\ Len(wOut) \in Nat
      /\ rec \in Nat /\ armRec \in Nat /\ Len(awOut) \in Nat
  BY LenProperties, DmaWriterAssumption DEF TypeOK, BurstInv
<1>2. UNCHANGED <<registers, writer, arming>>
  BY DEF Land
<1>3. Left' = Left /\ Entered' = Entered /\ NextPosition' = NextPosition
  BY <1>2 DEF writer, arming, Left, Entered, NextPosition, Position
<1>4. Left \in Int
  BY <1>1 DEF Left, Entered
<1>5. /\ Len(wq) \in Nat \ {0} /\ Len(wq') = Len(wq) - 1
      /\ Len(awq) \in Nat \ {0}
      /\ \/ wpos = Beats - 1 /\ wpos' = 0 /\ Len(awq') = Len(awq) - 1
         \/ wpos # Beats - 1 /\ wpos' = wpos + 1 /\ Len(awq') = Len(awq)
  BY LandQueues
<1>6. Done = Left - Len(awq) /\ Done' = Left - Len(awq')
  BY <1>3 DEF Done
<1>7. /\ \/ wpos = Beats - 1 /\ Done' = Done + 1
         \/ wpos # Beats - 1 /\ Done' = Done
      /\ Done' + Len(awq') = Done + Len(awq)
  BY <1>1, <1>4, <1>5, <1>6
<1>8. Done' \in Nat
  BY <1>1, <1>7
<1>9. Landed' = Landed + 1
  <2>1. Beats * (Done + 1) = Beats * Done + Beats /\ Beats * Done \in Nat
    BY <1>1
  <2>2. Landed = Beats * Done + wpos /\ Landed' = Beats * Done' + wpos'
    BY DEF Landed
  <2>3. CASE wpos = Beats - 1
    <3>1. Done' = Done + 1 /\ wpos' = 0
      BY <1>1, <1>5, <1>7, <2>3
    <3>2. Landed' = Beats * (Done + 1) + 0
      BY <2>2, <3>1
    <3> QED
      BY <1>1, <2>1, <2>2, <2>3, <3>2
  <2>4. CASE wpos # Beats - 1
    <3>1. Done' = Done /\ wpos' = wpos + 1
      BY <1>1, <1>5, <1>7, <2>4
    <3>2. Landed' = Beats * Done + (wpos + 1)
      BY <2>2, <3>1
    <3> QED
      BY <1>1, <2>1, <2>2, <3>2
  <2> QED
    BY <2>3, <2>4
<1>10. Landed \in Nat
  BY <1>1 DEF Landed
<1>11. Landed' + Len(wq') = Landed + Len(wq)
  BY <1>5, <1>9, <1>10
<1>12. Moved' = Moved
  <2>1. wOut' = wOut
    BY <1>2 DEF writer
  <2>2. Moved = Landed + Len(wq) + Len(wOut) /\ Moved' = Landed' + Len(wq') + Len(wOut)
    BY <2>1 DEF Moved
  <2> QED
    BY <1>1, <1>5, <1>9, <1>10, <1>11, <2>2
<1> QED
  BY <1>1, <1>3, <1>7, <1>8, <1>9, <1>10, <1>11, <1>12

LEMMA LandQueued ==
  ASSUME TypeOK, ResetInv, BurstInv, TurnInv, BeatInv, AddressInv, FullInv, Land
  PROVE  ResetInv' /\ BurstInv' /\ TurnInv' /\ BeatInv' /\ AddressInv' /\ FullInv'
<1>1. UNCHANGED <<registers, writer, arming>>
  BY DEF Land
<1>2. Sound' = Sound
  BY <1>1 DEF registers, arming, Sound
<1>3. ResetInv'
  <2>1. /\ Len(wq) \in Nat \ {0} /\ Len(wq') = Len(wq) - 1
        /\ Len(awq) \in Nat \ {0}
        /\ wpos \in 0 .. Beats - 1 /\ Beats \in Nat
    BY LandQueues, DmaWriterAssumption DEF TypeOK
  <2>2. wpos' # 0 => awq' # <<>>
    BY LandQueues DEF Land
  <2>3. Unaddressed' <= Ahead
    <3> DEFINE n == Len(awq)
    <3>1. /\ Unaddressed = Len(wq) + wpos - Beats * n
          /\ Unaddressed' = Len(wq') + wpos' - Beats * Len(awq')
      BY DEF Unaddressed
    <3>2. Beats * (n - 1) = Beats * n - Beats /\ Beats * n \in Int
      BY <2>1
    <3>3. CASE wpos = Beats - 1
      <4>1. wpos' = 0 /\ Len(awq') = n - 1
        BY <3>3, LandQueues
      <4>2. Unaddressed' = (Len(wq) - 1) + 0 - Beats * (n - 1)
        BY <2>1, <3>1, <4>1
      <4>3. Unaddressed' = Unaddressed
        BY <2>1, <3>1, <3>2, <3>3, <4>2
      <4> QED
        BY <4>3 DEF ResetInv
    <3>4. CASE wpos # Beats - 1
      <4>1. wpos' = wpos + 1 /\ Len(awq') = n
        BY <3>4, LandQueues
      <4>2. Unaddressed' = (Len(wq) - 1) + (wpos + 1) - Beats * n
        BY <2>1, <3>1, <4>1
      <4>3. Unaddressed' = Unaddressed
        BY <2>1, <3>1, <3>2, <4>2
      <4> QED
        BY <4>3 DEF ResetInv
    <3> QED
      BY <3>3, <3>4
  <2> QED
    BY <1>1, <2>2, <2>3 DEF registers, writer, ResetInv
<1>4. FullInv'
  BY <1>1 DEF registers, arming, FullInv
<1>5. CASE ~Sound
  BY <1>2, <1>3, <1>4, <1>5 DEF BurstInv, TurnInv, BeatInv, AddressInv
<1>6. CASE Sound
  <2>1. BurstInv'
    BY <1>1, <1>6, LandCounts DEF BurstInv, writer, arming
  <2>2. TurnInv'
    <3>1. Entered' = Entered
      BY <1>6, LandCounts
    <3> QED
      BY <1>1, <1>6, <3>1 DEF TurnInv, Rounds, Laps, registers, writer, arming
  <2>3. BeatInv'
    <3>1. NextPosition' = Moved'
      BY <1>6, LandCounts DEF BeatInv
    <3>2. ASSUME NEW i \in 1 .. Len(wq')
          PROVE  Position(wq[i].rec, wq[i].beat)' = Landed' + i - 1
      <4>1. wq'[i] = wq[i + 1] /\ i + 1 \in 1 .. Len(wq) /\ Landed' = Landed + 1 /\ Landed \in Nat
        BY <1>6, <3>2, LandQueues, LandCounts
      <4>2. Position(wq[i + 1].rec, wq[i + 1].beat) = Landed + (i + 1) - 1
        BY <1>6, <4>1 DEF BeatInv
      <4>3. Position(wq[i].rec, wq[i].beat)' = Position(wq[i + 1].rec, wq[i + 1].beat)
        BY <1>1, <4>1 DEF Position, arming
      <4> QED
        BY <4>1, <4>2, <4>3
    <3>3. wOut' # <<>> => Position(wOut[1].rec, wOut[1].beat)' = Landed' + Len(wq')
      <4>1. UNCHANGED <<wOut, armRec>>
        BY <1>1 DEF writer, arming
      <4>2. Landed' + Len(wq') = Landed + Len(wq)
        BY <1>6, LandCounts
      <4> QED
        BY <1>6, <4>1, <4>2 DEF BeatInv, Position
    <3> QED
      BY <3>1, <3>2, <3>3 DEF BeatInv, Position
  <2>4. AddressInv'
    <3>1. UNCHANGED <<awOut, armRec>>
      BY <1>1 DEF writer, arming
    <3>2. \A a : Aimed(a)' = Aimed(a)
      BY <3>1 DEF Aimed
    <3>3. armRec \in Nat /\ Done \in Nat /\ Done' \in Nat /\ Len(awq) \in Nat \ {0}
      BY <1>6, LandCounts, LandQueues, DmaWriterAssumption DEF TypeOK
    <3>4. ASSUME NEW i \in 1 .. Len(awq')
          PROVE  awq'[i].rec = armRec + Done' + i /\ Aimed(awq'[i])
      <4>1. CASE wpos = Beats - 1
        <5>1. awq'[i] = awq[i + 1] /\ i + 1 \in 1 .. Len(awq) /\ Done' = Done + 1
          BY <1>6, <3>3, <3>4, <4>1, LandQueues, LandCounts
        <5>2. awq[i + 1].rec = armRec + Done + (i + 1) /\ Aimed(awq[i + 1])
          BY <1>6, <5>1 DEF AddressInv
        <5>3. awq'[i].rec = armRec + Done + (i + 1) /\ Aimed(awq'[i])
          BY <5>1, <5>2, Zenon
        <5> QED
          BY <3>3, <5>1, <5>3
      <4>2. CASE wpos # Beats - 1
        <5>1. awq' = awq /\ Done' = Done
          BY <1>6, <4>2, LandQueues, LandCounts
        <5> QED
          BY <1>6, <5>1 DEF AddressInv
      <4> QED
        BY <4>1, <4>2
    <3>5. awOut # <<>> => /\ awOut[1].rec = armRec + Done' + Len(awq') + 1
                          /\ Aimed(awOut[1])
      <4>1. Done' + Len(awq') = Done + Len(awq)
        BY <1>6, LandCounts
      <4>2. Len(awq') \in Nat
        BY LandQueues, LenProperties
      <4>3. awOut # <<>> => /\ awOut[1].rec = armRec + Done + Len(awq) + 1
                            /\ Aimed(awOut[1])
        BY <1>6 DEF AddressInv
      <4>4. armRec + Done' + Len(awq') + 1 = armRec + Done + Len(awq) + 1
        BY <3>3, <4>1, <4>2
      <4> QED
        BY <4>3, <4>4
    <3> QED
      BY <3>1, <3>2, <3>4, <3>5 DEF AddressInv
  <2> QED
    BY <1>3, <1>4, <2>1, <2>2, <2>3, <2>4
<1> QED
  BY <1>5, <1>6

\* Two laps that write the same buffer are two apart.
LEMMA SameCell ==
  ASSUME NEW d \in Nat \ {0}, NEW e \in Nat, NEW f \in Nat, e <= f, f < e + 2 * d,
         e % d = f % d, (e \div d) % 2 = (f \div d) % 2
  PROVE  e = f
<1> DEFINE p == e \div d
           q == f \div d
           r == e % d
<1>1. /\ p \in Int /\ q \in Int /\ r \in 0 .. d - 1
      /\ e = d * p + r /\ f = d * q + r
  BY DivisionIs
<1>2. p % 2 = q % 2
  OBVIOUS
<1> HIDE DEF p, q, r
<1>3. d * (q - p) >= 0 /\ d * (q - p) < 2 * d
  <2>1. d * (q - p) = d * q - d * p /\ d * q \in Int /\ d * p \in Int
    BY <1>1
  <2> QED
    BY <1>1, <2>1
<1>4. \A k \in Int : /\ k < 0 => d * k < 0
                     /\ k >= 2 => d * k >= 2 * d
  OBVIOUS
<1>5. q - p \in {0, 1}
  <2>1. ~(q - p < 0) /\ ~(q - p >= 2)
    BY <1>1, <1>3, <1>4
  <2> QED
    BY <1>1, <2>1
<1>6. q = p
  BY <1>1, <1>2, <1>5
<1> QED
  BY <1>1, <1>6

\* A beat lands at its own place of its burst, and covers only the burst two laps
\* before.
LEMMA LandMemory ==
  ASSUME TypeOK, BurstInv, BeatInv, AddressInv, MemoryInv, Sound, Land
  PROVE  MemoryInv'
<1> DEFINE a == awq[1]
           x == wq[1]
<1>1. /\ Bursts \in Nat \ {0} /\ Bursts >= 2 /\ Beats \in Nat \ {0}
      /\ wpos \in 0 .. Beats - 1 /\ armRec \in Nat
      /\ ddr \in [{0, 1} -> [Slots -> [0 .. Beats - 1 -> WordBeats]]]
  BY DmaWriterAssumption DEF TypeOK, Regs!Buffers
<1>2. /\ Len(wq) \in Nat \ {0} /\ Len(awq) \in Nat \ {0}
      /\ x \in WordBeats /\ a \in Addresses
      /\ Head(wq) = x /\ Head(awq) = a
  BY LandQueues
<1>3. /\ Done \in Nat /\ Done' \in Nat
      /\ \/ wpos = Beats - 1 /\ Done' = Done + 1
         \/ wpos # Beats - 1 /\ Done' = Done
      /\ wpos = Beats - 1 => wpos' = 0
      /\ wpos # Beats - 1 => wpos' = wpos + 1
  BY LandCounts, LandQueues
<1>4. a.rec = armRec + Done + 1 /\ Aimed(a)
  BY <1>2, <1>3 DEF AddressInv
<1>5. /\ a.slot = Done % Bursts
      /\ a.slot # Bursts - 1 => a.buf = (Done \div Bursts) % 2
      /\ a.buf \in {0, 1} /\ a.slot \in Slots
  <2>1. a.rec - armRec - 1 = Done
    BY <1>1, <1>3, <1>4
  <2> QED
    BY <1>2, <1>4, <2>1 DEF Aimed, Addresses, Regs!Buffers
<1>6. x = [rec |-> armRec + 1 + Done, beat |-> wpos]
  <2>1. Position(x.rec, x.beat) = Landed + 1 - 1
    BY <1>2 DEF BeatInv
  <2>2. x.rec \in Nat /\ x.beat \in 0 .. Beats - 1 /\ x = [rec |-> x.rec, beat |-> x.beat]
    BY <1>2 DEF WordBeats
  <2>3. Landed \in Nat
    BY LandCounts
  <2>4. Beats * (x.rec - armRec - 1) + x.beat = Beats * Done + wpos
    <3>1. Position(x.rec, x.beat) = Landed
      BY <2>1, <2>3
    <3> QED
      BY <3>1 DEF Position, Landed
  <2>5. x.rec - armRec - 1 \in Int
    BY <1>1, <2>2
  <2>6. x.rec - armRec - 1 = Done /\ x.beat = wpos
    <3> DEFINE p == x.rec - armRec - 1
               r == x.beat
    <3>1. /\ Beats * p + r = Beats * Done + wpos
          /\ p \in Int /\ Done \in Int /\ r \in 0 .. Beats - 1
      BY <1>3, <2>2, <2>4, <2>5
    <3> HIDE DEF p, r
    <3>2. Beats \in Nat \ {0} /\ wpos \in 0 .. Beats - 1
      BY <1>1
    <3>3. p = Done /\ r = wpos
      BY <3>1, <3>2, QuotientUnique
    <3> QED
      BY <3>3 DEF p, r
  <2>7. x.rec = armRec + 1 + Done
    <3> DEFINE n == x.rec
    <3>1. n \in Nat /\ armRec \in Nat /\ Done \in Nat /\ n - armRec - 1 = Done
      BY <1>1, <1>3, <2>2, <2>6
    <3> HIDE DEF n
    <3>2. n = armRec + 1 + Done
      BY <3>1
    <3> QED
      BY <3>2 DEF n
  <2> QED
    BY <2>2, <2>6, <2>7
<1>7. /\ ddr' = [ddr EXCEPT ![a.buf][a.slot][wpos] = x]
      /\ armRec' = armRec
  BY <1>2 DEF Land, arming
<1> HIDE DEF a, x
<1> SUFFICES ASSUME NEW e \in 0 .. Done', NEW j \in 0 .. Beats - 1,
                    e % Bursts # Bursts - 1, Done' < e + 2 * Bursts, e = Done' => j < wpos'
             PROVE  ddr'[(e \div Bursts) % 2][e % Bursts][j] = [rec |-> armRec + 1 + e, beat |-> j]
  BY <1>7 DEF MemoryInv
<1>8. /\ (e \div Bursts) % 2 \in {0, 1} /\ e % Bursts \in Slots
      /\ e \in Nat /\ e <= Done' /\ Done <= Done'
  <2>1. e \in Nat /\ e <= Done' /\ Done <= Done'
    BY <1>3
  <2>2. e % Bursts \in Slots /\ e \div Bursts \in Int
    BY <1>1, <2>1, DivisionIs DEF Slots
  <2>3. (e \div Bursts) % 2 \in {0, 1}
    BY <2>2
  <2> QED
    BY <2>1, <2>2, <2>3
<1>9. e <= Done
  BY <1>1, <1>3, <1>8
<1>10. CASE a.buf = (e \div Bursts) % 2 /\ a.slot = e % Bursts /\ wpos = j
  <2>1. a.slot # Bursts - 1 /\ Done < e + 2 * Bursts
    BY <1>1, <1>3, <1>8, <1>10
  <2>2. e % Bursts = Done % Bursts /\ (e \div Bursts) % 2 = (Done \div Bursts) % 2
    BY <1>5, <1>10, <2>1
  <2>3. e = Done
    BY <1>1, <1>3, <1>8, <1>9, <2>1, <2>2, SameCell
  <2>4. ddr'[a.buf][a.slot][wpos] = x
    BY <1>1, <1>5, <1>7
  <2> QED
    BY <1>6, <1>10, <2>3, <2>4
<1>11. CASE ~(a.buf = (e \div Bursts) % 2 /\ a.slot = e % Bursts /\ wpos = j)
  <2> DEFINE b == (e \div Bursts) % 2
             s == e % Bursts
  <2>1. b \in {0, 1} /\ s \in Slots /\ ~(a.buf = b /\ a.slot = s /\ wpos = j)
    BY <1>8, <1>11
  <2> HIDE DEF b, s
  <2>2. ddr'[b][s][j] = ddr[b][s][j]
    BY <1>1, <1>5, <1>7, <2>1
  <2>3. e = Done => j < wpos
    <3> SUFFICES ASSUME e = Done, ~(j < wpos) PROVE FALSE
      OBVIOUS
    <3>1. a.slot = e % Bursts /\ a.buf = (e \div Bursts) % 2
      BY <1>5
    <3>2. wpos # j
      BY <1>11, <3>1
    <3>3. CASE wpos = Beats - 1
      BY <1>1, <3>2, <3>3
    <3>4. CASE wpos # Beats - 1
      <4>1. Done' = Done /\ wpos' = wpos + 1
        BY <1>3, <3>4
      <4>2. j < wpos + 1
        BY <4>1
      <4> QED
        BY <1>1, <3>2, <4>2
    <3> QED
      BY <3>3, <3>4
  <2>4. Done < e + 2 * Bursts
    BY <1>1, <1>3, <1>8
  <2>5. ddr[(e \div Bursts) % 2][e % Bursts][j] = [rec |-> armRec + 1 + e, beat |-> j]
    <3>1. e \in 0 .. Done
      BY <1>8, <1>9, <1>3
    <3> QED
      BY <2>3, <2>4, <3>1 DEF MemoryInv
  <2> QED
    BY <2>2, <2>5 DEF b, s
<1> QED
  BY <1>10, <1>11

-----------------------------------------------------------------------------
(* A clock of an arming under way keeps the order. *)

LEMMA EdgeBursts ==
  ASSUME TypeOK, ResetInv, BurstInv, BeatInv, Sound, NEW avail \in BOOLEAN,
         NEW awready \in BOOLEAN, NEW wready \in BOOLEAN, Edge(avail, awready, wready),
         rec' = rec + Flag(Begins(avail)), armRec' = armRec
  PROVE  BurstInv'
<1>1. Done' \in Nat
  BY AddressMoves DEF BurstInv
<1>2. /\ ~wBusy' => cntr' = 0
      /\ wBusy' => rec' > armRec'
      /\ Begins(avail) => wBusy'
  BY BeatMoves
<1>3. awPend' => ~AwFree(awready) /\ awOut' # <<>> /\ (awPend \/ Begins(avail))
  BY AddressMoves
<1>4. ASSUME awPend, ~AwFree(awready) PROVE wBusy'
  <2> SUFFICES ASSUME ~wBusy' PROVE FALSE
    OBVIOUS
  <2> DEFINE n == Len(awq)
             m == Len(wq)
             o == Len(wOut)
             d == Beats * Done
             p == Beats * n
             q == Beats * (rec - armRec - 1)
  <2>1. /\ Beats \in Nat /\ Ahead <= 2 * Beats - 2 /\ Ahead \in Int
        /\ n \in Nat /\ m \in Nat /\ o \in Nat /\ wpos \in Nat /\ cntr \in Nat
        /\ rec \in Nat /\ armRec \in Nat /\ Done \in Nat
    BY LenProperties, DmaWriterAssumption DEF TypeOK, BurstInv
  <2>2. wBusy /\ awOut # <<>> /\ ~awready
    BY <1>4 DEF BurstInv, AwFree
  <2>3. WFree(wready) /\ cntr = Beats - 1
    BY <2>2 DEF Sound, Edge, WriterClock, WBusyNext, WIn, LastBeat
  <2>4. o = IF wready THEN 1 ELSE 0
    <3>1. wready => wOut # <<>>
      BY DEF Edge, PortClock
    <3>2. wOut # <<>> => o \in Nat \ {0}
      <4>1. wOut \in Seq(WordBeats)
        BY DEF TypeOK
      <4> QED
        BY <4>1, EmptySeq
    <3>3. wOut = <<>> => o = 0
      OBVIOUS
    <3>4. o <= 1
      BY DEF TypeOK
    <3> HIDE DEF o
    <3> QED
      BY <2>1, <2>3, <3>1, <3>2, <3>3, <3>4 DEF WFree
  <2>5. rec - armRec - 1 = Done + n + 1
    <3>1. Len(awOut) = 1
      BY <2>2, AddressesQueue, Zenon DEF Sound
    <3>2. Done = ((rec - armRec - 1) - Len(awOut)) - n
      BY <1>4 DEF Done, Left, Entered
    <3> QED
      BY <2>1, <3>1, <3>2
  <2>6. q = d + p + Beats
    <3>1. Beats * (Done + n + 1) = Beats * Done + Beats * n + Beats
      BY <2>1
    <3> QED
      BY <2>5, <3>1
  <2>7. q + cntr = d + wpos + m + o
    <3>1. NextPosition = q + cntr
      BY <2>2 DEF NextPosition, Position
    <3>2. NextPosition = d + wpos + m + o
      BY DEF BeatInv, Moved, Landed
    <3> QED
      BY <3>1, <3>2
  <2>8. /\ Unaddressed = m + wpos - p /\ Unaddressed <= Ahead
        /\ wready => Unaddressed < Ahead
    BY PortLengths DEF Unaddressed, ResetInv
  <2>9. d \in Int /\ p \in Int /\ q \in Int
    BY <2>1
  <2> HIDE DEF n, m, o, d, p, q
  <2>10. m + wpos - p = 2 * Beats - 1 - o
    BY <2>1, <2>3, <2>6, <2>7, <2>9
  <2> QED
    BY <2>1, <2>4, <2>8, <2>10
<1> QED
  BY <1>1, <1>2, <1>3, <1>4 DEF BurstInv

LEMMA EdgeBeats ==
  ASSUME TypeOK, BurstInv, BeatInv, Sound, NEW avail \in BOOLEAN,
         NEW awready \in BOOLEAN, NEW wready \in BOOLEAN, Edge(avail, awready, wready),
         rec' = rec + Flag(Begins(avail)), armRec' = armRec
  PROVE  BeatInv'
<1> DEFINE moves == WIn(avail) /\ WFree(wready)
           moved == [rec |-> Current(avail), beat |-> cntr]
<1>1. /\ NextPosition' = NextPosition + Flag(moves)
      /\ Len(wq') + Len(wOut') = Len(wq) + Len(wOut) + Flag(moves)
      /\ Done' = Done
  BY BeatMoves, BeatsQueue, AddressMoves, Zenon DEF Sound
<1>2. wpos' = wpos
  BY DEF Edge, PortClock
<1>3. Landed' = Landed
  BY <1>1, <1>2 DEF Landed
<1>4. /\ Landed \in Int /\ Len(wq) \in Nat /\ Len(wOut) \in Nat
      /\ Beats \in Nat /\ rec \in Nat /\ armRec \in Nat /\ cntr \in Nat
  BY LenProperties, DmaWriterAssumption DEF TypeOK, BurstInv, Landed
<1>5. Flag(moves) \in Int
  BY DEF Flag
<1>6. NextPosition = Landed + Len(wq) + Len(wOut)
  BY DEF BeatInv, Moved
<1>7. NextPosition' = Moved'
  <2>1. NextPosition' = Landed + Len(wq) + Len(wOut) + Flag(moves)
    BY <1>1, <1>6
  <2>2. Moved' = Landed + Len(wq') + Len(wOut')
    BY <1>3 DEF Moved
  <2>3. Len(wq') \in Int /\ Len(wOut') \in Int
    <3>1. wq' \in Seq(WordBeats) /\ wOut' \in Seq(WordBeats)
      <4>1. wq' \in {wq, wq \o wOut}
        BY DEF Edge, PortClock
      <4>2. wq \in Seq(WordBeats) /\ wOut \in Seq(WordBeats)
        BY DEF TypeOK
      <4>3. wq' \in Seq(WordBeats)
        BY <4>1, <4>2, ConcatProperties
      <4> QED
        BY <4>3, WriterTypes DEF Edge
    <3> QED
      BY <3>1, LenProperties
  <2> HIDE DEF moves
  <2> QED
    BY <1>1, <1>4, <1>5, <2>1, <2>2, <2>3
<1>8. \A r, j : Position(r, j)' = Position(r, j)
  BY DEF Position
<1>9. ASSUME NEW i \in 1 .. Len(wq')
      PROVE  Position(wq'[i].rec, wq'[i].beat) = Landed + i - 1
  <2>1. \/ i <= Len(wq) /\ wq'[i] = wq[i]
        \/ i = Len(wq) + 1 /\ wOut # <<>> /\ wq'[i] = wOut[1]
    BY <1>9, BeatsQueue, Zenon DEF Sound
  <2>2. CASE i <= Len(wq) /\ wq'[i] = wq[i]
    <3>1. i \in 1 .. Len(wq)
      BY <2>2
    <3> QED
      BY <2>2, <3>1 DEF BeatInv
  <2>3. CASE i = Len(wq) + 1 /\ wOut # <<>> /\ wq'[i] = wOut[1]
    <3>1. Position(wOut[1].rec, wOut[1].beat) = Landed + Len(wq)
      BY <2>3 DEF BeatInv
    <3>2. i - 1 = Len(wq)
      BY <1>4, <2>3
    <3> QED
      BY <1>4, <2>3, <3>1, <3>2
  <2> QED
    BY <2>1, <2>2, <2>3
<1>10. ASSUME wOut' # <<>>
       PROVE  Position(wOut'[1].rec, wOut'[1].beat) = Landed + Len(wq')
  <2>1. /\ \/ moves /\ wOut'[1] = moved
           \/ ~moves /\ wOut' = wOut /\ wq' = wq
        /\ Len(wOut') = 1
    BY <1>10, BeatsQueue, Zenon DEF Sound
  <2>2. CASE moves /\ wOut'[1] = moved
    <3>1. Position(Current(avail), cntr) = NextPosition
      <4>1. Begins(avail) => ~wBusy /\ cntr = 0
        BY DEF Begins, BurstInv
      <4>2. ~Begins(avail) => wBusy
        BY <2>2 DEF WIn
      <4> QED
        BY <4>1, <4>2 DEF Current, NextPosition
    <3>2. Position(wOut'[1].rec, wOut'[1].beat) = NextPosition
      BY <2>2, <3>1
    <3>3. Len(wq') + 1 = Len(wq) + Len(wOut) + 1
      BY <1>1, <2>1, <2>2 DEF Flag
    <3>4. Len(wq') \in Int
      BY PortLengths, <1>4 DEF Flag
    <3>5. Len(wq') = Len(wq) + Len(wOut)
      BY <1>4, <3>3, <3>4
    <3>6. Landed + Len(wq') = Landed + Len(wq) + Len(wOut)
      BY <1>4, <3>5
    <3> QED
      BY <1>6, <3>2, <3>6
  <2>3. CASE ~moves /\ wOut' = wOut /\ wq' = wq
    BY <1>10, <2>3 DEF BeatInv
  <2> QED
    BY <2>1, <2>2, <2>3
<1> QED
  BY <1>3, <1>7, <1>9, <1>10 DEF BeatInv, Position

LEMMA EdgeTurns ==
  ASSUME HS!IInv, TypeOK, BurstInv, TurnInv, Sound, NEW avail \in BOOLEAN,
         NEW awready \in BOOLEAN, NEW wready \in BOOLEAN, Edge(avail, awready, wready),
         ~Regs!Rise
  PROVE  TurnInv'
<1> DEFINE enters == AwIn(avail) /\ AwFree(awready)
           pulse == WrapPulse(awready)
           p == Bursts * (Laps - 1)
           q == Bursts * Laps
           r == Bursts * (Laps + 1)
<1>1. /\ Bursts \in Nat /\ Bursts >= 2 /\ index \in 0 .. Bursts - 1
      /\ rec \in Nat /\ armRec \in Nat /\ Len(awOut) \in Nat
      /\ awPend \in BOOLEAN
  BY LenProperties, DmaWriterAssumption DEF TypeOK, Slots
<1>2. /\ UNCHANGED <<armRec, armWraps>>
      /\ rec' = rec + Flag(Begins(avail))
      /\ wraps' = wraps + Flag(pulse)
      /\ active' = IF pulse THEN 1 - active ELSE active
  BY <1>1, NextEdge
<1>3. Laps \in Nat /\ active = Laps % 2 /\ Entered = Bursts * Rounds + index
  BY DEF TurnInv
<1>4. Laps' = Laps + Flag(pulse)
  BY <1>2, Handshake DEF Laps, Flag, TypeOK
<1>5. Laps' \in Nat /\ active' = Laps' % 2
  <2>1. CASE pulse
    <3>1. Laps' = Laps + 1 /\ active' = 1 - active
      BY <1>2, <1>3, <1>4, <2>1 DEF Flag
    <3> QED
      BY <1>3, <3>1
  <2>2. CASE ~pulse
    <3>1. Laps' = Laps /\ active' = active
      BY <1>2, <1>3, <1>4, <2>2 DEF Flag
    <3> QED
      BY <1>3, <3>1
  <2> QED
    BY <2>1, <2>2
<1>6. Entered' = Entered + Flag(enters)
  BY <1>2, AddressMoves, Zenon
<1>7. /\ pulse <=> awOut # <<>> /\ awready /\ index = Bursts - 1
      /\ index' = IF enters THEN (IF index < Bursts - 1 THEN index + 1 ELSE 0) ELSE index
      /\ AwFree(awready) <=> awOut = <<>> \/ awready
      /\ awready => awOut # <<>>
  BY DEF Sound, Edge, WriterClock, PortClock, IndexNext, WrapPulse, AwFree
<1>8. /\ ~AwFree(awready) => awOut' = awOut
      /\ AwFree(awready) => (awOut' = <<>> <=> ~enters)
  BY DEF Sound, Edge, WriterClock, AwOutNext
<1>9. p + Bursts = q /\ q + Bursts = r /\ p \in Int /\ q \in Int /\ r \in Int
  BY <1>1, <1>3
<1>10. /\ Rounds \in {Laps - 1, Laps}
       /\ awOut = <<>> /\ index = Bursts - 1 <=> Rounds = Laps - 1
       /\ Rounds' = IF awOut' = <<>> /\ index' = Bursts - 1 THEN Laps' - 1 ELSE Laps'
  BY <1>3 DEF Rounds
<1>11. Entered' = Bursts * Rounds' + index'
  <2>1. CASE ~AwFree(awready)
    <3>1. ~enters /\ ~pulse /\ index' = index /\ awOut' = awOut
      BY <1>7, <1>8, <2>1
    <3>2. Laps' = Laps
      BY <1>3, <1>4, <3>1 DEF Flag
    <3>3. Rounds' = Rounds
      BY <3>1, <3>2 DEF Rounds
    <3>4. Entered' = Entered
      <4>1. Entered \in Int
        BY <1>1, <1>2 DEF Entered
      <4> QED
        BY <1>6, <3>1, <4>1 DEF Flag
    <3> QED
      BY <1>3, <3>1, <3>3, <3>4, Zenon
  <2>2. CASE AwFree(awready) /\ index = Bursts - 1
    <3>1. (Rounds = Laps /\ Laps' = Laps + 1) \/ (Rounds = Laps - 1 /\ Laps' = Laps)
      <4>1. CASE pulse
        BY <1>3, <1>4, <1>7, <1>10, <2>2, <4>1 DEF Flag
      <4>2. CASE ~pulse
        BY <1>3, <1>4, <1>7, <1>10, <2>2, <4>2 DEF Flag
      <4> QED
        BY <4>1, <4>2
    <3>2. Entered = q + index \/ Entered = p + index
      BY <1>3, <3>1
    <3>3. CASE enters
      <4>1. index' = 0 /\ Rounds' = Laps'
        BY <1>7, <1>8, <1>10, <2>2, <3>3
      <4>2. Entered' = Entered + 1
        BY <1>6, <3>3 DEF Flag
      <4>3. CASE Rounds = Laps /\ Laps' = Laps + 1
        <5>1. Entered = q + index /\ Bursts * Rounds' = r
          BY <1>3, <4>1, <4>3
        <5> HIDE DEF p, q, r
        <5> QED
          BY <1>1, <1>9, <2>2, <4>1, <4>2, <5>1
      <4>4. CASE Rounds = Laps - 1 /\ Laps' = Laps
        <5>1. Entered = p + index /\ Bursts * Rounds' = q
          BY <1>3, <4>1, <4>4
        <5> HIDE DEF p, q, r
        <5> QED
          BY <1>1, <1>9, <2>2, <4>1, <4>2, <5>1
      <4> QED
        BY <3>1, <4>3, <4>4
    <3>4. CASE ~enters
      <4>1. index' = index /\ Rounds' = Laps' - 1
        BY <1>7, <1>8, <1>10, <2>2, <3>4
      <4>2. Rounds' = Rounds
        BY <1>3, <3>1, <4>1
      <4>3. Entered \in Int /\ Entered' = Entered
        <5>1. Entered \in Int
          BY <1>1, <1>2 DEF Entered
        <5> QED
          BY <1>6, <3>4, <5>1 DEF Flag
      <4> QED
        BY <1>3, <4>1, <4>2, <4>3, Zenon
    <3> QED
      BY <3>3, <3>4
  <2>3. CASE AwFree(awready) /\ index # Bursts - 1
    <3>1. ~pulse /\ Rounds = Laps
      BY <1>3, <1>7, <1>10, <2>3
    <3>2. Laps' = Laps
      BY <1>3, <1>4, <3>1 DEF Flag
    <3>3. Rounds' = Laps
      <4>1. CASE enters
        <5>1. awOut' # <<>>
          BY <1>8, <2>3, <4>1
        <5> QED
          BY <1>10, <3>2, <5>1
      <4>2. CASE ~enters
        <5>1. index' = index
          BY <1>7, <4>2
        <5> QED
          BY <1>10, <2>3, <3>2, <5>1
      <4> QED
        BY <4>1, <4>2
    <3>4. Entered = q + index /\ Bursts * Rounds' = q
      BY <1>3, <3>1, <3>3
    <3>5. index' = index + Flag(enters)
      BY <1>1, <1>7, <2>3 DEF Flag
    <3>6. Flag(enters) \in Int
      BY DEF Flag
    <3> HIDE DEF q, enters
    <3> QED
      BY <1>1, <1>6, <1>9, <3>4, <3>5, <3>6
  <2> QED
    BY <2>1, <2>2, <2>3
<1> QED
  BY <1>5, <1>11 DEF TurnInv

LEMMA EdgeAddresses ==
  ASSUME HS!IInv, TypeOK, BurstInv, TurnInv, AddressInv, Sound, NEW avail \in BOOLEAN,
         NEW awready \in BOOLEAN, NEW wready \in BOOLEAN, Edge(avail, awready, wready),
         rec' = rec + Flag(Begins(avail)), armRec' = armRec
  PROVE  AddressInv'
<1> DEFINE enters == AwIn(avail) /\ AwFree(awready)
           addr == Address(avail)
<1>1. /\ Bursts \in Nat \ {0} /\ index \in 0 .. Bursts - 1 /\ armRec \in Nat
      /\ Len(awq) \in Nat /\ Len(awOut) \in Nat /\ Done \in Nat
  BY LenProperties, DmaWriterAssumption DEF TypeOK, Slots, BurstInv
<1>2. \A a : Aimed(a)' = Aimed(a)
  BY DEF Aimed
<1>3. Done' = Done
  BY AddressMoves
<1>4. ASSUME NEW i \in 1 .. Len(awq')
      PROVE  awq'[i].rec = armRec + Done + i /\ Aimed(awq'[i])
  <2>1. \/ i <= Len(awq) /\ awq'[i] = awq[i]
        \/ i = Len(awq) + 1 /\ awOut # <<>> /\ awq'[i] = awOut[1]
    BY <1>4, AddressesQueue, Zenon DEF Sound
  <2>2. CASE i <= Len(awq) /\ awq'[i] = awq[i]
    <3>1. i \in 1 .. Len(awq)
      BY <2>2
    <3> QED
      BY <2>2, <3>1, Zenon DEF AddressInv
  <2>3. CASE i = Len(awq) + 1 /\ awOut # <<>> /\ awq'[i] = awOut[1]
    <3>1. awOut[1].rec = armRec + Done + Len(awq) + 1 /\ Aimed(awOut[1])
      BY <2>3 DEF AddressInv
    <3>2. armRec + Done + Len(awq) + 1 = armRec + Done + i
      BY <1>1, <2>3
    <3> QED
      BY <2>3, <3>1, <3>2, Zenon
  <2> QED
    BY <2>1, <2>2, <2>3
<1>5. ASSUME awOut' # <<>>
      PROVE  awOut'[1].rec = armRec + Done + Len(awq') + 1 /\ Aimed(awOut'[1])
  <2>1. \/ enters /\ awOut'[1] = addr
        \/ ~enters /\ awOut' = awOut /\ awq' = awq
    BY <1>5, AddressesQueue, Zenon DEF Sound
  <2>2. CASE enters /\ awOut'[1] = addr
    <3>1. addr.rec = Current(avail) /\ addr.slot = index /\ addr.buf = active
      BY DEF Address
    <3>2. /\ Current(avail) = armRec + Entered + 1
          /\ Entered = Done + Len(awq) + Len(awOut)
      BY <2>2, AddressMoves
    <3>3. Len(awOut) = Flag(awready) /\ Len(awq') = Len(awq) + Flag(awready)
      <4>1. /\ Len(awq') = Len(awq) + Flag(awready)
            /\ awOut # <<>> => Len(awOut) = 1
            /\ awOut = <<>> => Len(awOut) = 0
            /\ awready => awOut # <<>>
        BY AddressesQueue, Zenon DEF Sound
      <4> QED
        BY <2>2, <4>1 DEF AwFree, Flag
    <3>4. Entered = Done + Len(awq') /\ Entered \in Nat
      <4>1. Flag(awready) \in Nat
        BY DEF Flag
      <4> QED
        BY <1>1, <3>2, <3>3, <4>1
    <3>5. addr.rec = armRec + Done + Len(awq') + 1
      <4>1. Len(awq') \in Nat
        BY <1>1, <3>3 DEF Flag
      <4> QED
        BY <1>1, <3>1, <3>2, <3>4, <4>1
    <3>6. addr.rec - armRec - 1 = Entered
      BY <1>1, <3>1, <3>2, <3>4
    <3>7. /\ Entered = Bursts * Rounds + index /\ Rounds \in Int
          /\ index # Bursts - 1 => active = Rounds % 2
      BY DEF TurnInv, Rounds
    <3>8. Entered % Bursts = index /\ Entered \div Bursts = Rounds
      BY <1>1, <3>7, DivideBy
    <3>9. Aimed(addr)
      BY <3>1, <3>6, <3>7, <3>8 DEF Aimed
    <3> QED
      BY <2>2, <3>5, <3>9, Zenon
  <2>3. CASE ~enters /\ awOut' = awOut /\ awq' = awq
    BY <1>5, <2>3 DEF AddressInv
  <2> QED
    BY <2>1, <2>2, <2>3
<1> QED
  BY <1>2, <1>3, <1>4, <1>5 DEF AddressInv, Aimed

LEMMA EdgeMemory ==
  ASSUME TypeOK, BurstInv, MemoryInv, Sound, NEW avail \in BOOLEAN,
         NEW awready \in BOOLEAN, NEW wready \in BOOLEAN, Edge(avail, awready, wready),
         rec' = rec + Flag(Begins(avail)), armRec' = armRec
  PROVE  MemoryInv'
<1>1. Done' = Done
  BY AddressMoves
<1>2. UNCHANGED <<wpos, ddr>>
  BY DEF Edge, PortClock
<1> QED
  BY <1>1, <1>2 DEF MemoryInv

LEMMA EdgeFull ==
  ASSUME HS!IInv, TypeOK, ResetInv, FullInv, NEW avail \in BOOLEAN,
         NEW awready \in BOOLEAN, NEW wready \in BOOLEAN, Edge(avail, awready, wready)
  PROVE  FullInv'
<1> DEFINE pulse == WrapPulse(awready)
<1>1. CASE Regs!Rise
  <2>1. full' = {}
    BY <1>1, FirstEdge
  <2> QED
    BY <2>1 DEF FullInv
<1>2. CASE ~Regs!Rise
  <2> SUFFICES ASSUME enable', enablePrev', "overwrite" \notin irq'
               PROVE  \/ full' = {}
                      \/ /\ full' = {1 - active'}
                         /\ lap'[1 - active'] = wraps' /\ wraps' > armWraps'
    BY DEF FullInv
  <2>1. enable /\ enablePrev /\ armWraps' = armWraps
    <3>1. rec \in Nat
      BY DmaWriterAssumption DEF TypeOK
    <3> QED
      BY <1>2, <3>1, NextEdge
  <2>2. pulse \in BOOLEAN
    BY DEF WrapPulse
  <2>3. PICK ctrl, irqAck, bufAck :
          Regs!Clock(pulse, FALSE, ctrl, irqAck, bufAck) /\ (enable => irqAck = {})
    BY <2>2, RegistersEdge DEF Edge
  <2>4. "overwrite" \notin irq /\ ~Regs!Overrun(pulse)
    BY <1>2, <2>1, <2>3 DEF Regs!Clock, Regs!IrqNext
  <2>5. \/ full = {}
        \/ full = {1 - active} /\ lap[1 - active] = wraps /\ wraps > armWraps
    BY <2>1, <2>4 DEF FullInv
  <2>6. /\ active \in {0, 1} /\ wraps \in Nat /\ lap \in [{0, 1} -> Nat]
        /\ armWraps \in 0 .. wraps
    BY Handshake DEF TypeOK
  <2>7. CASE pulse
    <3>1. full = {}
      BY <2>4, <2>5, <2>7 DEF Regs!Overrun
    <3>2. /\ full' = {active} /\ active' = 1 - active /\ wraps' = wraps + 1
          /\ lap'[active] = wraps + 1
      BY <1>2, <2>3, <2>6, <2>7, <3>1 DEF Regs!Clock, Regs!FullNext, Regs!ActiveNext
    <3>3. 1 - active' = active
      BY <2>6, <3>2
    <3> QED
      BY <2>1, <2>6, <3>2, <3>3
  <2>8. CASE ~pulse
    <3>1. full' \subseteq full /\ active' = active /\ wraps' = wraps /\ lap' = lap
      BY <1>2, <2>3, <2>8 DEF Regs!Clock, Regs!FullNext, Regs!ActiveNext
    <3> QED
      BY <2>1, <2>5, <3>1
  <2> QED
    BY <2>7, <2>8
<1> QED
  BY <1>1, <1>2

\* The first clock of an arming starts every count at nothing.
LEMMA EdgeFirst ==
  ASSUME HS!IInv, TypeOK, ResetInv, NEW avail \in BOOLEAN, NEW awready \in BOOLEAN,
         NEW wready \in BOOLEAN, Edge(avail, awready, wready), Regs!Rise
  PROVE  BurstInv' /\ TurnInv' /\ BeatInv' /\ AddressInv' /\ MemoryInv'
<1> SUFFICES ASSUME Sound'
             PROVE  BurstInv' /\ TurnInv' /\ BeatInv' /\ AddressInv' /\ MemoryInv'
  BY DEF BurstInv, TurnInv, BeatInv, AddressInv, MemoryInv
<1>1. /\ awPend' = FALSE /\ wBusy' = FALSE /\ cntr' = 0 /\ index' = 0
      /\ awOut' = <<>> /\ wOut' = <<>> /\ rec' = rec /\ armRec' = rec
      /\ armWraps' = wraps /\ wraps' = wraps /\ active' = 0
      /\ UNCHANGED <<awq, wq, wpos>>
      /\ clean' = (awq = <<>> /\ wq = <<>> /\ wpos = 0)
  BY FirstEdge
<1>2. awq' = <<>> /\ wq' = <<>> /\ wpos' = 0
  BY <1>1 DEF Sound
<1>3. /\ rec \in Nat /\ wraps \in Nat /\ Beats \in Nat /\ Beats >= 2
      /\ Bursts \in Nat /\ Bursts >= 2
  BY Handshake, DmaWriterAssumption DEF TypeOK
<1>4. /\ Len(awq') = 0 /\ Len(wq') = 0 /\ Len(awOut') = 0 /\ Len(wOut') = 0
      /\ Beats * 0 = 0 /\ Bursts * 0 = 0
  BY <1>1, <1>2, <1>3
<1>5. Entered' = 0 /\ Left' = 0 /\ Done' = 0 /\ Landed' = 0
  <2>1. Entered' = 0
    <3>1. ~awPend'
      BY <1>1
    <3>2. Entered' = rec' - armRec' - 0
      BY <3>1 DEF Entered
    <3> QED
      BY <1>1, <1>3, <3>2
  <2>2. Left' = 0
    BY <1>4, <2>1 DEF Left
  <2>3. Done' = 0
    BY <1>4, <2>2 DEF Done
  <2> QED
    BY <1>2, <1>4, <2>1, <2>2, <2>3 DEF Landed
<1>6. Laps' = 0 /\ Rounds' = 0
  <2>1. Laps' = 0
    BY <1>1, <1>3 DEF Laps
  <2> QED
    BY <1>1, <1>3, <2>1 DEF Rounds
<1>7. BurstInv'
  BY <1>1, <1>5 DEF BurstInv
<1>8. TurnInv'
  BY <1>1, <1>4, <1>5, <1>6 DEF TurnInv
<1>9. BeatInv'
  <2>1. NextPosition' = 0
    <3>1. (rec + 1) - rec - 1 = 0
      BY <1>3
    <3> QED
      BY <1>1, <1>4, <3>1 DEF NextPosition, Position
  <2>2. Moved' = 0
    BY <1>4, <1>5 DEF Moved
  <2> QED
    BY <1>1, <1>4, <2>1, <2>2 DEF BeatInv
<1>10. AddressInv'
  BY <1>1, <1>4 DEF AddressInv
<1>11. MemoryInv'
  <2>1. \A e \in 0 .. 0 : \A j \in 0 .. Beats - 1 : ~(e = 0 => j < 0)
    BY <1>3
  <2> QED
    BY <1>2, <1>5, <2>1 DEF MemoryInv
<1> QED
  BY <1>7, <1>8, <1>9, <1>10, <1>11

\* The server between two writes touches nothing of the writer.
LEMMA AsideInv ==
  ASSUME IInv, HS!IInv', ServerStep \/ UNCHANGED vars
  PROVE  IInv'
<1>1. /\ UNCHANGED <<writer, port, arming>>
      /\ UNCHANGED <<enable, enablePrev, active, full, irq, wraps, lap>>
  <2>1. CASE ServerStep
    BY <2>1 DEF ServerStep, Regs!ServerStep, Regs!PollStatus, Regs!BeginBuffer,
       Regs!FailBuffer, Regs!Die, Regs!regs, Regs!history
  <2>2. CASE UNCHANGED vars
    BY <2>2 DEF vars, registers
  <2> QED
    BY <2>1, <2>2
<1>2. /\ UNCHANGED <<awPend, wBusy, cntr, index, awOut, wOut>>
      /\ UNCHANGED <<awq, wq, wpos, ddr>>
      /\ UNCHANGED <<rec, armRec, armWraps, clean>>
  BY <1>1 DEF writer, port, arming
<1>3. Regs!TypeOK'
  BY DEF HS!IInv, HS!TypeOK, Regs!TypeOK, HS!Buffers, Regs!Buffers, HS!Irqs, Regs!Irqs,
     HS!None, Regs!None
<1>4. TypeOK'
  BY <1>1, <1>2, <1>3 DEF IInv, TypeOK
<1>5. /\ Sound' = Sound /\ Entered' = Entered /\ Left' = Left /\ Done' = Done
      /\ Laps' = Laps /\ Rounds' = Rounds
      /\ \A r, j : Position(r, j)' = Position(r, j)
      /\ \A a : Aimed(a)' = Aimed(a)
  BY <1>1, <1>2 DEF Sound, Entered, Left, Done, Laps, Rounds, Position, Aimed
<1>6. Unaddressed' = Unaddressed /\ Landed' = Landed /\ Moved' = Moved
  BY <1>2, <1>5 DEF Unaddressed, Landed, Moved
<1>7. NextPosition' = NextPosition
  BY <1>2 DEF NextPosition, Position
<1>8. ResetInv' /\ BurstInv' /\ TurnInv' /\ FullInv'
  BY <1>1, <1>2, <1>5, <1>6 DEF IInv, ResetInv, BurstInv, TurnInv, FullInv
<1>9. BeatInv'
  BY <1>2, <1>5, <1>6, <1>7 DEF IInv, BeatInv
<1>10. AddressInv'
  BY <1>2, <1>5 DEF IInv, AddressInv
<1>11. MemoryInv'
  BY <1>2, <1>5 DEF IInv, MemoryInv
<1> QED
  BY <1>4, <1>8, <1>9, <1>10, <1>11 DEF IInv

LEMMA EdgeInv ==
  ASSUME IInv, HS!IInv, HS!IInv', PulseInv', Clock
  PROVE  IInv'
<1>1. PICK avail \in BOOLEAN, awready \in BOOLEAN, wready \in BOOLEAN :
        Edge(avail, awready, wready)
  BY Zenon DEF Clock, Edge
<1>2. TypeOK /\ ResetInv /\ BurstInv /\ TurnInv /\ BeatInv /\ AddressInv /\ FullInv /\ MemoryInv
  BY DEF IInv
<1>3. TypeOK' /\ ResetInv' /\ FullInv'
  BY <1>1, <1>2, EdgeTypes, EdgeReset, EdgeFull
<1>4. CASE Regs!Rise
  BY <1>1, <1>2, <1>3, <1>4, EdgeFirst DEF IInv
<1>5. CASE ~Regs!Rise
  <2>1. rec \in Nat
    BY <1>2, DmaWriterAssumption DEF TypeOK
  <2>2. /\ Sound' => Sound
        /\ rec' = rec + Flag(Begins(avail)) /\ armRec' = armRec
    BY <1>1, <1>5, <2>1, NextEdge
  <2>3. CASE ~Sound'
    BY <1>3, <2>3 DEF IInv, BurstInv, TurnInv, BeatInv, AddressInv, MemoryInv
  <2>4. CASE Sound'
    <3>1. BurstInv' /\ BeatInv' /\ MemoryInv'
      BY <1>1, <1>2, <2>2, <2>4, EdgeBursts, EdgeBeats, EdgeMemory
    <3>2. TurnInv' /\ AddressInv'
      BY <1>1, <1>2, <1>5, <2>2, <2>4, EdgeTurns, EdgeAddresses
    <3> QED
      BY <1>3, <3>1, <3>2 DEF IInv
  <2> QED
    BY <2>3, <2>4
<1> QED
  BY <1>4, <1>5

LEMMA LandInv ==
  ASSUME IInv, Land
  PROVE  IInv'
<1>1. TypeOK /\ ResetInv /\ BurstInv /\ TurnInv /\ BeatInv /\ AddressInv /\ FullInv /\ MemoryInv
  BY DEF IInv
<1>2. TypeOK'
  BY <1>1, LandTypes
<1>3. ResetInv' /\ BurstInv' /\ TurnInv' /\ BeatInv' /\ AddressInv' /\ FullInv'
  BY <1>1, LandQueued
<1>4. MemoryInv'
  <2>1. Sound' = Sound
    BY DEF Land, registers, arming, Sound
  <2>2. CASE Sound
    BY <1>1, <2>2, LandMemory
  <2>3. CASE ~Sound
    BY <2>1, <2>3 DEF MemoryInv
  <2> QED
    BY <2>2, <2>3
<1> QED
  BY <1>2, <1>3, <1>4 DEF IInv

LEMMA StepInv == IInv /\ PulseInv /\ HS!IInv /\ HS!IInv' /\ [Next]_vars => IInv'
<1> SUFFICES ASSUME IInv, PulseInv, HS!IInv, HS!IInv', [Next]_vars
             PROVE  IInv'
  OBVIOUS
<1>1. PulseInv'
  BY PulseStep
<1>2. CASE Clock
  BY <1>1, <1>2, EdgeInv
<1>3. CASE ServerStep \/ UNCHANGED vars
  BY <1>3, AsideInv
<1>4. CASE Land
  BY <1>4, LandInv
<1> QED
  BY <1>2, <1>3, <1>4 DEF Next

\* The writer, the port behind it and the registers keep the invariant for every
\* buffer, burst and port: what follows holds in every reachable state.
THEOREM Invariance == Spec => []IInv
BY InitInv, StepInv, PulseInit, PulseStep, HandshakeHolds, PTL DEF Spec

\* Every variable of the writer and of the port keeps its type.
THEOREM TypeCorrect == Spec => []TypeOK
<1>1. IInv => TypeOK
  BY DEF IInv
<1> QED
  BY <1>1, Invariance, PTL

-----------------------------------------------------------------------------
(* What the invariant says of the slots, the wraps and the buffers. *)

\* The addresses that have left, and the one that makes the pulse next, stand in
\* the lap under way.
LEMMA LapBounds ==
  ASSUME TypeOK, TurnInv, Sound
  PROVE  /\ Bursts \in Nat \ {0} /\ Bursts >= 2 /\ Laps \in Nat /\ Left \in Int
         /\ \E r \in 0 .. Bursts - 1 : Left + 1 = Bursts * Laps + r
<1> DEFINE q == Bursts * Laps
           p == Bursts * (Laps - 1)
<1>1. /\ Bursts \in Nat \ {0} /\ Bursts >= 2 /\ index \in 0 .. Bursts - 1
      /\ rec \in Nat /\ armRec \in Nat /\ Laps \in Nat
      /\ awOut \in Seq(Addresses) /\ Len(awOut) \in Nat /\ Len(awOut) <= 1
  BY LenProperties, DmaWriterAssumption DEF TypeOK, TurnInv, Slots
<1>2. /\ q \in Int /\ p \in Int /\ q = p + Bursts
  BY <1>1
<1>3. Entered \in Int /\ Left \in Int
  BY <1>1 DEF Entered, Left
<1>4. /\ Entered = Bursts * Rounds + index
      /\ Rounds = IF awOut = <<>> /\ index = Bursts - 1 THEN Laps - 1 ELSE Laps
  BY DEF TurnInv, Rounds
<1>5. CASE awOut # <<>>
  <2>1. Len(awOut) = 1
    <3>1. Len(awOut) \in Nat \ {0}
      BY <1>1, <1>5, EmptySeq
    <3>2. \A n \in Nat \ {0} : n <= 1 => n = 1
      OBVIOUS
    <3> QED
      BY <1>1, <3>1, <3>2, Zenon
  <2>2. Entered = q + index
    BY <1>4, <1>5
  <2>3. Left + 1 = q + index
    BY <1>1, <1>2, <1>3, <2>1, <2>2 DEF Left
  <2> QED
    BY <1>1, <1>3, <2>3
<1>6. CASE awOut = <<>>
  <2>1. Left = Entered
    BY <1>3, <1>6 DEF Left
  <2>2. CASE index = Bursts - 1
    <3>1. Entered = p + index
      BY <1>4, <1>6, <2>2
    <3> HIDE DEF p, q
    <3>2. Left + 1 = q + 0
      BY <1>1, <1>2, <1>3, <2>1, <2>2, <3>1
    <3>3. 0 \in 0 .. Bursts - 1
      BY <1>1
    <3> QED
      BY <1>1, <1>3, <3>2, <3>3 DEF q
  <2>3. CASE index # Bursts - 1
    <3>1. Entered = q + index
      BY <1>4, <2>3
    <3> HIDE DEF p, q
    <3>2. Left + 1 = q + (index + 1)
      BY <1>1, <1>2, <1>3, <2>1, <3>1
    <3>3. index + 1 \in 0 .. Bursts - 1
      BY <1>1, <2>3
    <3> QED
      BY <1>1, <1>3, <3>2, <3>3 DEF q
  <2> QED
    BY <2>2, <2>3
<1> QED
  BY <1>5, <1>6

\* However the channels stall, no address is lost or sent twice: the slot
\* register has gone round once for every Bursts of them.
THEOREM SlotsCountBursts == Spec => []OneAddressPerBurst
<1>1. ASSUME IInv PROVE OneAddressPerBurst
  <2> SUFFICES ASSUME Sound PROVE index = Entered % Bursts
    BY DEF OneAddressPerBurst
  <2>1. /\ Bursts \in Nat \ {0} /\ index \in 0 .. Bursts - 1
        /\ Entered = Bursts * Rounds + index /\ Rounds \in Int
    BY <1>1, DmaWriterAssumption DEF IInv, TypeOK, TurnInv, Rounds, Slots
  <2> QED
    BY <2>1, DivideBy
<1> QED
  BY <1>1, Invariance, PTL

\* A wrap is counted when the last address but one of a buffer has left, never
\* two for a buffer and never one between.
THEOREM WrapsCountLaps == Spec => []WrapPeriod
<1>1. ASSUME IInv PROVE WrapPeriod
  <2> SUFFICES ASSUME Sound
               PROVE  Laps = (Left + 1) \div Bursts /\ active = Laps % 2
    BY DEF WrapPeriod, Laps
  <2>1. active = Laps % 2
    BY <1>1 DEF IInv, TurnInv
  <2>2. /\ Bursts \in Nat \ {0} /\ Laps \in Nat
        /\ \E r \in 0 .. Bursts - 1 : Left + 1 = Bursts * Laps + r
    BY <1>1, LapBounds DEF IInv
  <2>3. PICK r \in 0 .. Bursts - 1 : Left + 1 = Bursts * Laps + r
    BY <2>2
  <2>4. (Bursts * Laps + r) \div Bursts = Laps
    BY <2>2, DivideBy
  <2> QED
    BY <2>1, <2>3, <2>4
<1> QED
  BY <1>1, Invariance, PTL

\* The beat that lands next is of the burst that is addressed next.
LEMMA HeadsMatch == ASSUME IInv PROVE AlignedIfDrained
<1> SUFFICES ASSUME Sound, awq # <<>>, wq # <<>>
             PROVE  Head(wq) = [rec |-> Head(awq).rec, beat |-> wpos]
  BY DEF AlignedIfDrained
<1>1. /\ awq \in Seq(Addresses) /\ wq \in Seq(WordBeats)
      /\ Beats \in Nat \ {0} /\ wpos \in 0 .. Beats - 1 /\ armRec \in Nat
  BY DmaWriterAssumption DEF IInv, TypeOK
<1>2. /\ Head(wq) = wq[1] /\ 1 \in 1 .. Len(wq) /\ wq[1] \in WordBeats
      /\ Head(awq) = awq[1] /\ 1 \in 1 .. Len(awq)
  BY <1>1
<1>3. Done \in Nat /\ awq[1].rec = armRec + Done + 1
  BY <1>2 DEF IInv, BurstInv, AddressInv
<1> DEFINE w == wq[1]
<1>4. w.rec \in Nat /\ w.beat \in 0 .. Beats - 1 /\ w = [rec |-> w.rec, beat |-> w.beat]
  BY <1>2 DEF WordBeats
<1>5. Position(w.rec, w.beat) = Landed + 1 - 1
  BY <1>2 DEF IInv, BeatInv
<1> HIDE DEF w
<1>6. Beats * (w.rec - armRec - 1) + w.beat = Beats * Done + wpos
  <2>1. Landed \in Int
    BY <1>1, <1>3 DEF Landed
  <2> QED
    BY <1>5, <2>1 DEF Position, Landed
<1>7. w.rec - armRec - 1 = Done /\ w.beat = wpos
  <2> DEFINE e == w.rec - armRec - 1
  <2>1. e \in Int
    BY <1>1, <1>4
  <2>2. Beats * e + w.beat = Beats * Done + wpos
    BY <1>6
  <2>3. Done \in Int
    BY <1>3
  <2> HIDE DEF e
  <2>4. e = Done /\ w.beat = wpos
    BY <1>1, <1>4, <2>1, <2>2, <2>3, QuotientUnique
  <2> QED
    BY <2>4 DEF e
<1>8. w.rec = awq[1].rec
  BY <1>1, <1>3, <1>4, <1>7
<1> QED
  BY <1>2, <1>4, <1>7, <1>8 DEF w

\* In an arming that began with the port drained, no skew of the two channels
\* puts a beat at another word or in another slot than its own.
THEOREM BeatsMeetTheirAddress == Spec => []AlignedIfDrained
BY HeadsMatch, Invariance, PTL

\* Two laps in a row fill different buffers.
LEMMA LapsAlternate ==
  ASSUME NEW n \in Nat
  PROVE  n % 2 \in {0, 1} /\ (n - 1) % 2 = 1 - (n % 2)
OBVIOUS

\* An address on its way into a FULL buffer, while the overwrite bit is down, is
\* of no later lap than the one announced; and of no earlier one, unless the port
\* holds a buffer's worth of addresses.
LEMMA OnItsWay ==
  ASSUME IInv, Sound, "overwrite" \notin irq, NEW i \in 1 .. Len(awq \o awOut),
         (awq \o awOut)[i].buf \in full
  PROVE  LET a == (awq \o awOut)[i]
             q == (a.rec - armRec - 1) \div Bursts
         IN  /\ lap[a.buf] = wraps /\ q \in Int /\ q <= Laps - 1
             /\ AwDepth < Bursts => q = Laps - 1
<1> DEFINE a == (awq \o awOut)[i]
           e == a.rec - armRec - 1
           q == e \div Bursts
           s == e % Bursts
           below == Bursts * (Laps - 1)
<1>1. /\ awq \in Seq(Addresses) /\ awOut \in Seq(Addresses)
      /\ Len(awq) \in Nat /\ Len(awOut) \in Nat /\ Len(awOut) <= 1
      /\ Len(awq) <= AwDepth /\ AwDepth \in Nat /\ armRec \in Nat
      /\ wraps \in Nat /\ armWraps \in Nat
  BY LenProperties, DmaWriterAssumption DEF IInv, TypeOK, Regs!TypeOK
<1>2. /\ Bursts \in Nat \ {0} /\ Bursts >= 2 /\ Laps \in Nat /\ Left \in Int
      /\ \E r \in 0 .. Bursts - 1 : Left + 1 = Bursts * Laps + r
  BY LapBounds DEF IInv
<1>3. /\ below \in Int /\ Bursts * Laps = below + Bursts
      /\ below + Bursts <= Left + 1 /\ Left + 1 < below + 2 * Bursts
  BY <1>2
<1>4. Len(awq \o awOut) = Len(awq) + Len(awOut) /\ i \in Nat
  BY <1>1, ConcatProperties
<1>5. Done \in Nat /\ Left = Done + Len(awq)
  BY <1>1, <1>2 DEF IInv, BurstInv, Done
<1>6. e = Done + i - 1 /\ Aimed(a)
  <2>1. CASE i <= Len(awq)
    <3>1. a = awq[i] /\ i \in 1 .. Len(awq)
      BY <1>1, <1>4, <2>1, ConcatProperties
    <3>2. awq[i].rec = armRec + Done + i /\ Aimed(awq[i])
      BY <3>1 DEF IInv, AddressInv
    <3>3. a.rec = armRec + Done + i /\ Aimed(a)
      BY <3>1, <3>2
    <3> QED
      BY <1>1, <1>4, <1>5, <3>3
  <2>2. CASE i > Len(awq)
    <3>1. i = Len(awq) + 1 /\ Len(awOut) = 1
      <4>1. i <= Len(awq) + Len(awOut)
        BY <1>4
      <4>2. \A m, n \in Nat : i > m /\ i <= m + n /\ n <= 1 => i = m + 1 /\ n = 1
        BY <1>4
      <4> QED
        BY <1>1, <2>2, <4>1, <4>2
    <3>2. awOut # <<>> /\ a = awOut[1]
      BY <1>1, <1>4, <3>1, ConcatProperties
    <3>3. awOut[1].rec = armRec + Done + Len(awq) + 1 /\ Aimed(awOut[1])
      BY <3>2 DEF IInv, AddressInv
    <3>4. a.rec = armRec + Done + i /\ Aimed(a)
      BY <1>1, <1>5, <3>1, <3>2, <3>3
    <3> QED
      BY <1>1, <1>4, <1>5, <3>4
  <2> QED
    BY <1>1, <1>4, <2>1, <2>2
<1>7. /\ a.slot = s
      /\ s # Bursts - 1 => a.buf = q % 2
  BY <1>6 DEF Aimed
<1>8. a.buf = 1 - active /\ lap[a.buf] = wraps /\ active = Laps % 2
  BY DEF IInv, FullInv, TurnInv, Sound
<1>9. /\ e \in Int /\ q \in Int /\ s \in 0 .. Bursts - 1 /\ e = Bursts * q + s
  <2>1. e \in Int
    BY <1>1, <1>4, <1>5, <1>6
  <2> HIDE DEF e
  <2> QED
    BY <1>2, <2>1, DivisionIs
<1>10. e <= Left /\ Left - AwDepth <= e
  BY <1>1, <1>2, <1>4, <1>5, <1>6
<1> HIDE DEF a, e, q, s, below
<1>11. \A k \in Int : /\ k >= Laps => Bursts * k >= below + Bursts
                      /\ k >= Laps + 1 => Bursts * k >= below + 2 * Bursts
                      /\ k <= Laps - 2 => Bursts * k <= below - Bursts
  <2> SUFFICES ASSUME NEW k \in Int
               PROVE  /\ k >= Laps => Bursts * k >= below + Bursts
                      /\ k >= Laps + 1 => Bursts * k >= below + 2 * Bursts
                      /\ k <= Laps - 2 => Bursts * k <= below - Bursts
    OBVIOUS
  <2>1. \A x, y \in Int : x <= y => Bursts * x <= Bursts * y
    BY <1>2
  <2>2. /\ Bursts * Laps = below + Bursts
        /\ Bursts * (Laps + 1) = below + 2 * Bursts
        /\ Bursts * (Laps - 2) = below - Bursts
    BY <1>2 DEF below
  <2>3. Laps \in Int /\ Laps + 1 \in Int /\ Laps - 2 \in Int
    BY <1>2
  <2>4. /\ k >= Laps => Bursts * Laps <= Bursts * k
        /\ k >= Laps + 1 => Bursts * (Laps + 1) <= Bursts * k
        /\ k <= Laps - 2 => Bursts * k <= Bursts * (Laps - 2)
    BY <2>1, <2>3
  <2> QED
    BY <2>2, <2>4
<1>12. q <= Laps - 1
  <2> SUFFICES ASSUME q >= Laps PROVE FALSE
    BY <1>2, <1>9
  <2> DEFINE bq == Bursts * q
  <2>1. bq \in Int
    BY <1>2, <1>9
  <2>2. bq >= below + Bursts /\ (q >= Laps + 1 => bq >= below + 2 * Bursts)
    BY <1>9, <1>11
  <2>3. e = bq + s
    BY <1>9
  <2> HIDE DEF bq
  <2>4. q = Laps
    BY <1>2, <1>3, <1>9, <1>10, <2>1, <2>2, <2>3
  <2>5. s # Bursts - 1
    BY <1>2, <1>3, <1>9, <1>10, <2>1, <2>2, <2>3
  <2>6. 1 - (Laps % 2) = Laps % 2 /\ Laps % 2 \in {0, 1}
    BY <1>2, <1>7, <1>8, <2>4, <2>5, LapsAlternate
  <2> QED
    BY <2>6
<1>13. AwDepth < Bursts => q = Laps - 1
  <2> SUFFICES ASSUME AwDepth < Bursts, q <= Laps - 2 PROVE FALSE
    BY <1>2, <1>9, <1>12
  <2> DEFINE bq == Bursts * q
  <2>1. bq \in Int
    BY <1>2, <1>9
  <2>2. bq <= below - Bursts
    BY <1>9, <1>11
  <2>3. e = bq + s
    BY <1>9
  <2> HIDE DEF bq
  <2> QED
    BY <1>1, <1>2, <1>3, <1>9, <1>10, <2>1, <2>2, <2>3
<1> QED
  BY <1>8, <1>9, <1>12, <1>13 DEF q, e, a

\* Behind any port, what is still on its way into a FULL buffer while the
\* overwrite bit is down is never of a lap after the announced one.
NothingNewerFollows ==
  Sound /\ "overwrite" \notin irq =>
    \A i \in 1 .. Len(awq \o awOut) :
      LET a == (awq \o awOut)[i] IN
      a.buf \in full => (a.rec - armRec - 1) \div Bursts + 1 <= lap[a.buf] - armWraps

\* A FULL bit that software trusts is never ahead of its buffer by a lap: the
\* writer adds to the buffer nothing that is newer than the bit.
THEOREM NothingNewer == Spec => []NothingNewerFollows
<1>1. ASSUME IInv PROVE NothingNewerFollows
  <2> SUFFICES ASSUME Sound, "overwrite" \notin irq, NEW i \in 1 .. Len(awq \o awOut),
                      (awq \o awOut)[i].buf \in full
               PROVE  ((awq \o awOut)[i].rec - armRec - 1) \div Bursts + 1
                        <= lap[(awq \o awOut)[i].buf] - armWraps
    BY DEF NothingNewerFollows
  <2> DEFINE a == (awq \o awOut)[i]
             q == (a.rec - armRec - 1) \div Bursts
  <2>1. lap[a.buf] = wraps /\ q \in Int /\ q <= Laps - 1
    BY <1>1, OnItsWay
  <2>2. wraps \in Nat /\ armWraps \in Nat
    BY <1>1 DEF IInv, TypeOK, Regs!TypeOK
  <2> HIDE DEF q
  <2>3. q + 1 <= lap[a.buf] - armWraps
    BY <2>1, <2>2 DEF Laps
  <2> QED
    BY <2>3 DEF q
<1> QED
  BY <1>1, Invariance, PTL

\* And behind a port that holds fewer addresses than a buffer has slots it is of
\* the announced lap.  The stalled last address of the lap before would be in the
\* same buffer.
THEOREM TailFollows ==
  ASSUME AwDepth < Bursts
  PROVE  Spec => []OnlyTheTailFollows
<1>1. ASSUME IInv PROVE OnlyTheTailFollows
  <2> SUFFICES ASSUME Sound, "overwrite" \notin irq, NEW i \in 1 .. Len(awq \o awOut),
                      (awq \o awOut)[i].buf \in full
               PROVE  lap[(awq \o awOut)[i].buf]
                        = armWraps + (((awq \o awOut)[i].rec - armRec - 1) \div Bursts) + 1
    BY DEF OnlyTheTailFollows
  <2> DEFINE a == (awq \o awOut)[i]
             q == (a.rec - armRec - 1) \div Bursts
  <2>1. lap[a.buf] = wraps /\ q \in Int /\ q = Laps - 1
    BY <1>1, OnItsWay
  <2>2. wraps \in Nat /\ armWraps \in Nat
    BY <1>1 DEF IInv, TypeOK, Regs!TypeOK
  <2> HIDE DEF q
  <2>3. lap[a.buf] = armWraps + q + 1
    BY <2>1, <2>2 DEF Laps
  <2> QED
    BY <2>3 DEF q
<1> QED
  BY <1>1, Invariance, PTL

\* Once the port is idle, every slot but the last of a FULL buffer that the
\* writer has not come back to holds the record of the announced lap.
THEOREM InnerSlots == Spec => []InnerSlotsSettle
<1>1. ASSUME IInv PROVE InnerSlotsSettle
  <2> SUFFICES ASSUME Sound, "overwrite" \notin irq, awOut = <<>>, awq = <<>>,
                      NEW b \in full, NEW s \in 0 .. Bursts - 2, NEW j \in 0 .. Beats - 1
               PROVE  ddr[b][s][j] = [rec |-> LapRecord(b, s), beat |-> j]
    BY DEF InnerSlotsSettle, Holds
  <2>1. /\ wraps \in Nat /\ armWraps \in Nat /\ armRec \in Nat /\ wraps > armWraps
        /\ b = 1 - active /\ lap[b] = wraps /\ active = Laps % 2
    BY <1>1 DEF IInv, TypeOK, Regs!TypeOK, FullInv, TurnInv, Sound
  <2>2. /\ Bursts \in Nat \ {0} /\ Bursts >= 2 /\ Laps \in Nat /\ Left \in Int
        /\ \E r \in 0 .. Bursts - 1 : Left + 1 = Bursts * Laps + r
    BY <1>1, LapBounds DEF IInv
  <2>3. Done \in Nat /\ Left = Done
    BY <1>1, <2>2 DEF IInv, BurstInv, Done
  <2> DEFINE below == Bursts * (Laps - 1)
             e == below + s
  <2>4. /\ below \in Int /\ Bursts * Laps = below + Bursts
        /\ below + Bursts <= Left + 1 /\ Left + 1 < below + 2 * Bursts
    BY <2>2
  <2>5. Laps >= 1 /\ below >= 0
    <3>1. Laps >= 1
      BY <2>1 DEF Laps
    <3> QED
      BY <2>2, <3>1
  <2>6. s \in 0 .. Bursts - 1 /\ s # Bursts - 1 /\ s \in Nat
    BY <2>2
  <2>7. e \div Bursts = Laps - 1 /\ e % Bursts = s
    BY <2>2, <2>6, DivideBy
  <2>8. (Laps - 1) % 2 = b
    BY <2>1, <2>2, LapsAlternate
  <2>9. LapRecord(b, s) = armRec + 1 + e
    <3>1. below = (wraps - armWraps - 1) * Bursts
      BY <2>1, <2>2 DEF Laps
    <3> HIDE DEF below
    <3>2. LapRecord(b, s) = armRec + below + s + 1
      BY <2>1, <3>1 DEF LapRecord
    <3> QED
      BY <2>1, <2>4, <2>6, <3>2
  <2> HIDE DEF below
  <2>10. e \in 0 .. Done /\ e < Done /\ Done < e + 2 * Bursts
    BY <2>2, <2>3, <2>4, <2>5, <2>6
  <2> HIDE DEF e
  <2>11. ddr[(e \div Bursts) % 2][e % Bursts][j] = [rec |-> armRec + 1 + e, beat |-> j]
    BY <1>1, <2>6, <2>7, <2>10 DEF IInv, MemoryInv
  <2> QED
    BY <2>7, <2>8, <2>9, <2>11
<1> QED
  BY <1>1, Invariance, PTL

\* So what is proved of the handshake holds of the real writer with the port behind
\* it: no buffer is filled unannounced, the one being read is safe or the overwrite bit
\* is up, no lap is skipped meanwhile, and no loss goes uncounted.
THEOREM HandshakeKept ==
  Spec => [](HS!OverwriteVisible /\ HS!ReaderWarned /\ HS!LapsAccounted /\ HS!LossCounted)
<1>1. MaxRec \in Nat
  BY DmaWriterAssumption
<1>2. HS!Spec => /\ []HS!OverwriteVisible /\ []HS!ReaderWarned
                 /\ []HS!LapsAccounted /\ []HS!LossCounted
  BY <1>1, HS!OverwriteIsVisible, HS!ReaderIsWarned, HS!LapsAreAccounted, HS!LossIsCounted
<1> QED
  BY <1>2, Implementation, SameSpec, PTL DEF ImplementsPingPong

\* While the overwrite bit is down, the only beat that may still change a FULL buffer
\* is the one the announced lap has at that place.
FullBuffersOnlySettle ==
  [][Sound /\ "overwrite" \notin irq =>
       \A b \in full : \A s \in Slots : \A j \in 0 .. Beats - 1 :
         ddr'[b][s][j] # ddr[b][s][j] =>
           ddr'[b][s][j] = [rec |-> LapRecord(b, s), beat |-> j]]_vars

\* Behind a port that holds fewer addresses than a buffer has slots, a FULL buffer
\* that software trusts only ever becomes more complete: no step puts anything in it
\* but the announced lap.
THEOREM SettleOnly ==
  ASSUME AwDepth < Bursts
  PROVE  Spec => FullBuffersOnlySettle
<1> DEFINE Settles ==
      Sound /\ "overwrite" \notin irq =>
        \A b \in full : \A s \in Slots : \A j \in 0 .. Beats - 1 :
          ddr'[b][s][j] # ddr[b][s][j] =>
            ddr'[b][s][j] = [rec |-> LapRecord(b, s), beat |-> j]
<1>1. ASSUME IInv, Land PROVE Settles
  <2> SUFFICES ASSUME Sound, "overwrite" \notin irq,
                      NEW b \in full, NEW s \in Slots, NEW j \in 0 .. Beats - 1,
                      ddr'[b][s][j] # ddr[b][s][j]
               PROVE  ddr'[b][s][j] = [rec |-> LapRecord(b, s), beat |-> j]
    OBVIOUS
  <2> DEFINE a == awq[1]
             e == a.rec - armRec - 1
             q == e \div Bursts
  <2>1. /\ awq \in Seq(Addresses) /\ awOut \in Seq(Addresses) /\ awq # <<>> /\ wq # <<>>
        /\ ddr \in [Regs!Buffers -> [Slots -> [0 .. Beats - 1 -> WordBeats]]]
        /\ full \subseteq Regs!Buffers
        /\ armRec \in Nat /\ wraps \in Nat /\ armWraps \in Nat
        /\ ddr' = [ddr EXCEPT ![Head(awq).buf][Head(awq).slot][wpos] = Head(wq)]
    BY <1>1, DmaWriterAssumption DEF IInv, TypeOK, Regs!TypeOK, Land
  <2>2. /\ Head(awq) = a /\ Len(awq) \in Nat /\ 1 \in 1 .. Len(awq)
        /\ a \in Addresses /\ a.rec \in Nat
    <3>1. Len(awq) \in Nat /\ 1 \in 1 .. Len(awq) /\ Head(awq) = awq[1]
      BY <2>1
    <3>2. awq[1] \in Addresses
      BY <2>1, <3>1
    <3>3. awq[1].rec \in Nat
      BY <3>2 DEF Addresses
    <3> QED
      BY <3>1, <3>2, <3>3
  <2>3. 1 \in 1 .. Len(awq \o awOut) /\ (awq \o awOut)[1] = a
    BY <2>1, <2>2, ConcatProperties, LenProperties
  <2> HIDE DEF a
  <2>4. b = a.buf /\ s = a.slot /\ j = wpos /\ ddr'[b][s][j] = Head(wq)
    BY <2>1, <2>2
  <2>5. Head(wq) = [rec |-> a.rec, beat |-> j]
    BY <1>1, <2>1, <2>2, <2>4, HeadsMatch DEF AlignedIfDrained
  <2>6. lap[b] = wraps /\ q = Laps - 1
    BY <1>1, <2>3, <2>4, OnItsWay
  <2>7. a.slot = e % Bursts
    BY <1>1, <2>2 DEF IInv, AddressInv, Aimed, a
  <2>8. e \in Int
    <3>1. armRec \in Int
      BY <2>1
    <3>2. a.rec \in Int
      BY <2>2
    <3> QED
      BY <3>1, <3>2
  <2>9. Bursts \in Nat \ {0} /\ q \in Int /\ s \in Nat /\ e = Bursts * q + s
    <3> HIDE DEF e
    <3> QED
      BY <2>4, <2>7, <2>8, DmaWriterAssumption, DivisionIs
  <2>10. LapRecord(b, s) = armRec + Bursts * q + s + 1
    <3> HIDE DEF q
    <3>1. lap[b] - armWraps - 1 = q
      BY <2>1, <2>6 DEF Laps
    <3>2. q * Bursts = Bursts * q
      BY <2>9
    <3> QED
      BY <3>1, <3>2 DEF LapRecord
  <2>11. LapRecord(b, s) = a.rec
    <3> DEFINE x == Bursts * q
    <3>1. x \in Int /\ s \in Int /\ armRec \in Int /\ a.rec \in Int
      <4>1. x \in Int /\ s \in Int
        BY <2>9
      <4>2. armRec \in Int
        BY <2>1
      <4>3. a.rec \in Int
        BY <2>2
      <4> QED
        BY <4>1, <4>2, <4>3
    <3>2. a.rec - armRec - 1 = x + s /\ LapRecord(b, s) = armRec + x + s + 1
      BY <2>9, <2>10
    <3> HIDE DEF x
    <3>3. armRec + x + s + 1 = a.rec
      BY <3>1, <3>2
    <3> QED
      BY <3>2, <3>3
  <2> QED
    BY <2>4, <2>5, <2>11
<1>2. ASSUME ddr' = ddr PROVE Settles
  BY <1>2
<1>3. Clock \/ ServerStep \/ UNCHANGED vars => ddr' = ddr
  BY DEF Clock, PortClock, ServerStep, port, vars
<1>4. IInv /\ [Next]_vars => Settles
  BY <1>1, <1>2, <1>3 DEF Next
<1>5. Spec => [][Settles]_vars
  BY <1>4, Invariance, PTL DEF Spec
<1> QED
  BY <1>5 DEF FullBuffersOnlySettle
===============================================================================
