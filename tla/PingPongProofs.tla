---------------------------- MODULE PingPongProofs ----------------------------
(***************************************************************************)
(* PingPong's properties for every number of wraps.  None of them is       *)
(* inductive alone: a FULL bit under the writer is only ever announced     *)
(* because arming clears the sticky bits before the FULL bits and enables  *)
(* last, and because the server touches neither while it reads.            *)
(***************************************************************************)
EXTENDS PingPong, FiniteSetTheorems, TLAPS

\* The server's place in dma_arm and the enable bit go together, and from the
\* moment it clears the FULL bits to the first clock of the new arming they
\* stay clear and nothing is being served.
ArmingInv ==
  /\ pc = "running" => enable
  /\ enable => pc \in {"running", "down"}
  /\ pc \in {"irqAcked", "bufAcked"} => ~enablePrev
  /\ pc \in {"down", "irqAcked", "bufAcked"} => Idle
  /\ pc = "bufAcked" => full = {}
  /\ Rise => Idle /\ full = {}

\* Whatever the server is serving or has still to serve is FULL.
ServingInv ==
  /\ seen \subseteq full
  /\ reading # None => reading \in full /\ reading \notin seen

\* OverwriteVisible and ReaderWarned, from the write that enables DMA on.
WarnedInv ==
  pc = "running" =>
    /\ active \in full => "overwrite" \in irq
    /\ reading # None /\ "overwrite" \notin irq => lap[reading] = readLap

\* LossCounted with the overwrite already counted for the lap in progress.
LossInv ==
  wraps + (IF active \in full THEN 1 ELSE 0)
    <= servedLaps + FullCount + discarded + overwrites

IInv ==
  /\ TypeOK
  /\ ArmingInv
  /\ ServingInv
  /\ WarnedInv
  /\ LapsAccounted
  /\ LossInv

-----------------------------------------------------------------------------

\* The number of FULL bits, bit by bit.
LEMMA FullCountBits ==
  ASSUME NEW F \in SUBSET Buffers
  PROVE  Cardinality(F) =
           (IF 0 \in F THEN 1 ELSE 0) + (IF 1 \in F THEN 1 ELSE 0)
<1>1. F = {} \/ F = {0} \/ F = {1} \/ F = {0} \cup {1}
  BY DEF Buffers
<1>2. Cardinality({}) = 0 /\ Cardinality({0}) = 1 /\ Cardinality({1}) = 1
  BY FS_EmptySet, FS_Singleton
<1>3. Cardinality({0} \cup {1}) = 2
  <2>1. IsFiniteSet({0})
    BY FS_Singleton
  <2> QED
    BY <2>1, <1>2, FS_AddElement
<1> QED
  BY <1>1, <1>2, <1>3

LEMMA InitInv == Init => IInv
<1> SUFFICES ASSUME Init PROVE IInv
  OBVIOUS
<1>1. FullCount = 0
  BY FS_EmptySet DEF FullCount, Init
<1>2. TypeOK
  BY DEF Init, TypeOK, Buffers, None
<1>3. ArmingInv
  BY DEF Init, ArmingInv, Rise, Idle
<1>4. ServingInv /\ WarnedInv /\ LapsAccounted
  BY DEF Init, ServingInv, WarnedInv, LapsAccounted, Armed
<1>5. LossInv
  BY <1>1 DEF Init, LossInv
<1> QED
  BY <1>2, <1>3, <1>4, <1>5 DEF IInv

-----------------------------------------------------------------------------
(* What one clock edge does to the registers, whoever writes them. *)

\* The registers keep their types.
LEMMA ClockType ==
  ASSUME TypeOK, NEW wrap \in BOOLEAN, NEW berr \in BOOLEAN, NEW ctrl \in BOOLEAN,
         NEW irqAck \in SUBSET Irqs, NEW bufAck \in SUBSET Buffers,
         Clock(wrap, berr, ctrl, irqAck, bufAck)
  PROVE  /\ enable' \in BOOLEAN /\ enablePrev' \in BOOLEAN
         /\ active' \in Buffers /\ full' \in SUBSET Buffers /\ irq' \in SUBSET Irqs
         /\ wraps' \in Nat /\ overwrites' \in Nat /\ lap' \in [Buffers -> Nat]
<1>1. enable' \in BOOLEAN /\ enablePrev' \in BOOLEAN
  BY DEF TypeOK, Clock
<1>2. active' \in Buffers
  BY DEF TypeOK, Clock, ActiveNext, Buffers
<1>3. full' \in SUBSET Buffers
  BY DEF TypeOK, Clock, FullNext
<1>4. irq' \in SUBSET Irqs
  BY DEF TypeOK, Clock, IrqNext, Irqs
<1>5. wraps' \in Nat /\ overwrites' \in Nat /\ lap' \in [Buffers -> Nat]
  <2>1. CASE wrap
    BY <2>1 DEF TypeOK, Clock, Overrun
  <2>2. CASE ~wrap
    BY <2>2 DEF TypeOK, Clock, Overrun
  <2> QED
    BY <2>1, <2>2
<1> QED
  BY <1>1, <1>2, <1>3, <1>4, <1>5

\* The ledger of laps: an edge that releases the buffers in bufAck moves as
\* many laps out of FULL as bufAck holds, and every overrun is paid for.
LEMMA ClockLoss ==
  ASSUME TypeOK, LossInv, NEW wrap \in BOOLEAN, NEW berr \in BOOLEAN,
         NEW ctrl \in BOOLEAN, NEW irqAck \in SUBSET Irqs,
         NEW bufAck \in SUBSET Buffers,
         Clock(wrap, berr, ctrl, irqAck, bufAck),
         bufAck \subseteq full, Rise => full = {}
  PROVE  wraps' + (IF active' \in full' THEN 1 ELSE 0)
           <= servedLaps + FullCount' + Cardinality(bufAck) + discarded + overwrites'
<1>1. /\ active \in Buffers /\ full \in SUBSET Buffers
      /\ wraps \in Nat /\ overwrites \in Nat /\ servedLaps \in Nat /\ discarded \in Nat
  BY DEF TypeOK
<1>2. full' \in SUBSET Buffers
  BY ClockType
<1>3. /\ FullCount = (IF 0 \in full THEN 1 ELSE 0) + (IF 1 \in full THEN 1 ELSE 0)
      /\ FullCount' = (IF 0 \in full' THEN 1 ELSE 0) + (IF 1 \in full' THEN 1 ELSE 0)
      /\ Cardinality(bufAck) = (IF 0 \in bufAck THEN 1 ELSE 0) + (IF 1 \in bufAck THEN 1 ELSE 0)
  BY <1>1, <1>2, FullCountBits DEF FullCount
<1>4. full' = (full \ bufAck) \cup (IF wrap THEN {active} ELSE {})
  BY DEF Clock, FullNext
<1>5. CASE wrap
  <2>1. /\ active' = 1 - active /\ wraps' = wraps + 1
        /\ overwrites' = IF (1 - active) \in full THEN overwrites + 1 ELSE overwrites
    BY <1>5 DEF Clock, ActiveNext, Overrun
  <2>2. full' = (full \ bufAck) \cup {active}
    BY <1>4, <1>5
  <2>3. CASE active = 0
    BY <1>1, <1>3, <2>1, <2>2, <2>3 DEF LossInv
  <2>4. CASE active = 1
    BY <1>1, <1>3, <2>1, <2>2, <2>4 DEF LossInv
  <2> QED
    BY <1>1, <2>3, <2>4 DEF Buffers
<1>6. CASE ~wrap
  <2>1. /\ wraps' = wraps /\ overwrites' = overwrites
        /\ active' = active \/ full' = {}
    BY <1>4, <1>6 DEF Clock, ActiveNext, Overrun
  <2>2. full' = full \ bufAck
    BY <1>4, <1>6
  <2>3. CASE active' = active
    BY <1>1, <1>3, <2>1, <2>2, <2>3 DEF LossInv
  <2>4. CASE full' = {}
    BY <1>1, <1>3, <2>1, <2>2, <2>4 DEF LossInv
  <2> QED
    BY <2>1, <2>3, <2>4
<1> QED
  BY <1>5, <1>6

\* An edge that releases nothing keeps the ledger.
LEMMA QuietLoss ==
  ASSUME TypeOK, LossInv, TypeOK', NEW wrap \in BOOLEAN, NEW berr \in BOOLEAN,
         NEW ctrl \in BOOLEAN, NEW irqAck \in SUBSET Irqs,
         Clock(wrap, berr, ctrl, irqAck, {}),
         Rise => full = {}, UNCHANGED <<servedLaps, discarded>>
  PROVE  LossInv'
<1>1. Cardinality({}) = 0
  BY FS_EmptySet
<1>2. wraps' + (IF active' \in full' THEN 1 ELSE 0)
        <= servedLaps + FullCount' + Cardinality({}) + discarded + overwrites'
  BY ClockLoss
<1>3. FullCount' \in Nat
  BY FullCountBits DEF TypeOK, FullCount
<1>4. servedLaps \in Nat /\ discarded \in Nat /\ overwrites' \in Nat
  BY DEF TypeOK
<1>5. wraps' + (IF active' \in full' THEN 1 ELSE 0)
        <= servedLaps + FullCount' + 0 + discarded + overwrites'
  BY <1>1, <1>2
<1>6. servedLaps + FullCount' + 0 + discarded + overwrites'
        = servedLaps' + FullCount' + discarded' + overwrites'
  BY <1>3, <1>4
<1> QED
  BY <1>5, <1>6 DEF LossInv

\* Unless an arming is under way, an edge keeps the overwrite bit up over a
\* FULL active buffer, and it never takes the bit down.
LEMMA ClockWarned ==
  ASSUME TypeOK, NEW wrap \in BOOLEAN, NEW berr \in BOOLEAN,
         NEW ctrl \in BOOLEAN, NEW bufAck \in SUBSET Buffers,
         Clock(wrap, berr, ctrl, {}, bufAck), WriterMay(wrap),
         active \in full => "overwrite" \in irq, Rise => full = {}
  PROVE  /\ active' \in full' => "overwrite" \in irq'
         /\ ~Rise /\ "overwrite" \in irq => "overwrite" \in irq'
<1>1. CASE Rise
  BY <1>1 DEF Clock, FullNext, WriterMay, Rise
<1>2. CASE ~Rise
  <2>1. "overwrite" \in irq => "overwrite" \in irq'
    BY <1>2 DEF Clock, IrqNext
  <2>2. CASE wrap
    BY <1>2, <2>1, <2>2 DEF Clock, FullNext, ActiveNext, IrqNext, Overrun, TypeOK, Buffers
  <2>3. CASE ~wrap
    BY <1>2, <2>1, <2>3 DEF Clock, FullNext, ActiveNext, TypeOK, Buffers
  <2> QED
    BY <2>1, <2>2, <2>3, <1>2
<1> QED
  BY <1>1, <1>2

\* While the overwrite bit stays down, an edge sets no FULL bit over a lap that
\* is still there.
LEMMA ClockLap ==
  ASSUME TypeOK, NEW wrap \in BOOLEAN, NEW berr \in BOOLEAN,
         NEW ctrl \in BOOLEAN, NEW bufAck \in SUBSET Buffers,
         Clock(wrap, berr, ctrl, {}, bufAck), WriterMay(wrap),
         active \in full => "overwrite" \in irq, ~Rise,
         NEW b \in full, "overwrite" \notin irq'
  PROVE  lap'[b] = lap[b]
<1>1. active \notin full
  BY DEF Clock, IrqNext
<1>2. CASE wrap
  BY <1>1, <1>2 DEF Clock, TypeOK, Buffers
<1>3. CASE ~wrap
  BY <1>3 DEF Clock
<1> QED
  BY <1>2, <1>3

\* In an arming, while the overwrite bit is down, an edge without an
\* acknowledgement keeps the account of the laps.
LEMMA ClockAccount ==
  ASSUME TypeOK, NEW wrap \in BOOLEAN, NEW berr \in BOOLEAN, NEW ctrl \in BOOLEAN,
         Clock(wrap, berr, ctrl, {}, {}), WriterMay(wrap), Rebase,
         Rise => full = {}, "overwrite" \notin irq',
         ~Rise => \/ full = {} /\ lastLap = wraps
                  \/ /\ full = {1 - active}
                     /\ lap[1 - active] = wraps /\ lastLap = wraps - 1
  PROVE  \/ full' = {} /\ lastLap' = wraps'
         \/ /\ full' = {1 - active'}
            /\ lap'[1 - active'] = wraps' /\ lastLap' = wraps' - 1
<1>1. active \in Buffers /\ wraps \in Nat /\ lap \in [Buffers -> Nat]
  BY DEF TypeOK
<1>2. CASE Rise
  BY <1>2 DEF Clock, FullNext, WriterMay, Rise, Rebase
<1>3. CASE ~Rise /\ wrap
  <2>1. (1 - active) \notin full
    BY <1>3 DEF Clock, IrqNext, Overrun
  <2>2. full = {} /\ lastLap = wraps
    BY <1>3, <2>1
  <2>3. /\ full' = {active} /\ active' = 1 - active /\ wraps' = wraps + 1
        /\ lap'[active] = wraps + 1 /\ lastLap' = lastLap
    BY <1>1, <1>3, <2>2 DEF Clock, FullNext, ActiveNext, Rebase
  <2> QED
    BY <1>1, <2>2, <2>3 DEF Buffers
<1>4. CASE ~Rise /\ ~wrap
  BY <1>4 DEF Clock, FullNext, ActiveNext, Rebase
<1> QED
  BY <1>2, <1>3, <1>4

-----------------------------------------------------------------------------

\* Every step of the registers or of the server preserves the invariant.
LEMMA StepInv == IInv /\ [Next]_vars => IInv'
<1> SUFFICES ASSUME IInv, [Next]_vars PROVE IInv'
  OBVIOUS
<1> USE DEF IInv
<1>1. ASSUME NEW wrap \in BOOLEAN, NEW berr \in BOOLEAN, WriterMay(wrap),
             Tick(wrap, berr)
      PROVE  IInv'
  <2>0. Clock(wrap, berr, enable, {}, {}) /\ enable \in BOOLEAN
    BY <1>1 DEF Tick, TypeOK
  <2>1. TypeOK'
    BY <1>1, <2>0, ClockType DEF Tick, Rebase, TypeOK, server
  <2>2. ArmingInv'
    BY <1>1, <2>0 DEF Tick, Clock, FullNext, WriterMay, ArmingInv, Rise, Idle, server
  <2>3. ServingInv'
    BY <1>1, <2>0 DEF Tick, Clock, FullNext, ArmingInv, ServingInv, Rise, Idle, server
  <2>4. WarnedInv'
    <3>1. CASE Rise
      BY <1>1, <2>0, <3>1, ClockWarned DEF Tick, WarnedInv, ArmingInv, Idle, Rise, server
    <3>2. CASE ~Rise /\ pc = "running"
      BY <1>1, <2>0, <3>2, ClockWarned, ClockLap DEF Tick, WarnedInv, ServingInv, server
    <3> QED
      BY <1>1, <3>1, <3>2 DEF Tick, WarnedInv, ArmingInv, Rise, server
  <2>5. LapsAccounted'
    <3>1. Armed' => pc = "running" /\ (Armed \/ Rise)
      BY <1>1, <2>0 DEF Tick, Clock, Armed, ArmingInv, Rise, server
    <3>2. "overwrite" \notin irq' /\ ~Rise => "overwrite" \notin irq
      BY <2>0 DEF Clock, IrqNext
    <3> QED
      BY <1>1, <2>0, <3>1, <3>2, ClockAccount DEF Tick, LapsAccounted, ArmingInv
  <2>6. LossInv'
    BY <1>1, <2>0, <2>1, QuietLoss DEF Tick, ArmingInv
  <2> QED
    BY <2>1, <2>2, <2>3, <2>4, <2>5, <2>6 DEF IInv
<1>2. ASSUME NEW wrap \in BOOLEAN, NEW berr \in BOOLEAN, WriterMay(wrap),
             StopDma(wrap, berr)
      PROVE  IInv'
  <2>0. Clock(wrap, berr, FALSE, {}, {})
    BY <1>2 DEF StopDma
  <2>1. TypeOK'
    <3>1. lastLap' \in {wraps, lastLap}
      BY <1>2 DEF StopDma, Rebase
    <3>2. lastLap' \in Nat
      BY <3>1 DEF TypeOK
    <3>3. /\ enable' \in BOOLEAN /\ enablePrev' \in BOOLEAN
          /\ active' \in Buffers /\ full' \in SUBSET Buffers /\ irq' \in SUBSET Irqs
          /\ wraps' \in Nat /\ overwrites' \in Nat /\ lap' \in [Buffers -> Nat]
      <4>1. {} \in SUBSET Irqs /\ {} \in SUBSET Buffers /\ FALSE \in BOOLEAN /\ TypeOK
        OBVIOUS
      <4> QED
        BY <1>2, <2>0, <4>1, ClockType, Zenon
    <3>4. pc' \in {"down", "stopped", "irqAcked", "bufAcked", "running"}
      BY <1>2 DEF StopDma
    <3>5. UNCHANGED <<seen, reading, readLap, servedLaps, discarded>>
      BY <1>2 DEF StopDma
    <3> QED
      BY <3>2, <3>3, <3>4, <3>5 DEF TypeOK
  <2>2. ArmingInv'
    BY <1>2, <2>0 DEF StopDma, Clock, ArmingInv, Rise
  <2>3. ServingInv'
    BY <1>2, <2>0 DEF StopDma, Idle, ServingInv, None
  <2>4. WarnedInv'
    BY <1>2 DEF StopDma, WarnedInv
  <2>5. LapsAccounted'
    BY <1>2 DEF StopDma, LapsAccounted, Armed
  <2>6. LossInv'
    <3>1. UNCHANGED <<servedLaps, discarded>>
      BY <1>2 DEF StopDma
    <3>2. (Rise => full = {}) /\ FALSE \in BOOLEAN /\ {} \in SUBSET Irqs
      BY DEF ArmingInv
    <3> QED
      BY <2>0, <2>1, <3>1, <3>2, QuietLoss, Zenon
  <2> QED
    BY <2>1, <2>2, <2>3, <2>4, <2>5, <2>6 DEF IInv
<1>3. ASSUME NEW wrap \in BOOLEAN, NEW berr \in BOOLEAN, WriterMay(wrap),
             AckIrqs(wrap, berr)
      PROVE  IInv'
  <2>0. Clock(wrap, berr, enable, Irqs, {})
    BY <1>3 DEF AckIrqs
  <2>1. TypeOK'
    BY <1>3, <2>0, ClockType DEF AckIrqs, TypeOK
  <2>2. ArmingInv'
    BY <1>3, <2>0 DEF AckIrqs, Clock, ArmingInv, Rise, Idle
  <2>3. ServingInv'
    BY <1>3, <2>0 DEF AckIrqs, Idle, ServingInv, None
  <2>4. WarnedInv'
    BY <1>3 DEF AckIrqs, WarnedInv
  <2>5. LapsAccounted'
    BY <1>3 DEF AckIrqs, LapsAccounted, Armed
  <2>6. LossInv'
    <3>1. UNCHANGED <<servedLaps, discarded>>
      BY <1>3 DEF AckIrqs
    <3>2. (Rise => full = {}) /\ enable \in BOOLEAN /\ Irqs \in SUBSET Irqs
      BY DEF ArmingInv, TypeOK
    <3> QED
      BY <2>0, <2>1, <3>1, <3>2, QuietLoss, Zenon
  <2> QED
    BY <2>1, <2>2, <2>3, <2>4, <2>5, <2>6 DEF IInv
<1>4. ASSUME NEW wrap \in BOOLEAN, NEW berr \in BOOLEAN, WriterMay(wrap),
             AckBuffers(wrap, berr)
      PROVE  IInv'
  <2>0. Clock(wrap, berr, enable, {}, Buffers) /\ ~wrap /\ ~Rise
    BY <1>4 DEF AckBuffers, ArmingInv, WriterMay, Rise
  <2>1. TypeOK'
    <3>1. FullCount \in Nat
      BY FullCountBits DEF TypeOK, FullCount
    <3> QED
      BY <1>4, <2>0, <3>1, ClockType DEF AckBuffers, TypeOK
  <2>2. ArmingInv'
    BY <1>4, <2>0 DEF AckBuffers, Clock, FullNext, ArmingInv, Rise, Idle, TypeOK
  <2>3. ServingInv'
    BY <1>4, <2>0 DEF AckBuffers, Idle, ArmingInv, ServingInv, None
  <2>4. WarnedInv'
    BY <1>4 DEF AckBuffers, WarnedInv
  <2>5. LapsAccounted'
    BY <1>4 DEF AckBuffers, LapsAccounted, Armed
  <2>6. LossInv'
    <3>1. /\ full' = {} /\ wraps' = wraps /\ overwrites' = overwrites
          /\ servedLaps' = servedLaps /\ discarded' = discarded + FullCount
      BY <1>4, <2>0 DEF AckBuffers, Clock, FullNext, Overrun, TypeOK
    <3>2. FullCount' = 0
      BY <3>1, FS_EmptySet DEF FullCount
    <3>3. FullCount \in Nat
      BY FullCountBits DEF TypeOK, FullCount
    <3> QED
      BY <3>1, <3>2, <3>3 DEF LossInv, TypeOK
  <2> QED
    BY <2>1, <2>2, <2>3, <2>4, <2>5, <2>6 DEF IInv
<1>5. ASSUME NEW wrap \in BOOLEAN, NEW berr \in BOOLEAN, WriterMay(wrap),
             EnableDma(wrap, berr)
      PROVE  IInv'
  <2>0. Clock(wrap, berr, TRUE, {}, {}) /\ ~wrap /\ ~Rise /\ full = {} /\ Idle
    BY <1>5 DEF EnableDma, ArmingInv, WriterMay, Rise
  <2>1. TypeOK'
    BY <1>5, <2>0, ClockType DEF EnableDma, TypeOK
  <2>2. ArmingInv'
    BY <1>5, <2>0 DEF EnableDma, Clock, FullNext, ArmingInv, Rise, Idle
  <2>3. ServingInv'
    BY <1>5, <2>0 DEF EnableDma, Idle, ServingInv, None
  <2>4. WarnedInv'
    BY <1>5, <2>0 DEF EnableDma, Clock, FullNext, Idle, WarnedInv
  <2>5. LapsAccounted'
    BY <1>5, <2>0 DEF EnableDma, Clock, ArmingInv, LapsAccounted, Armed
  <2>6. LossInv'
    BY <1>5, <2>0, <2>1, QuietLoss DEF EnableDma, ArmingInv
  <2> QED
    BY <2>1, <2>2, <2>3, <2>4, <2>5, <2>6 DEF IInv
<1>6. ASSUME NEW wrap \in BOOLEAN, NEW berr \in BOOLEAN, WriterMay(wrap),
             EndBuffer(wrap, berr)
      PROVE  IInv'
  <2>0. /\ Clock(wrap, berr, enable, {}, {reading}) /\ ~Rise
        /\ reading \in Buffers /\ reading \in full /\ reading \notin seen
        /\ pc \in {"stopped", "running"}
    BY <1>6 DEF EndBuffer, ArmingInv, ServingInv, Idle, TypeOK
  <2>1. TypeOK'
    <3>1. Clock(wrap, berr, enable, {}, {reading}) /\ enable \in BOOLEAN
          /\ {reading} \in SUBSET Buffers
      BY <2>0 DEF TypeOK
    <3> QED
      BY <1>6, <3>1, ClockType DEF EndBuffer, TypeOK
  <2>2. ArmingInv'
    BY <1>6, <2>0 DEF EndBuffer, Clock, ArmingInv, Rise
  <2>3. ServingInv'
    BY <1>6, <2>0 DEF EndBuffer, Clock, FullNext, ServingInv
  <2>4. WarnedInv'
    <3>1. enable \in BOOLEAN /\ {reading} \in SUBSET Buffers
      BY <2>0 DEF TypeOK
    <3> QED
      BY <1>6, <2>0, <3>1, ClockWarned DEF EndBuffer, WarnedInv, ArmingInv
  <2>5. LapsAccounted'
    <3> SUFFICES ASSUME Armed', "overwrite" \notin irq'
                 PROVE  full' = {} /\ lastLap' = wraps'
      BY DEF LapsAccounted
    <3>1. Armed /\ "overwrite" \notin irq
      BY <1>6, <2>0 DEF EndBuffer, Clock, IrqNext, Armed, ArmingInv, Rise
    <3>2. full = {1 - active} /\ lap[1 - active] = wraps
      BY <2>0, <3>1 DEF LapsAccounted
    <3>3. ~wrap
      BY <2>0, <3>2 DEF Clock, IrqNext, Overrun
    <3>4. lap[reading] = readLap /\ reading = 1 - active
      BY <2>0, <3>1, <3>2 DEF WarnedInv, Armed, None, Buffers
    <3> QED
      BY <1>6, <2>0, <3>2, <3>3, <3>4 DEF EndBuffer, Clock, FullNext
  <2>6. LossInv'
    <3>1. Cardinality({reading}) = 1
      BY FS_Singleton
    <3>2. wraps' + (IF active' \in full' THEN 1 ELSE 0)
             <= servedLaps + FullCount' + 1 + discarded + overwrites'
      <4>1. {reading} \in SUBSET Buffers /\ {reading} \subseteq full
            /\ enable \in BOOLEAN /\ {} \in SUBSET Irqs /\ LossInv
        BY <2>0 DEF TypeOK
      <4>2. wraps' + (IF active' \in full' THEN 1 ELSE 0)
               <= servedLaps + FullCount' + Cardinality({reading}) + discarded + overwrites'
        BY <2>0, <4>1, ClockLoss
      <4> QED
        BY <3>1, <4>2
    <3>3. servedLaps' = servedLaps + 1 /\ discarded' = discarded
      BY <1>6 DEF EndBuffer
    <3>4. FullCount' \in Nat
      BY <2>1, FullCountBits DEF TypeOK, FullCount
    <3>5. /\ servedLaps \in Nat /\ discarded \in Nat
          /\ wraps' \in Nat /\ overwrites' \in Nat
      BY <2>1 DEF TypeOK
    <3>6. servedLaps + FullCount' + 1 + discarded + overwrites'
             = servedLaps' + FullCount' + discarded' + overwrites'
      BY <3>3, <3>4, <3>5
    <3> QED
      BY <3>2, <3>6 DEF LossInv
  <2> QED
    BY <2>1, <2>2, <2>3, <2>4, <2>5, <2>6 DEF IInv
<1>7. ASSUME PollStatus
      PROVE  IInv'
  <2>1. TypeOK' /\ ArmingInv'
    BY <1>7 DEF PollStatus, regs, history, TypeOK, ArmingInv, ServingInv, Rise, Idle, None, Buffers
  <2>2. ServingInv'
    BY <1>7 DEF PollStatus, regs, ServingInv, Idle, None, Buffers
  <2>3. WarnedInv'
    BY <1>7 DEF PollStatus, regs, history, WarnedInv, Idle
  <2>4. LapsAccounted' /\ LossInv'
    BY <1>7 DEF PollStatus, regs, history, LapsAccounted, LossInv, Armed, FullCount
  <2> QED
    BY <2>1, <2>2, <2>3, <2>4 DEF IInv
<1>8. ASSUME NEW b \in Buffers, BeginBuffer(b)
      PROVE  IInv'
  <2>1. TypeOK' /\ ArmingInv'
    BY <1>8 DEF BeginBuffer, regs, history, TypeOK, ArmingInv, ServingInv, Rise, Idle, None, Buffers
  <2>2. ServingInv'
    BY <1>8 DEF BeginBuffer, regs, ServingInv, Idle, None, Buffers
  <2>3. WarnedInv'
    BY <1>8 DEF BeginBuffer, regs, history, WarnedInv, Idle
  <2>4. LapsAccounted' /\ LossInv'
    BY <1>8 DEF BeginBuffer, regs, history, LapsAccounted, LossInv, Armed, FullCount
  <2> QED
    BY <2>1, <2>2, <2>3, <2>4 DEF IInv
<1>9. ASSUME FailBuffer
      PROVE  IInv'
  <2>1. TypeOK' /\ ArmingInv'
    BY <1>9 DEF FailBuffer, regs, history, TypeOK, ArmingInv, ServingInv, Rise, Idle, None, Buffers
  <2>2. ServingInv'
    BY <1>9 DEF FailBuffer, regs, ServingInv, Idle, None, Buffers
  <2>3. WarnedInv'
    BY <1>9 DEF FailBuffer, regs, history, WarnedInv, Idle
  <2>4. LapsAccounted' /\ LossInv'
    BY <1>9 DEF FailBuffer, regs, history, LapsAccounted, LossInv, Armed, FullCount
  <2> QED
    BY <2>1, <2>2, <2>3, <2>4 DEF IInv
<1>10. ASSUME Die
      PROVE  IInv'
  <2>1. TypeOK' /\ ArmingInv'
    BY <1>10 DEF Die, regs, history, TypeOK, ArmingInv, Rise, Idle, None, Buffers
  <2>2. ServingInv' /\ WarnedInv'
    BY <1>10 DEF Die, ServingInv, WarnedInv
  <2>3. LapsAccounted' /\ LossInv'
    BY <1>10 DEF Die, regs, history, LapsAccounted, LossInv, Armed, FullCount
  <2> QED
    BY <2>1, <2>2, <2>3 DEF IInv
<1>11. CASE UNCHANGED vars
  BY <1>11 DEF vars, regs, server, history, TypeOK, ArmingInv, ServingInv, WarnedInv,
     LapsAccounted, LossInv, Armed, Rise, Idle, FullCount
<1> QED
  BY <1>1, <1>2, <1>3, <1>4, <1>5, <1>6, <1>7, <1>8, <1>9, <1>10, <1>11
     DEF Next, Writes, ServerStep

THEOREM Invariance == Spec => []IInv
<1>1. Init => IInv
  BY InitInv
<1>2. IInv /\ [Next]_vars => IInv'
  BY StepInv
<1> QED
  BY <1>1, <1>2, PTL DEF Spec

\* Every variable holds a value of its kind.
THEOREM TypeCorrect == Spec => []TypeOK
  BY Invariance, PTL DEF IInv

\* Hardware never fills a buffer software owns unannounced.
THEOREM OverwriteIsVisible == Spec => []OverwriteVisible
<1>1. IInv => OverwriteVisible
  BY DEF IInv, WarnedInv, OverwriteVisible, Armed
<1> QED
  BY <1>1, Invariance, PTL

\* A buffer being read is not written, and the acknowledgement releases the
\* lap that was read, while the overwrite bit is down.
THEOREM ReaderIsWarned == Spec => []ReaderWarned
<1>1. IInv => ReaderWarned
  BY DEF IInv, WarnedInv, ServingInv, ReaderWarned
<1> QED
  BY <1>1, Invariance, PTL

\* No completed lap is skipped or served out of order while the bit is down.
THEOREM LapsAreAccounted == Spec => []LapsAccounted
  BY Invariance, PTL DEF IInv

\* The overwrite counter covers every lap that is lost.
THEOREM LossIsCounted == Spec => []LossCounted
<1>1. IInv => LossCounted
  <2> SUFFICES ASSUME IInv PROVE LossCounted
    OBVIOUS
  <2>1. FullCount \in Nat
    BY FullCountBits DEF IInv, TypeOK, FullCount
  <2> QED
    BY <2>1 DEF IInv, LossInv, LossCounted, TypeOK
<1> QED
  BY <1>1, Invariance, PTL

\* A FULL bit is only ever dropped by the server.
THEOREM OnlyServerReleases == Spec => ReleasedByServer
<1> DEFINE Released == \A b \in full \ full' : reading = b \/ pc = "irqAcked"
<1>1. IInv /\ [Next]_vars => [Released]_vars
  <2> SUFFICES ASSUME IInv, Next PROVE Released
    BY DEF vars
  <2>1. ASSUME NEW wrap \in BOOLEAN, NEW berr \in BOOLEAN, WriterMay(wrap),
               Tick(wrap, berr) \/ Writes(wrap, berr)
        PROVE  Released
    <3>1. Rise => full = {}
      BY DEF IInv, ArmingInv
    <3>2. CASE EndBuffer(wrap, berr)
      BY <3>1, <3>2 DEF EndBuffer, Clock, FullNext
    <3>3. CASE AckBuffers(wrap, berr)
      BY <3>3 DEF AckBuffers
    <3>4. CASE Tick(wrap, berr) \/ StopDma(wrap, berr) \/ AckIrqs(wrap, berr)
                 \/ EnableDma(wrap, berr)
      <4>1. full' = FullNext(wrap, {})
        BY <3>4 DEF Tick, StopDma, AckIrqs, EnableDma, Clock
      <4> QED
        BY <3>1, <4>1 DEF FullNext
    <3> QED
      BY <2>1, <3>2, <3>3, <3>4 DEF Writes
  <2>2. CASE ServerStep
    BY <2>2 DEF ServerStep, PollStatus, BeginBuffer, FailBuffer, Die, regs
  <2> QED
    BY <2>1, <2>2 DEF Next
<1> QED
  BY <1>1, Invariance, PTL DEF Spec, ReleasedByServer
===============================================================================
