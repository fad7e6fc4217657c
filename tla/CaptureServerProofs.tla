-------------------------- MODULE CaptureServerProofs --------------------------
(***************************************************************************)
(* The server with all its modes and error paths implements PingPong, for  *)
(* every number of wraps, so all that PingPongProofs proves of the         *)
(* handshake holds of it; and with that, what the local log is for: it     *)
(* misses and repeats no lap that the hardware or an arming did not        *)
(* overwrite or throw away, nobody's log runs for ever, and a DMA nobody   *)
(* wants is stopped.                                                       *)
(***************************************************************************)
EXTENDS CaptureServer, SequenceTheorems, FiniteSetTheorems, TLAPS

\* What is proved of the handshake.
HS == INSTANCE PingPongProofs WITH pc <- ServerPc

Arming == {"armIrqs", "armBuffers", "armEnable"}
Pass == {"serve", "serveLog", "logged", "loggedOnly"}

\* Where the server is in its loop, against the buffers it holds, the process
\* it is and the client it has.
LoopInv ==
  /\ at \in Places
  /\ enable \in BOOLEAN /\ fresh \in BOOLEAN /\ client \in BOOLEAN
  /\ log \in BOOLEAN /\ duration \in BOOLEAN /\ timed \in BOOLEAN
  /\ deadline \in {"none", "running", "expired"}
  /\ seen \in SUBSET Regs!Buffers /\ reading \in Regs!Buffers \cup {None}
  /\ active \in Regs!Buffers /\ full \in SUBSET Regs!Buffers
  /\ seen # {} \/ reading # None => at \in Pass
  /\ at \in {"logged", "loggedOnly"} => reading # None
  /\ at \in Arming => ~enable
  /\ fresh => at \in {"select", "greet", "armStop", "closeAccepted", "leave", "exit"}
  /\ fresh => ~log
  /\ at \in Arming \cup {"greet", "armStop", "closeAccepted", "socket", "poll",
                     "deadline", "serve", "logged", "close", "closeExit"} => client
  /\ fresh /\ client => at # "select"

\* A log without a client has a deadline, and a DMA without a client a log.
IdleInv ==
  /\ log /\ ~client => deadline # "none"
  /\ enable /\ ~fresh /\ ~client => log \/ at \in {"leave", "exit"}

\* The laps behind the FULL bits, the buffer being read and the rows.
RowsInv ==
  /\ rows \in Seq(1..wraps)
  /\ \A b \in full : lap[b] \in 1..wraps
  /\ reading # None => readLap \in 1..wraps
  /\ at \in {"logged", "loggedOnly"} /\ log =>
       rows # <<>> /\ rows[Len(rows)] = readLap

\* Until the first overwrite no buffer but the last one filled is FULL, and the
\* laps the log has not got yet are that one and those that arming threw away.
OrderInv ==
  overwrites = 0 =>
    /\ active \notin full
    /\ \A b \in full : lap[b] = wraps
    /\ reading # None => readLap = wraps
    /\ log /\ rows # <<>> =>
         wraps <= rows[Len(rows)] + discarded + (IF full = {} THEN 0 ELSE 1)
    /\ \A i \in 1 .. Len(rows) - 1 : rows[i + 1] - rows[i] \in 0 .. 1 + discarded

IInv ==
  /\ LoopInv
  /\ IdleInv
  /\ HS!IInv
  /\ RowsInv
  /\ OrderInv

-----------------------------------------------------------------------------
(* PingPongProofs and CaptureServer name the same PingPong. *)

LEMMA SameClock ==
  ASSUME NEW wrap, NEW berr, NEW ctrl, NEW irqAck, NEW bufAck
  PROVE  /\ Regs!WriterMay(wrap) <=> HS!WriterMay(wrap)
         /\ Regs!Clock(wrap, berr, ctrl, irqAck, bufAck)
              <=> HS!Clock(wrap, berr, ctrl, irqAck, bufAck)
BY DEF Regs!WriterMay, HS!WriterMay, Regs!Clock, HS!Clock, Regs!FullNext, HS!FullNext,
     Regs!IrqNext, HS!IrqNext, Regs!ActiveNext, HS!ActiveNext,
     Regs!Overrun, HS!Overrun, Regs!Rise, HS!Rise

LEMMA SameWrites ==
  ASSUME NEW wrap, NEW berr
  PROVE  /\ Regs!Tick(wrap, berr) <=> HS!Tick(wrap, berr)
         /\ Regs!Writes(wrap, berr) <=> HS!Writes(wrap, berr)
<1> USE DEF Regs!Rebase, HS!Rebase, Regs!Rise, HS!Rise, Regs!Idle, HS!Idle,
            Regs!None, HS!None
<1>1. Regs!Tick(wrap, berr) <=> HS!Tick(wrap, berr)
  BY SameClock DEF Regs!Tick, HS!Tick, Regs!server, HS!server
<1>2. Regs!StopDma(wrap, berr) <=> HS!StopDma(wrap, berr)
  BY SameClock DEF Regs!StopDma, HS!StopDma
<1>3. Regs!AckIrqs(wrap, berr) <=> HS!AckIrqs(wrap, berr)
  BY SameClock DEF Regs!AckIrqs, HS!AckIrqs, Regs!Irqs, HS!Irqs
<1>4. Regs!AckBuffers(wrap, berr) <=> HS!AckBuffers(wrap, berr)
  <2>1. Regs!Buffers = HS!Buffers /\ Regs!FullCount = HS!FullCount
    BY DEF Regs!Buffers, HS!Buffers, Regs!FullCount, HS!FullCount, Regs!Cardinality, HS!Cardinality
  <2>2. Regs!Clock(wrap, berr, enable, {}, Regs!Buffers)
          <=> HS!Clock(wrap, berr, enable, {}, HS!Buffers)
    BY <2>1, SameClock
  <2> QED
    BY <2>1, <2>2 DEF Regs!AckBuffers, HS!AckBuffers
<1>5. Regs!EnableDma(wrap, berr) <=> HS!EnableDma(wrap, berr)
  BY SameClock DEF Regs!EnableDma, HS!EnableDma
<1>6. Regs!EndBuffer(wrap, berr) <=> HS!EndBuffer(wrap, berr)
  BY SameClock DEF Regs!EndBuffer, HS!EndBuffer
<1> QED
  BY <1>1, <1>2, <1>3, <1>4, <1>5, <1>6 DEF Regs!Writes, HS!Writes

LEMMA SameSpec == Regs!Spec => HS!Spec
<1> USE DEF Regs!regs, HS!regs, Regs!server, HS!server, Regs!history, HS!history
<1>1. Regs!Init => HS!Init
  BY DEF Regs!Init, HS!Init, Regs!None, HS!None, Regs!Buffers, HS!Buffers
<1>2. Regs!ServerStep <=> HS!ServerStep
  BY DEF Regs!ServerStep, HS!ServerStep, Regs!PollStatus, HS!PollStatus,
       Regs!BeginBuffer, HS!BeginBuffer, Regs!FailBuffer, HS!FailBuffer, Regs!Die, HS!Die,
       Regs!Idle, HS!Idle, Regs!None, HS!None, Regs!Buffers, HS!Buffers
<1>3. Regs!Next <=> HS!Next
  BY <1>2, SameClock, SameWrites DEF Regs!Next, HS!Next
<1>4. [Regs!Next]_(Regs!vars) => [HS!Next]_(HS!vars)
  BY <1>3 DEF Regs!vars, HS!vars
<1> QED
  BY <1>1, <1>4, PTL DEF Regs!Spec, HS!Spec

-----------------------------------------------------------------------------
(* The server's place in its loop. *)

LEMMA InitLoop == Init => LoopInv /\ IdleInv
<1> SUFFICES ASSUME Init PROVE LoopInv /\ IdleInv
  OBVIOUS
<1>1. /\ enable = FALSE /\ fresh = TRUE /\ client = FALSE /\ log = FALSE
      /\ duration = FALSE /\ timed = FALSE
  BY DEF Init
<1>2. /\ enable \in BOOLEAN /\ fresh \in BOOLEAN /\ client \in BOOLEAN
      /\ log \in BOOLEAN /\ duration \in BOOLEAN /\ timed \in BOOLEAN
  BY <1>1
<1> QED
  BY <1>1, <1>2 DEF Init, LoopInv, IdleInv, Places, Pass, Arming, None, Regs!Buffers

\* A register write sets the enable bit and keeps the types.
LEMMA WriteTypes ==
  ASSUME LoopInv, NEW ctrl, NEW irqAck, NEW bufAck, Write(ctrl, irqAck, bufAck)
  PROVE  /\ enable' = ctrl
         /\ active' \in Regs!Buffers /\ full' \in SUBSET Regs!Buffers
<1>1. PICK wrap \in BOOLEAN : Regs!Clock(wrap, FALSE, ctrl, irqAck, bufAck)
  BY DEF Write
<1>2. /\ active \in {0, 1} /\ full \in SUBSET {0, 1}
      /\ enable' = ctrl /\ active' = Regs!ActiveNext(wrap)
      /\ full' = Regs!FullNext(wrap, bufAck)
  BY <1>1 DEF Regs!Clock, Regs!Buffers, LoopInv
<1>3. active' \in {0, 1}
  BY <1>2 DEF Regs!ActiveNext
<1>4. full' \in SUBSET {0, 1}
  BY <1>2 DEF Regs!FullNext
<1> QED
  BY <1>2, <1>3, <1>4 DEF Regs!Buffers

LEMMA LoopStep ==
  ASSUME LoopInv, [Next]_vars
  PROVE  LoopInv'
<1> USE DEF LoopInv, Places, Pass, Arming, registers, buffers, logging
<1>1. CASE Tick
  BY <1>1, WriteTypes DEF Tick
<1>2. ASSUME DmaStop
      PROVE  /\ enable' = FALSE /\ fresh' = FALSE /\ UNCHANGED <<seen, reading>>
             /\ enable' \in BOOLEAN /\ fresh' \in BOOLEAN
             /\ active' \in Regs!Buffers /\ full' \in SUBSET Regs!Buffers
  <2>1. /\ enable' = FALSE /\ fresh' = FALSE /\ UNCHANGED <<seen, reading>>
        /\ active' \in Regs!Buffers /\ full' \in SUBSET Regs!Buffers
    BY <1>2, WriteTypes DEF DmaStop
  <2> QED
    BY <2>1
<1>3. ASSUME StopLog
      PROVE  /\ log' = FALSE /\ deadline' = "none" /\ UNCHANGED timed
             /\ log' \in BOOLEAN /\ duration' \in BOOLEAN
  BY <1>3 DEF StopLog
<1>4. CASE ArmStop
  BY <1>2, <1>4 DEF ArmStop
<1>5. CASE UnattendedExpires \/ LogError \/ DeadlineExpires
  BY <1>2, <1>3, <1>5 DEF UnattendedExpires, LogError, DeadlineExpires
<1>6. CASE CloseClient
  <2>1. client' \in BOOLEAN
    BY <1>6 DEF CloseClient
  <2> QED
    BY <1>2, <1>3, <1>6, <2>1 DEF CloseClient, Closing, AfterClose
<1>7. CASE ArmIrqs \/ ArmBuffers
  BY <1>7, WriteTypes DEF ArmIrqs, ArmBuffers
<1>8. CASE ArmEnable
  <2>1. enable' = TRUE
    BY <1>8, WriteTypes DEF ArmEnable
  <2>2. enable' \in BOOLEAN
    BY <2>1
  <2> QED
    BY <1>8, <2>2, WriteTypes DEF ArmEnable
<1>9. CASE AckBuffer
  BY <1>9, WriteTypes DEF AckBuffer, None
<1>10. CASE Expire \/ SelectTimesOut \/ SelectClient \/ SocketDone \/ Greet
  BY <1>10 DEF Expire, SelectTimesOut, SelectClient, SocketDone, Greet
<1>11. CASE Accept
  BY <1>11 DEF Accept
<1>12. CASE SetLocalLogDuration
  BY <1>12 DEF Command, SetLocalLogDuration
<1>23. CASE StopLocalLog
  BY <1>3, <1>23 DEF Command, StopLocalLog
<1>13. CASE StartLocalLog \/ StartLocalLogFails
  <2>1. duration' \in BOOLEAN /\ log' \in BOOLEAN /\ timed' \in BOOLEAN
    BY <1>13 DEF StartLocalLog, StartLocalLogFails
  <2> QED
    BY <1>13, <2>1 DEF Command, StartLocalLog, StartLocalLogFails
<1>14. CASE UnattendedPoll \/ Poll \/ DeadlinePasses
  BY <1>14 DEF UnattendedPoll, Poll, DeadlinePasses
<1>15. CASE LogBuffer
  BY <1>15 DEF LogBuffer, Serving
<1>21. CASE BeginBuffer
  <2>1. PICK b \in seen : reading' = b /\ seen' = seen \ {b}
    BY <1>21 DEF BeginBuffer
  <2> QED
    BY <1>21, <2>1 DEF BeginBuffer, Serving
<1>16. CASE FailBuffer
  BY <1>16 DEF FailBuffer
<1>17. CASE LeaveLogRunning
  <2>1. client' \in BOOLEAN
    BY <1>17 DEF LeaveLogRunning
  <2> QED
    BY <1>17, <2>1 DEF LeaveLogRunning, Closing, AfterClose, ShouldContinue
<1>18. CASE Quit
  BY <1>18 DEF Quit
<1>22. CASE Exit \/ Kill
  <2>1. log' \in BOOLEAN
    BY <1>22 DEF Exit, Kill, Gone
  <2> QED
    BY <1>22, <2>1 DEF Exit, Kill, Gone
<1>19. CASE Restart
  BY <1>19 DEF Restart
<1>20. CASE UNCHANGED vars
  BY <1>20 DEF vars
<1> QED
  BY <1>1, <1>4, <1>5, <1>6, <1>7, <1>8, <1>9, <1>10, <1>11, <1>12, <1>13, <1>14,
     <1>15, <1>16, <1>17, <1>18, <1>19, <1>20, <1>21, <1>22, <1>23 DEF Next, Loop, Commands

LEMMA IdleStep ==
  ASSUME LoopInv, IdleInv, [Next]_vars
  PROVE  IdleInv'
<1> USE DEF IdleInv, registers, buffers, logging
<1>1. ASSUME NEW ctrl, NEW irqAck, NEW bufAck, Write(ctrl, irqAck, bufAck)
      PROVE  enable' = ctrl
  BY <1>1, WriteTypes
<1>2. CASE Tick
  BY <1>1, <1>2 DEF Tick
<1>3. CASE ArmStop \/ UnattendedExpires \/ LogError \/ DeadlineExpires \/ CloseClient
  BY <1>1, <1>3 DEF ArmStop, UnattendedExpires, LogError, DeadlineExpires, CloseClient,
       DmaStop, StopLog, LoopInv, Arming
<1>4. CASE ArmIrqs \/ ArmBuffers \/ ArmEnable
  BY <1>1, <1>4 DEF ArmIrqs, ArmBuffers, ArmEnable, LoopInv, Arming
<1>5. CASE AckBuffer
  BY <1>1, <1>5 DEF AckBuffer
<1>6. CASE Expire \/ Accept \/ Commands
  BY <1>6 DEF Expire, Accept, Commands, Command, SetLocalLogDuration, StartLocalLog,
       StartLocalLogFails, StopLocalLog, StopLog, LoopInv
<1>7. CASE SelectTimesOut \/ SelectClient \/ SocketDone \/ Greet \/ UnattendedPoll
             \/ Poll \/ DeadlinePasses \/ BeginBuffer \/ LogBuffer \/ FailBuffer
  BY <1>7 DEF SelectTimesOut, SelectClient, SocketDone, Greet, UnattendedPoll, Poll,
       DeadlinePasses, BeginBuffer, LogBuffer, FailBuffer, Serving
<1>8. CASE LeaveLogRunning
  BY <1>8 DEF LeaveLogRunning, ShouldContinue
<1>9. CASE Quit \/ Exit \/ Kill \/ Restart
  BY <1>9 DEF Quit, Exit, Kill, Gone, Restart
<1>10. CASE UNCHANGED vars
  BY <1>10 DEF vars
<1> QED
  BY <1>2, <1>3, <1>4, <1>5, <1>6, <1>7, <1>8, <1>9, <1>10 DEF Next, Loop

-----------------------------------------------------------------------------
(* Every step of the server is one that PingPong lets a server make. *)

\* The server's place as PingPong sees it, before a step and after it.
LEMMA PlaceIs ==
  /\ at = "exit" \/ fresh => ServerPc = "down"
  /\ ~fresh /\ at = "armBuffers" => ServerPc = "irqAcked"
  /\ ~fresh /\ at = "armEnable" => ServerPc = "bufAcked"
  /\ ~fresh /\ at \notin {"exit", "armBuffers", "armEnable"} =>
       ServerPc = IF enable THEN "running" ELSE "stopped"
BY DEF ServerPc

LEMMA PlaceWillBe ==
  /\ at' = "exit" \/ fresh' => ServerPc' = "down"
  /\ ~fresh' /\ at' = "armBuffers" => ServerPc' = "irqAcked"
  /\ ~fresh' /\ at' = "armEnable" => ServerPc' = "bufAcked"
  /\ ~fresh' /\ at' \notin {"exit", "armBuffers", "armEnable"} =>
       ServerPc' = IF enable' THEN "running" ELSE "stopped"
BY DEF ServerPc

\* A step in which the server writes a register.
LEMMA WriteRefines ==
  ASSUME NEW wrap \in BOOLEAN, Regs!WriterMay(wrap),
         Regs!Tick(wrap, FALSE) \/ Regs!Writes(wrap, FALSE)
  PROVE  Regs!Next
BY DEF Regs!Next

\* dma_stop, from wherever in the loop.
LEMMA StopRefines ==
  ASSUME LoopInv, DmaStop, at \notin Pass \cup Arming \cup {"exit"},
         at' \notin {"exit", "armBuffers", "armEnable"}
  PROVE  Regs!Next
<1>1. PICK wrap \in BOOLEAN :
        Regs!WriterMay(wrap) /\ Regs!Clock(wrap, FALSE, FALSE, {}, {})
  BY DEF DmaStop, Write
<1>2. enable' = FALSE /\ fresh' = FALSE
  BY WriteTypes DEF DmaStop
<1>3. ServerPc \in {"down", "stopped", "running"} /\ ServerPc' = "stopped"
  BY <1>2, PlaceIs, PlaceWillBe DEF LoopInv, Arming
<1>4. Regs!Idle
  BY DEF LoopInv, Regs!Idle, Regs!None, None
<1>5. Regs!StopDma(wrap, FALSE)
  BY <1>1, <1>3, <1>4 DEF Regs!StopDma, Regs!Rebase, DmaStop
<1> QED
  BY <1>1, <1>5, WriteRefines DEF Regs!Writes

\* A step that leaves the registers, the buffers and the place alone.
LEMMA QuietRefines ==
  ASSUME UNCHANGED <<registers, buffers>>, ServerPc' = ServerPc
  PROVE  UNCHANGED Regs!vars
BY DEF registers, buffers, Regs!vars, Regs!regs, Regs!server, Regs!history

LEMMA NextRefines ==
  ASSUME LoopInv, LoopInv', [Next]_vars
  PROVE  [Regs!Next]_(Regs!vars)
<1> USE DEF registers, buffers
<1>1. CASE Tick
  <2>1. PICK wrap \in BOOLEAN :
          Regs!WriterMay(wrap) /\ Regs!Clock(wrap, FALSE, enable, {}, {})
    BY <1>1 DEF Tick, Write
  <2>2. enable' = enable /\ UNCHANGED <<at, fresh>>
    BY <1>1, WriteTypes DEF Tick
  <2>3. ServerPc' = ServerPc
    BY <2>2, Zenon DEF ServerPc
  <2>4. Regs!Tick(wrap, FALSE)
    BY <1>1, <2>1, <2>3 DEF Tick, Regs!Tick, Regs!Rebase, Regs!server
  <2> QED
    BY <2>1, <2>4, WriteRefines
<1>2. CASE ArmStop \/ UnattendedExpires \/ LogError \/ DeadlineExpires
  BY <1>2, StopRefines DEF ArmStop, UnattendedExpires, LogError, DeadlineExpires,
       Pass, Arming
<1>3. CASE CloseClient
  BY <1>3, StopRefines DEF CloseClient, Closing, AfterClose, Pass, Arming
<1>4. CASE ArmIrqs
  <2>1. PICK wrap \in BOOLEAN :
          Regs!WriterMay(wrap) /\ Regs!Clock(wrap, FALSE, enable, Regs!Irqs, {})
    BY <1>4 DEF ArmIrqs, Write
  <2>2. ServerPc = "stopped" /\ ServerPc' = "irqAcked"
    BY <1>4, PlaceIs, PlaceWillBe DEF ArmIrqs, LoopInv, Arming
  <2>3. Regs!Idle
    BY <1>4 DEF ArmIrqs, LoopInv, Pass, Regs!Idle, Regs!None, None
  <2>4. Regs!AckIrqs(wrap, FALSE)
    BY <1>4, <2>1, <2>2, <2>3 DEF ArmIrqs, Regs!AckIrqs
  <2> QED
    BY <2>1, <2>4, WriteRefines DEF Regs!Writes
<1>5. CASE ArmBuffers
  <2>1. PICK wrap \in BOOLEAN :
          Regs!WriterMay(wrap) /\ Regs!Clock(wrap, FALSE, enable, {}, Regs!Buffers)
    BY <1>5 DEF ArmBuffers, Write
  <2>2. ServerPc = "irqAcked" /\ ServerPc' = "bufAcked"
    BY <1>5, PlaceIs, PlaceWillBe DEF ArmBuffers, LoopInv, Arming
  <2>3. Regs!AckBuffers(wrap, FALSE)
    BY <1>5, <2>1, <2>2 DEF ArmBuffers, Regs!AckBuffers
  <2> QED
    BY <2>1, <2>3, WriteRefines DEF Regs!Writes
<1>6. CASE ArmEnable
  <2>1. PICK wrap \in BOOLEAN :
          Regs!WriterMay(wrap) /\ Regs!Clock(wrap, FALSE, TRUE, {}, {})
    BY <1>6 DEF ArmEnable, Write
  <2>2. enable' = TRUE
    BY <1>6, WriteTypes DEF ArmEnable
  <2>3. ServerPc = "bufAcked" /\ ServerPc' = "running"
    BY <1>6, <2>2, PlaceIs, PlaceWillBe DEF ArmEnable, LoopInv, Arming
  <2>4. Regs!EnableDma(wrap, FALSE)
    BY <1>6, <2>1, <2>3 DEF ArmEnable, Regs!EnableDma
  <2> QED
    BY <2>1, <2>4, WriteRefines DEF Regs!Writes
<1>7. CASE AckBuffer
  <2>1. PICK wrap \in BOOLEAN :
          Regs!WriterMay(wrap) /\ Regs!Clock(wrap, FALSE, enable, {}, {reading})
    BY <1>7 DEF AckBuffer, Write
  <2>2. enable' = enable /\ UNCHANGED fresh
    BY <1>7, WriteTypes DEF AckBuffer
  <2>3. /\ at \notin {"exit", "armBuffers", "armEnable"}
        /\ at' \notin {"exit", "armBuffers", "armEnable"}
    BY <1>7 DEF AckBuffer
  <2>4. ServerPc' = ServerPc
    BY <2>2, <2>3, PlaceIs, PlaceWillBe DEF LoopInv
  <2>5. Regs!EndBuffer(wrap, FALSE)
    BY <1>7, <2>1, <2>4 DEF AckBuffer, Regs!EndBuffer, Regs!None, None, LoopInv
  <2> QED
    BY <2>1, <2>5, WriteRefines DEF Regs!Writes
<1>8. ASSUME UNCHANGED <<enable, fresh>>,
             at \notin {"exit", "armBuffers", "armEnable"},
             at' \notin {"exit", "armBuffers", "armEnable"}
      PROVE  ServerPc' = ServerPc
  BY <1>8, PlaceIs, PlaceWillBe DEF LoopInv
<1>9. CASE UnattendedPoll \/ Poll
  <2>1. UNCHANGED <<registers, readLap, lastLap, servedLaps, discarded, reading, fresh>>
    BY <1>9 DEF UnattendedPoll, Poll
  <2>2. ServerPc' = ServerPc
    BY <1>8, <1>9, <2>1 DEF UnattendedPoll, Poll
  <2>3. CASE seen' = seen
    BY <2>1, <2>2, <2>3, QuietRefines
  <2>4. CASE seen' # seen
    <3>1. full # {} /\ seen' = full /\ ~fresh
      BY <1>9, <2>4 DEF UnattendedPoll, Poll, LoopInv
    <3>2. ServerPc \in {"stopped", "running"}
      BY <1>9, <3>1, PlaceIs DEF UnattendedPoll, Poll
    <3>3. Regs!Idle
      BY <1>9 DEF UnattendedPoll, Poll, LoopInv, Pass, Regs!Idle, Regs!None, None
    <3>4. Regs!PollStatus
      BY <2>1, <2>2, <3>1, <3>2, <3>3 DEF Regs!PollStatus, Regs!regs, Regs!history
    <3> QED
      BY <3>4 DEF Regs!Next, Regs!ServerStep
  <2> QED
    BY <2>3, <2>4
<1>10. CASE BeginBuffer
  <2>1. PICK b \in Regs!Buffers :
          /\ b \in seen /\ (b = 1 => 0 \notin seen)
          /\ reading' = b /\ seen' = seen \ {b} /\ readLap' = lap[b]
    BY <1>10 DEF BeginBuffer, LoopInv
  <2>2. UNCHANGED <<registers, lastLap, servedLaps, discarded, at, fresh>>
    BY <1>10 DEF BeginBuffer
  <2>3. ServerPc' = ServerPc
    BY <1>8, <1>10, <2>2 DEF BeginBuffer, Serving
  <2>4. Regs!BeginBuffer(b)
    BY <1>10, <2>1, <2>2, <2>3 DEF BeginBuffer, Regs!BeginBuffer, Regs!regs, Regs!None, None
  <2> QED
    BY <2>1, <2>4 DEF Regs!Next, Regs!ServerStep
<1>11. CASE FailBuffer
  <2>1. ServerPc' = ServerPc
    BY <1>8, <1>11 DEF FailBuffer
  <2>2. Regs!FailBuffer
    BY <1>11, <2>1 DEF FailBuffer, Regs!FailBuffer, Regs!regs, Regs!history, Regs!None, None
  <2> QED
    BY <2>2 DEF Regs!Next, Regs!ServerStep
<1>12. CASE Exit \/ Kill
  <2>1. /\ UNCHANGED <<registers, readLap, lastLap, servedLaps, discarded, fresh>>
        /\ seen' = {} /\ reading' = None /\ at' = "exit" /\ at # "exit"
    BY <1>12 DEF Exit, Kill, Gone
  <2>2. ServerPc' = "down"
    BY <2>1, PlaceWillBe
  <2>3. CASE fresh
    <3>1. ServerPc = "down" /\ seen = {} /\ reading = None
      BY <2>3, PlaceIs DEF LoopInv, Pass
    <3> QED
      BY <2>1, <2>2, <3>1, QuietRefines
  <2>4. CASE ~fresh
    <3>1. ServerPc # "down"
      BY <2>1, <2>4, PlaceIs
    <3>2. Regs!Die
      BY <2>1, <2>2, <3>1 DEF Regs!Die, Regs!regs, Regs!history, Regs!None, None
    <3> QED
      BY <3>2 DEF Regs!Next, Regs!ServerStep
  <2> QED
    BY <2>3, <2>4
<1>13. CASE Restart
  <2>1. ServerPc = "down" /\ ServerPc' = "down"
    BY <1>13, PlaceIs, PlaceWillBe DEF Restart
  <2> QED
    BY <1>13, <2>1, QuietRefines DEF Restart
<1>14. CASE Expire \/ UNCHANGED vars
  <2>1. UNCHANGED <<registers, buffers, at, fresh>>
    BY <1>14 DEF Expire, vars
  <2>2. ServerPc' = ServerPc
    BY <2>1, Zenon DEF ServerPc, registers
  <2> QED
    BY <2>1, <2>2, QuietRefines
<1>15. CASE Accept \/ Commands \/ SelectTimesOut \/ SelectClient \/ SocketDone \/ Greet
              \/ DeadlinePasses \/ LogBuffer \/ LeaveLogRunning \/ Quit
  <2>1. /\ UNCHANGED <<registers, buffers, fresh>>
        /\ at \notin {"exit", "armBuffers", "armEnable"}
        /\ at' \notin {"exit", "armBuffers", "armEnable"}
    BY <1>15 DEF Accept, Commands, Command, SetLocalLogDuration, StartLocalLog,
         StartLocalLogFails, StopLocalLog, SelectTimesOut, SelectClient, SocketDone,
         Greet, DeadlinePasses, LogBuffer, Serving, LeaveLogRunning, Closing,
         AfterClose, Quit
  <2> QED
    BY <1>8, <2>1, QuietRefines
<1> QED
  BY <1>1, <1>2, <1>3, <1>4, <1>5, <1>6, <1>7, <1>9, <1>10, <1>11, <1>12, <1>13,
     <1>14, <1>15 DEF Next, Loop

\* Whatever mode the server is in, whatever fails and whenever it is killed and
\* started again, it touches the registers only as the handshake lets it.
THEOREM Implementation == Spec => ImplementsPingPong
<1>1. Init => LoopInv
  BY InitLoop
<1>2. LoopInv /\ [Next]_vars => LoopInv'
  BY LoopStep
<1>3. Init => Regs!Init
  BY DEF Init, Regs!Init, ServerPc, Regs!None, None
<1>4. LoopInv /\ LoopInv' /\ [Next]_vars => [Regs!Next]_(Regs!vars)
  BY NextRefines
<1> QED
  BY <1>1, <1>2, <1>3, <1>4, PTL DEF Spec, ImplementsPingPong, Regs!Spec

\* So what is proved of the handshake holds of the server.
LEMMA HandshakeHolds == Spec => []HS!IInv
<1>1. HS!Spec => []HS!IInv
  BY HS!Invariance, CaptureServerAssumption
<1> QED
  BY <1>1, Implementation, SameSpec, PTL DEF ImplementsPingPong

-----------------------------------------------------------------------------
(* The rows of the log. *)

\* What the rows need to know of the handshake.
LEMMA Handshake ==
  ASSUME HS!IInv
  PROVE  /\ active \in {0, 1} /\ full \in SUBSET {0, 1}
         /\ wraps \in Nat /\ overwrites \in Nat /\ discarded \in Nat
         /\ lap \in [{0, 1} -> Nat] /\ readLap \in Nat
         /\ seen \subseteq full
         /\ reading # None => reading \in full
         /\ Regs!Rise => reading = None /\ full = {}
BY DEF HS!IInv, HS!TypeOK, HS!ServingInv, HS!ArmingInv, HS!Buffers, HS!None, HS!Rise,
     HS!Idle, Regs!Rise, None

\* A register write sets no FULL bit but that of the lap it completes, and
\* before the first overwrite it does that only when the other one is clear.
LEMMA WriteLaps ==
  ASSUME HS!IInv, RowsInv, OrderInv,
         NEW ctrl, NEW irqAck, NEW bufAck, Write(ctrl, irqAck, bufAck)
  PROVE  /\ wraps' \in Nat /\ wraps' >= wraps
         /\ \A b \in full' : lap'[b] \in 1..wraps'
         /\ overwrites' = 0 => overwrites = 0
         /\ overwrites' = 0 =>
              /\ active' \notin full'
              /\ \A b \in full' : lap'[b] = wraps'
              /\ \/ wraps' = wraps /\ full' = full \ bufAck
                 \/ wraps' = wraps + 1 /\ full = {} /\ full' # {}
<1>1. /\ active \in {0, 1} /\ full \in SUBSET {0, 1}
      /\ wraps \in Nat /\ overwrites \in Nat /\ lap \in [{0, 1} -> Nat]
      /\ Regs!Rise => full = {}
  BY Handshake
<1>2. PICK wrap \in BOOLEAN :
        Regs!WriterMay(wrap) /\ Regs!Clock(wrap, FALSE, ctrl, irqAck, bufAck)
  BY DEF Write
<1>3. CASE wrap
  <2>1. ~Regs!Rise
    BY <1>2, <1>3 DEF Regs!WriterMay, Regs!Rise
  <2>2. /\ wraps' = wraps + 1 /\ lap' = [lap EXCEPT ![active] = wraps + 1]
        /\ full' = (full \ bufAck) \cup {active}
        /\ active' = 1 - active
        /\ overwrites' = IF (1 - active) \in full THEN overwrites + 1 ELSE overwrites
    BY <1>2, <1>3, <2>1 DEF Regs!Clock, Regs!FullNext, Regs!ActiveNext, Regs!Overrun
  <2>3. \A b \in full' : lap'[b] \in 1..wraps'
    BY <1>1, <2>2 DEF RowsInv
  <2>4. ASSUME overwrites' = 0
        PROVE  overwrites = 0 /\ full = {} /\ full' = {active} /\ active' # active
    <3>1. overwrites = 0 /\ (1 - active) \notin full
      BY <1>1, <2>2, <2>4
    <3>2. active \notin full
      BY <3>1 DEF OrderInv
    <3>3. full = {}
      <4>1. active = 0 \/ active = 1
        BY <1>1
      <4>2. 0 \notin full /\ 1 \notin full
        BY <3>1, <3>2, <4>1
      <4> QED
        BY <1>1, <4>2
    <3>4. full' = {active} /\ active' # active
      BY <1>1, <2>2, <3>3
    <3> QED
      BY <3>1, <3>3, <3>4
  <2> QED
    BY <1>1, <2>2, <2>3, <2>4
<1>4. CASE ~wrap
  <2>1. /\ wraps' = wraps /\ lap' = lap /\ overwrites' = overwrites
        /\ full' = full \ bufAck /\ (active' = active \/ full' = {})
    BY <1>1, <1>2, <1>4 DEF Regs!Clock, Regs!FullNext, Regs!ActiveNext, Regs!Overrun
  <2> QED
    BY <1>1, <2>1 DEF RowsInv, OrderInv
<1> QED
  BY <1>3, <1>4

\* The condition on the rows before the first overwrite, and what the log still
\* lacks.
Steps(d) == \A i \in 1 .. Len(rows) - 1 : rows[i + 1] - rows[i] \in 0 .. 1 + d

\* More discarded laps allow larger steps.
LEMMA StepsGrow ==
  ASSUME NEW w \in Nat, rows \in Seq(1..w), NEW d \in Nat, NEW e \in Nat, d <= e, Steps(d)
  PROVE  Steps(e)
<1>1. Len(rows) \in Nat
  BY LenProperties
<1> SUFFICES ASSUME NEW i \in 1 .. Len(rows) - 1 PROVE rows[i + 1] - rows[i] \in 0 .. 1 + e
  BY DEF Steps
<1>2. rows[i + 1] - rows[i] \in 0 .. 1 + d
  BY DEF Steps
<1> QED
  BY <1>2

\* A register write that leaves the log and the buffer being read alone, and
\* releases one only by discarding it.
LEMMA WriteKeepsRows ==
  ASSUME IInv, HS!IInv',
         NEW ctrl, NEW irqAck, NEW bufAck, Write(ctrl, irqAck, bufAck),
         UNCHANGED <<rows, reading, readLap>>,
         log' \in {FALSE, log},
         at' \in {"logged", "loggedOnly"} => at' = at,
         discarded' >= discarded + (IF bufAck = {} \/ full = {} THEN 0 ELSE 1)
  PROVE  RowsInv' /\ OrderInv'
<1>1. /\ wraps \in Nat /\ discarded \in Nat /\ readLap \in Nat
      /\ full \in SUBSET {0, 1}
      /\ reading # None => reading \in full
  BY Handshake DEF IInv
<1>2. discarded' \in Nat /\ full' \in SUBSET {0, 1}
  BY DEF HS!IInv, HS!TypeOK, HS!Buffers
<1>3. wraps' \in Nat /\ wraps' >= wraps /\ rows \in Seq(1..wraps)
  BY WriteLaps DEF IInv, RowsInv
<1>4. RowsInv'
  <2>1. rows' \in Seq(1..wraps')
    <3>1. 1..wraps \subseteq 1..wraps'
      BY <1>1, <1>3
    <3> QED
      BY <1>3, <3>1, SeqMonotonic
  <2>2. \A b \in full' : lap'[b] \in 1..wraps'
    BY WriteLaps DEF IInv
  <2>3. reading' # None => readLap' \in 1..wraps'
    BY <1>1, <1>3 DEF IInv, RowsInv
  <2>4. at' \in {"logged", "loggedOnly"} /\ log' =>
          rows' # <<>> /\ rows'[Len(rows')] = readLap'
    BY DEF IInv, RowsInv
  <2> QED
    BY <2>1, <2>2, <2>3, <2>4 DEF RowsInv
<1>5. ASSUME overwrites' = 0
      PROVE  /\ active' \notin full'
             /\ \A b \in full' : lap'[b] = wraps'
             /\ reading' # None => readLap' = wraps'
             /\ log' /\ rows' # <<>> =>
                  wraps' <= rows'[Len(rows')] + discarded' + (IF full' = {} THEN 0 ELSE 1)
             /\ Steps(discarded)'
  <2>1. /\ overwrites = 0 /\ active' \notin full'
        /\ \A b \in full' : lap'[b] = wraps'
        /\ \/ wraps' = wraps /\ full' = full \ bufAck
           \/ wraps' = wraps + 1 /\ full = {} /\ full' # {}
    BY <1>5, WriteLaps DEF IInv
  <2>2. reading # None => wraps' = wraps /\ readLap = wraps
    BY <1>1, <2>1 DEF IInv, OrderInv
  <2>3. ASSUME log', rows # <<>>
        PROVE  wraps' <= rows[Len(rows)] + discarded' + (IF full' = {} THEN 0 ELSE 1)
    <3>1. wraps <= rows[Len(rows)] + discarded + (IF full = {} THEN 0 ELSE 1)
      BY <2>1, <2>3 DEF IInv, OrderInv
    <3>2. rows[Len(rows)] \in Nat
      <4>1. Len(rows) \in 1..Len(rows)
        BY <1>3, <2>3, EmptySeq
      <4>2. rows[Len(rows)] \in 1..wraps
        BY <1>3, <4>1, ElementOfSeq
      <4> QED
        BY <1>1, <4>2
    <3>3. CASE wraps' = wraps + 1
      <4>1. full = {} /\ full' # {} /\ discarded' >= discarded
        BY <1>1, <2>1, <3>3
      <4>2. wraps <= rows[Len(rows)] + discarded + 0
        BY <3>1, <4>1
      <4>3. (IF full' = {} THEN 0 ELSE 1) = 1
        BY <4>1
      <4>4. wraps + 1 <= rows[Len(rows)] + discarded' + 1
        BY <1>1, <1>2, <3>2, <4>1, <4>2
      <4> QED
        BY <3>3, <4>3, <4>4
    <3>4. CASE wraps' = wraps /\ full' = full \ bufAck /\ (bufAck = {} \/ full = {})
      BY <1>1, <1>2, <3>1, <3>2, <3>4
    <3>5. CASE wraps' = wraps /\ ~(bufAck = {} \/ full = {})
      BY <1>1, <1>2, <3>1, <3>2, <3>5
    <3> QED
      BY <2>1, <3>3, <3>4, <3>5
  <2>4. Steps(discarded)'
    <3>1. Steps(discarded) /\ discarded <= discarded'
      BY <1>1, <1>2, <2>1 DEF IInv, OrderInv, Steps
    <3>2. Steps(discarded')
      BY <1>1, <1>2, <1>3, <3>1, StepsGrow
    <3> QED
      BY <3>2 DEF Steps
  <2> QED
    BY <2>1, <2>2, <2>3, <2>4
<1> QED
  BY <1>4, <1>5 DEF OrderInv, Steps

\* A step that writes no register, logs no row and begins no buffer.
LEMMA QuietKeepsRows ==
  ASSUME IInv,
         UNCHANGED <<registers, discarded, readLap>>,
         reading' \in {reading, None},
         \/ rows' = rows /\ log' \in {FALSE, log}
         \/ rows' = <<>>,
         at' \in {"logged", "loggedOnly"} =>
           at' = at /\ rows' = rows /\ reading' = reading /\ log' \in {FALSE, log}
  PROVE  RowsInv' /\ OrderInv'
<1> USE DEF registers
<1>1. wraps \in Nat /\ discarded \in Nat
  BY Handshake DEF IInv
<1>2. RowsInv'
  <2>1. rows' \in Seq(1..wraps')
    <3>1. rows \in Seq(1..wraps) /\ <<>> \in Seq(1..wraps) /\ wraps' = wraps
      BY EmptySeq DEF IInv, RowsInv
    <3> QED
      BY <3>1
  <2>2. \A b \in full' : lap'[b] \in 1..wraps'
    BY DEF IInv, RowsInv
  <2>3. reading' # None => readLap' \in 1..wraps'
    BY DEF IInv, RowsInv
  <2>4. at' \in {"logged", "loggedOnly"} /\ log' =>
          rows' # <<>> /\ rows'[Len(rows')] = readLap'
    <3> SUFFICES ASSUME at' \in {"logged", "loggedOnly"}, log'
                 PROVE  rows' # <<>> /\ rows'[Len(rows')] = readLap'
      OBVIOUS
    <3>1. at \in {"logged", "loggedOnly"} /\ log /\ rows' = rows
      OBVIOUS
    <3> QED
      BY <3>1 DEF IInv, RowsInv
  <2> QED
    BY <2>1, <2>2, <2>3, <2>4 DEF RowsInv
<1>3. CASE rows' = rows /\ log' \in {FALSE, log}
  <2>1. /\ UNCHANGED <<overwrites, active, full, lap, wraps, discarded, readLap, rows>>
        /\ reading' # None => reading' = reading
    BY <1>3
  <2>2. log' => log
    BY <1>3, Zenon
  <2>3. OrderInv'
    BY <2>1, <2>2 DEF IInv, OrderInv
  <2> QED
    BY <1>2, <2>3
<1>4. CASE rows' = <<>>
  <2>1. Len(rows') = 0
    BY <1>4, EmptySeq
  <2>2. \A i \in 1 .. Len(rows') - 1 :
          rows'[i + 1] - rows'[i] \in 0 .. 1 + discarded'
    BY <2>1
  <2> QED
    BY <1>2, <1>4, <2>2 DEF IInv, OrderInv
<1> QED
  BY <1>3, <1>4

\* The row of the lap being read.
LEMMA LogKeepsRows == IInv /\ LogBuffer => RowsInv' /\ OrderInv'
<1> SUFFICES ASSUME IInv, LogBuffer PROVE RowsInv' /\ OrderInv'
  OBVIOUS
<1>1. UNCHANGED <<registers, discarded, reading, readLap, log>> /\ reading # None
  BY DEF LogBuffer, buffers
<1>2. CASE ~log
  <2>1. rows' = rows /\ log' = log
    BY <1>1, <1>2 DEF LogBuffer
  <2> QED
    BY <1>1, <1>2, <2>1 DEF IInv, RowsInv, OrderInv, registers
<1>3. CASE log
  <2>1. /\ wraps \in Nat /\ discarded \in Nat /\ readLap \in 1..wraps
        /\ rows \in Seq(1..wraps) /\ Len(rows) \in Nat
    BY <1>1, Handshake, LenProperties DEF IInv, RowsInv
  <2>2. /\ rows' \in Seq(1..wraps) /\ Len(rows') = Len(rows) + 1
        /\ \A i \in 1..Len(rows) : rows'[i] = rows[i]
        /\ rows'[Len(rows) + 1] = readLap
    BY <1>3, <2>1, AppendProperties DEF LogBuffer
  <2>3. rows' # <<>> /\ rows'[Len(rows')] = readLap
    BY <2>1, <2>2, EmptySeq
  <2>4. RowsInv'
    BY <1>1, <2>2, <2>3 DEF IInv, RowsInv, registers
  <2>5. ASSUME overwrites = 0
        PROVE  /\ wraps <= rows'[Len(rows')] + discarded
               /\ \A i \in 1 .. Len(rows') - 1 :
                    rows'[i + 1] - rows'[i] \in 0 .. 1 + discarded
    <3>1. readLap = wraps
      BY <1>1, <2>5 DEF IInv, OrderInv
    <3>2. ASSUME NEW i \in 1 .. Len(rows') - 1
          PROVE  rows'[i + 1] - rows'[i] \in 0 .. 1 + discarded
      <4>1. CASE i < Len(rows)
        <5>1. i \in 1 .. Len(rows) - 1 /\ i \in 1..Len(rows) /\ i + 1 \in 1..Len(rows)
          BY <2>1, <3>2, <4>1
        <5>2. rows'[i + 1] = rows[i + 1] /\ rows'[i] = rows[i]
          BY <2>2, <5>1
        <5> QED
          BY <2>5, <5>1, <5>2 DEF IInv, OrderInv
      <4>2. CASE i = Len(rows)
        <5>1. rows'[i + 1] = wraps /\ rows'[i] = rows[Len(rows)]
          BY <2>1, <2>2, <3>1, <3>2, <4>2
        <5>2. rows # <<>> /\ rows[Len(rows)] \in 1..wraps
          BY <2>1, <3>2, <4>2, EmptySeq, ElementOfSeq
        <5>3. wraps <= rows[Len(rows)] + discarded + (IF full = {} THEN 0 ELSE 1)
          BY <1>3, <2>5, <5>2 DEF IInv, OrderInv
        <5> QED
          BY <2>1, <5>1, <5>2, <5>3
      <4> QED
        BY <2>1, <2>2, <3>2, <4>1, <4>2
    <3> QED
      BY <2>1, <2>3, <3>1, <3>2
  <2>6. rows'[Len(rows')] \in Nat
    BY <2>1, <2>3
  <2>7. OrderInv'
    <3>1. /\ UNCHANGED <<overwrites, active, full, lap, wraps>>
      BY <1>1 DEF registers
    <3> SUFFICES ASSUME overwrites = 0 PROVE OrderInv'
      BY <3>1 DEF OrderInv
    <3>2. wraps <= rows'[Len(rows')] + discarded + (IF full = {} THEN 0 ELSE 1)
      BY <2>1, <2>5, <2>6
    <3> QED
      BY <1>1, <2>5, <3>1, <3>2 DEF IInv, OrderInv
  <2> QED
    BY <2>4, <2>7
<1> QED
  BY <1>2, <1>3

\* The acknowledgement of a lap that is logged, if there is a log.
LEMMA AckKeepsRows == IInv /\ HS!IInv' /\ AckBuffer => RowsInv' /\ OrderInv'
<1> SUFFICES ASSUME IInv, HS!IInv', AckBuffer PROVE RowsInv' /\ OrderInv'
  OBVIOUS
<1>1. /\ Write(enable, {}, {reading}) /\ reading' = None
      /\ UNCHANGED <<readLap, discarded, rows, log>>
      /\ at \in {"logged", "loggedOnly"} /\ at' \notin {"logged", "loggedOnly"}
  BY DEF AckBuffer, logging
<1>2. /\ wraps \in Nat /\ discarded \in Nat /\ full \in SUBSET {0, 1}
      /\ active \in {0, 1} /\ reading \in full
      /\ log => rows # <<>> /\ rows[Len(rows)] = readLap
  BY <1>1, Handshake DEF IInv, LoopInv, RowsInv
<1>3. /\ wraps' \in Nat /\ wraps' >= wraps /\ \A b \in full' : lap'[b] \in 1..wraps'
      /\ overwrites' = 0 =>
           /\ overwrites = 0 /\ active' \notin full'
           /\ \A b \in full' : lap'[b] = wraps'
           /\ wraps' = wraps
  BY <1>1, <1>2, WriteLaps DEF IInv
<1>4. RowsInv'
  <2>1. 1..wraps \subseteq 1..wraps'
    BY <1>2, <1>3
  <2>2. rows' \in Seq(1..wraps')
    BY <1>1, <2>1, SeqMonotonic DEF IInv, RowsInv
  <2> QED
    BY <1>1, <1>3, <2>2 DEF RowsInv
<1>5. ASSUME overwrites' = 0
      PROVE  /\ readLap = wraps /\ wraps' = wraps
             /\ \A i \in 1 .. Len(rows) - 1 : rows[i + 1] - rows[i] \in 0 .. 1 + discarded
  <2>1. reading # None /\ overwrites = 0 /\ wraps' = wraps
    BY <1>2, <1>3, <1>5 DEF None
  <2> QED
    BY <2>1 DEF IInv, OrderInv
<1>6. ASSUME overwrites' = 0, log
      PROVE  wraps' <= rows[Len(rows)] + discarded + (IF full' = {} THEN 0 ELSE 1)
  <2>1. rows[Len(rows)] = wraps /\ wraps' = wraps
    BY <1>2, <1>5, <1>6
  <2> QED
    BY <1>2, <2>1
<1>7. OrderInv'
  BY <1>1, <1>3, <1>5, <1>6 DEF OrderInv
<1> QED
  BY <1>4, <1>7

\* The next buffer of a pass: a FULL one.
LEMMA BeginKeepsRows == IInv /\ BeginBuffer => RowsInv' /\ OrderInv'
<1> SUFFICES ASSUME IInv, BeginBuffer PROVE RowsInv' /\ OrderInv'
  OBVIOUS
<1>1. PICK b \in seen : reading' = b /\ readLap' = lap[b]
  BY DEF BeginBuffer
<1>2. UNCHANGED <<registers, discarded, rows, log, at>> /\ at \in {"serve", "serveLog"}
  BY DEF BeginBuffer, logging, Serving
<1>3. b \in full
  BY Handshake DEF IInv
<1> QED
  BY <1>1, <1>2, <1>3 DEF IInv, RowsInv, OrderInv, registers

LEMMA RowsStep ==
  ASSUME IInv, HS!IInv', [Next]_vars
  PROVE  RowsInv' /\ OrderInv'
<1> USE DEF logging, buffers
<1>1. /\ discarded \in Nat /\ full \in SUBSET {0, 1}
  BY Handshake DEF IInv
<1>2. CASE Tick
  BY <1>1, <1>2, WriteKeepsRows DEF Tick
<1>3. CASE ArmStop \/ UnattendedExpires \/ LogError \/ DeadlineExpires \/ CloseClient
  <2>1. /\ Write(FALSE, {}, {}) /\ UNCHANGED <<rows, reading, readLap, discarded>>
        /\ log' \in {FALSE, log} /\ at' \notin {"logged", "loggedOnly"}
    BY <1>3 DEF ArmStop, UnattendedExpires, LogError, DeadlineExpires, CloseClient,
         DmaStop, StopLog, Closing, AfterClose
  <2>2. discarded' >= discarded + (IF {} = {} \/ full = {} THEN 0 ELSE 1)
    BY <1>1, <2>1
  <2> QED
    BY <2>1, <2>2, WriteKeepsRows
<1>4. CASE ArmIrqs
  BY <1>1, <1>4, WriteKeepsRows DEF ArmIrqs
<1>5. CASE ArmBuffers
  <2>1. discarded' >= discarded + (IF Regs!Buffers = {} \/ full = {} THEN 0 ELSE 1)
    <3>1. Regs!FullCount = HS!Cardinality(full)
      BY DEF Regs!FullCount, Regs!Cardinality, HS!Cardinality
    <3>2. HS!Cardinality(full) =
            (IF 0 \in full THEN 1 ELSE 0) + (IF 1 \in full THEN 1 ELSE 0)
      BY <1>1, HS!FullCountBits, CaptureServerAssumption DEF HS!Buffers
    <3> QED
      BY <1>1, <1>5, <3>1, <3>2 DEF ArmBuffers
  <2> QED
    BY <1>5, <2>1, WriteKeepsRows DEF ArmBuffers
<1>6. CASE ArmEnable
  <2>1. discarded' >= discarded + (IF {} = {} \/ full = {} THEN 0 ELSE 1)
    BY <1>1, <1>6 DEF ArmEnable
  <2> QED
    BY <1>6, <2>1, WriteKeepsRows DEF ArmEnable
<1>7. CASE AckBuffer \/ LogBuffer \/ BeginBuffer
  BY <1>7, AckKeepsRows, LogKeepsRows, BeginKeepsRows
<1>8. CASE Expire \/ Accept \/ SelectTimesOut \/ SelectClient \/ SocketDone \/ Greet
             \/ DeadlinePasses \/ LeaveLogRunning \/ Quit
  BY <1>8, QuietKeepsRows DEF Expire, Accept, SelectTimesOut, SelectClient, SocketDone,
       Greet, DeadlinePasses, LeaveLogRunning, Closing, AfterClose, Quit
<1>9. CASE UnattendedPoll \/ Poll \/ FailBuffer
  BY <1>9, QuietKeepsRows DEF UnattendedPoll, Poll, FailBuffer
<1>10. CASE Commands
  BY <1>10, QuietKeepsRows DEF Commands, Command, SetLocalLogDuration, StartLocalLog,
       StartLocalLogFails, StopLocalLog, StopLog
<1>11. CASE Exit \/ Kill \/ Restart
  BY <1>11, QuietKeepsRows DEF Exit, Kill, Gone, Restart
<1>12. CASE UNCHANGED vars
  BY <1>12, QuietKeepsRows DEF vars
<1> QED
  BY <1>2, <1>3, <1>4, <1>5, <1>6, <1>7, <1>8, <1>9, <1>10, <1>11, <1>12 DEF Next, Loop

LEMMA InitRows == Init => RowsInv /\ OrderInv
<1> SUFFICES ASSUME Init PROVE RowsInv /\ OrderInv
  OBVIOUS
<1>1. rows = <<>> /\ Len(rows) = 0 /\ rows \in Seq(1..wraps)
  BY EmptySeq DEF Init
<1> QED
  BY <1>1 DEF Init, RowsInv, OrderInv, None

-----------------------------------------------------------------------------
(* The theorems. *)

\* What the server does to the registers is what PingPong allows, so the
\* invariant of the handshake comes with every step; the rest is inductive
\* beside it.
THEOREM Invariance == Spec => []IInv
<1> DEFINE Own == LoopInv /\ IdleInv /\ RowsInv /\ OrderInv
<1>1. Init => Own
  BY InitLoop, InitRows
<1>2. Own /\ HS!IInv /\ HS!IInv' /\ [Next]_vars => Own'
  BY LoopStep, IdleStep, RowsStep DEF IInv
<1>3. Own /\ HS!IInv => IInv
  BY DEF IInv
<1> HIDE DEF Own
<1> QED
  BY <1>1, <1>2, <1>3, HandshakeHolds, PTL DEF Spec

\* Every variable of the server and of the registers holds a value of its kind,
\* a row holds a lap the hardware has completed, and a buffer is being served
\* only in a pass.
THEOREM TypeCorrect == Spec => []TypeOK
<1>1. IInv => TypeOK
  <2> SUFFICES ASSUME IInv PROVE TypeOK
    OBVIOUS
  <2>1. Regs!TypeOK
    BY DEF IInv, HS!IInv, HS!TypeOK, Regs!TypeOK, HS!Buffers, Regs!Buffers,
         HS!Irqs, Regs!Irqs, HS!None, Regs!None
  <2> QED
    BY <2>1 DEF IInv, LoopInv, RowsInv, TypeOK, Pass
<1> QED
  BY <1>1, Invariance, PTL

\* A log that nobody is connected to end has a deadline, whatever commands came
\* before its client left.
THEOREM NobodysLogIsTimed == Spec => []UnattendedIsTimed
<1>1. IInv => UnattendedIsTimed
  BY DEF IInv, IdleInv, UnattendedIsTimed
<1> QED
  BY <1>1, Invariance, PTL

\* A server that has written DMA_CTRL and has neither a client nor a log has
\* stopped the DMA, on every path that leads there.
THEOREM NobodysDmaIsStopped == Spec => []IdleMeansStopped
<1>1. IInv => IdleMeansStopped
  BY DEF IInv, IdleInv, IdleMeansStopped
<1> QED
  BY <1>1, Invariance, PTL

\* Until the hardware overwrites a buffer, the rows of a log are the laps in the
\* order they were filled, short of those that arming threw away.
THEOREM RowsFollowLaps == Spec => []RowsInOrder
<1>1. IInv => RowsInOrder
  BY DEF IInv, OrderInv, RowsInOrder
<1> QED
  BY <1>1, Invariance, PTL

\* No write to the registers takes the buffer being read from the server before
\* its lap is in the log: only its own acknowledgement clears that bit, and the
\* rows come before it.
THEOREM LoggedFirst == Spec => ReleasedIsLogged
<1>1. ASSUME IInv, [Next]_vars, NEW b \in full \ full', reading = b, log
      PROVE  rows # <<>> /\ rows[Len(rows)] = readLap
  <2>1. /\ reading \in full /\ reading # None /\ ~Regs!Rise /\ at \in Pass
    BY <1>1, Handshake DEF IInv, LoopInv, None
  <2>2. ASSUME NEW ctrl, NEW irqAck, Write(ctrl, irqAck, {})
        PROVE  b \in full'
    BY <1>1, <2>1, <2>2 DEF Write, Regs!Clock, Regs!FullNext
  <2>3. full' # full
    BY <1>1
  <2>4. AckBuffer
    <3>1. ~Tick /\ ~DmaStop
      BY <1>1, <2>2 DEF Tick, DmaStop
    <3>2. ~ArmIrqs /\ ~ArmBuffers /\ ~ArmEnable
      BY <2>1 DEF ArmIrqs, ArmBuffers, ArmEnable, Pass
    <3>3. ~(ArmStop \/ UnattendedExpires \/ LogError \/ DeadlineExpires \/ CloseClient)
      BY <3>1 DEF ArmStop, UnattendedExpires, LogError, DeadlineExpires, CloseClient
    <3>4. ~(Expire \/ Accept \/ SelectTimesOut \/ SelectClient \/ SocketDone \/ Greet
              \/ DeadlinePasses \/ LeaveLogRunning \/ Quit)
      BY <2>3 DEF Expire, Accept, SelectTimesOut, SelectClient, SocketDone, Greet,
           DeadlinePasses, LeaveLogRunning, Quit, registers
    <3>5. ~(UnattendedPoll \/ Poll \/ BeginBuffer \/ LogBuffer \/ FailBuffer)
      BY <2>3 DEF UnattendedPoll, Poll, BeginBuffer, LogBuffer, FailBuffer, registers
    <3>6. ~Commands
      BY <2>3 DEF Commands, Command, SetLocalLogDuration, StartLocalLog,
           StartLocalLogFails, StopLocalLog, registers
    <3>7. ~(Exit \/ Kill \/ Restart \/ UNCHANGED vars)
      BY <2>3 DEF Exit, Kill, Gone, Restart, vars, registers
    <3> QED
      BY <1>1, <3>1, <3>2, <3>3, <3>4, <3>5, <3>6, <3>7 DEF Next, Loop
  <2> QED
    BY <1>1, <2>4 DEF AckBuffer, IInv, RowsInv
<1>2. IInv /\ [Next]_vars =>
        [\A b \in full \ full' :
           reading = b /\ log => rows # <<>> /\ rows[Len(rows)] = readLap]_vars
  BY <1>1
<1> QED
  BY <1>2, Invariance, PTL DEF Spec, ReleasedIsLogged

\* So what is proved of the handshake holds of the real server, in every mode and on
\* every error path: no buffer is filled unannounced, the one being read is safe or the
\* overwrite bit is up, no lap is skipped meanwhile, and no loss goes uncounted.
THEOREM HandshakeKept ==
  Spec => [](HS!OverwriteVisible /\ HS!ReaderWarned /\ HS!LapsAccounted /\ HS!LossCounted)
<1>1. HS!Spec => /\ []HS!OverwriteVisible /\ []HS!ReaderWarned
                 /\ []HS!LapsAccounted /\ []HS!LossCounted
  BY CaptureServerAssumption,
     HS!OverwriteIsVisible, HS!ReaderIsWarned, HS!LapsAreAccounted, HS!LossIsCounted
<1> QED
  BY <1>1, Implementation, SameSpec, PTL DEF ImplementsPingPong
===============================================================================
