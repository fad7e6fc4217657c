------------------------------ MODULE ClientProofs ------------------------------
(***************************************************************************)
(* The client, in two parts that share no variable.                        *)
(*                                                                         *)
(* The log (ClientLogging).  The open CSV file is the one of the last start*)
(* that still stands, for every number of starts, stops and connections    *)
(* and every file name.  Two things make it so: the only request that can  *)
(* wait for a marker is the wanted one, whatever number of cancelled       *)
(* placeholders stands around it; and a START that is on its way was sent  *)
(* for a request that no longer waits, so the error it may be answered     *)
(* with takes away a placeholder at worst.                                 *)
(*                                                                         *)
(* The stream (ClientStream).  The controller is handed what the server    *)
(* sent, whatever pieces recv returns, and the rows of the log begin at    *)
(* the marker, for every size of a message and of the counter; they come   *)
(* at the demodulation rate where the period and the steps of the counter  *)
(* fit in half its range (StepsFit).  Three things make it so: the bytes   *)
(* that are buffered and on their way are those of the messages that are   *)
(* not taken out; the gate's row is the last one written as long as every  *)
(* sample since was one for the gate; and, under StepsFit, no count is     *)
(* further from an earlier one than half the counter's range, unless one   *)
(* in between is nearer.                                                   *)
(***************************************************************************)
EXTENDS ClientLogging, ClientStream, SequenceTheorems, WellFoundedInduction, TLAPS

Asked == [dest : {"local", "usb"}, timed : BOOLEAN, len : {0} \cup NameLengths,
          in : Nat]

\* The user's side.
UserInv ==
  /\ gui \in {"ready", "joining", "marking", "stopping"}
  /\ asked \in Seq(Asked) /\ Len(asked) <= MaxStarts
  /\ wanted \in 0..Len(asked)
  /\ connects \in 0..MaxConnects
  /\ gui = "marking" => asked # <<>>

\* Of the requests only the wanted one waits for its marker, and only once.
PendingInv ==
  /\ pending \in Seq(0..Len(asked))
  /\ \A i \in 1..Len(pending) :
       pending[i] # 0 =>
         /\ pending[i] = wanted
         /\ \A j \in 1..Len(pending) : j # i => pending[j] = 0

\* The log, its deadline and its timer.  An open file is on this computer, and
\* nothing waits for a marker while it is.
LogInv ==
  /\ logger \in 0..Len(asked) /\ dest \in {"local", "usb"}
  /\ deadline \in BOOLEAN /\ timer \in 0..Len(asked)
  /\ armed \subseteq Ids /\ fired \subseteq Ids
  /\ NoZombieLog
  /\ logger # 0 => dest = "local" /\ \A i \in 1..Len(pending) : pending[i] = 0

\* The transport: every thread that empties the queue, and the one that is
\* connected, took a connect of its own.
TransportInv ==
  /\ connected \in BOOLEAN /\ stop \in BOOLEAN
  /\ worker \in {"none", "opening", "running", "left"}
  /\ connected <=> worker = "running"
  /\ peer \in {"none", "open", "shut", "gone"}
  /\ draining \in Nat
  /\ draining <= connects
  /\ worker # "none" => draining < connects

\* Request r has been made and does not wait for its marker.
Settled(r) ==
  /\ r \in 1..Len(asked)
  /\ \A i \in 1..Len(pending) : pending[i] # r

\* The bytes of chunk c that are not NUL fall inside the longest name.
Fits(c) == \A j \in 1..ChunkBytes :
             c.bytes[j] # 0 => c.at * ChunkBytes + j <= MaxLength

\* What can be under way in either direction.
Outbound == {c \in Commands : /\ c.op = "START" => Settled(c.for)
                              /\ c.op = "FILENAME" => Fits(c)}

Answers == [kind : {"ACK", "ERROR"}, op : {"MARK", "START", "STOP"},
            for : 0..MaxStarts]
Inbound == {a \in Answers : a.op = "START" => Settled(a.for)}

LinkInv == queue \in Seq(Outbound) /\ wire \in Seq(Outbound) /\ answers \in Seq(Inbound)

\* The buffer the server builds the name in ends with a NUL.
NameInv == /\ nameBuf \in [1..MaxLength + 1 -> Nat]
           /\ nameBuf[MaxLength + 1] = 0

IInv ==
  /\ UserInv
  /\ PendingInv
  /\ LogInv
  /\ TransportInv
  /\ LinkInv
  /\ NameInv

-----------------------------------------------------------------------------
(* The constants and the operators. *)

\* The length of the longest name is one of the lengths.
LEMMA LongestName ==
  MaxLength \in NameLengths /\ MaxLength \in Nat \ {0}
    /\ \A n \in NameLengths : n <= MaxLength
<1>1. \E n \in NameLengths : \A m \in NameLengths : m <= n
  BY BoundsAssumption
<1>2. MaxLength \in NameLengths /\ \A m \in NameLengths : m <= MaxLength
  BY <1>1 DEF MaxLength
<1> QED
  BY <1>2, BoundsAssumption

\* A cancelled request stays as a placeholder.
LEMMA CancelledType ==
  ASSUME NEW n \in Nat, NEW p \in Seq(0..n)
  PROVE  /\ Cancelled(p) \in Seq({0}) /\ Cancelled(p) \in Seq(0..n)
         /\ Len(Cancelled(p)) = Len(p)
         /\ \A i \in 1..Len(p) : Cancelled(p)[i] = 0
<1>1. DOMAIN p = 1..Len(p) /\ Len(p) \in Nat
  BY LenProperties
<1>2. Cancelled(p) = [i \in 1..Len(p) |-> 0]
  BY <1>1 DEF Cancelled
<1>3. Cancelled(p) \in Seq({0})
  BY <1>1, <1>2
<1>4. Cancelled(p) \in Seq(0..n)
  BY <1>3, SeqMonotonic
<1> QED
  BY <1>1, <1>2, <1>3, <1>4

\* What a step does to the requests: it makes a new one, it cancels what is
\* pending, it takes the oldest pending one, or it leaves them alone.
Makes ==
  /\ asked' \in Seq(Asked) /\ Len(asked') = Len(asked) + 1 /\ Len(asked') <= MaxStarts
  /\ pending' = Append(Cancelled(pending), Len(asked'))
  /\ wanted' = Len(asked') /\ logger' = 0
Cancels ==
  UNCHANGED asked /\ pending' = Cancelled(pending) /\ wanted' = 0 /\ logger' = 0
Takes ==
  /\ UNCHANGED asked /\ PopPending
  /\ wanted' # wanted =>
       /\ wanted' = 0 /\ logger' = 0
       /\ Popped = wanted \/ Settled(wanted)
  /\ logger' \in {0, logger, Popped}
Keeps == UNCHANGED <<asked, pending, wanted>> /\ logger' \in {0, logger}

LEMMA StartMakes ==
  ASSUME IInv, StartLogging
  PROVE  Makes
<1>1. PICK r \in Requests : asked' = Append(asked, r)
  BY DEF StartLogging
<1>2. r \in Asked
  BY BoundsAssumption DEF Requests, Asked, IInv, UserInv
<1>3. asked' \in Seq(Asked) /\ Len(asked') = Len(asked) + 1
  BY <1>1, <1>2, AppendProperties DEF IInv, UserInv
<1> QED
  BY <1>3, BoundsAssumption, LenProperties DEF StartLogging, Makes, IInv, UserInv

\* Every step is one of them.
LEMMA StepShape ==
  ASSUME IInv, [Next]_vars
  PROVE  Makes \/ Cancels \/ Takes \/ Keeps
<1> USE DEF user, timers, logs, controller, transport, link, server, vars
<1>1. CASE StartLogging
  BY <1>1, StartMakes
<1>2. CASE Connect \/ Disconnect \/ JoinReturns \/ QueueMark \/ QueueStop
  BY <1>2 DEF Connect, Disconnect, JoinReturns, QueueMark, QueueStop, Keeps
<1>3. CASE StopLogging
  BY <1>3 DEF StopLogging, CloseLogger, Cancels, IInv, LogInv
<1>4. ASSUME NEW r \in Ids, TimerFires(r) \/ DurationElapsed(r)
      PROVE  Cancels \/ Keeps
  BY <1>4 DEF TimerFires, DurationElapsed, Cancels, Keeps
<1>5. CASE OpeningFails \/ Leave
  BY <1>5 DEF OpeningFails, Leave, Hangup, CloseLogger, Cancels
<1>6. CASE Handshake \/ Finish \/ Drain \/ FlushOutbound
  BY <1>6 DEF Handshake, Finish, Drain, FlushOutbound, Keeps
<1>7. CASE MarkOfNone \/ MarkStartsUsb
  BY <1>7 DEF MarkOfNone, MarkStartsUsb, Handle, Takes
<1>8. CASE MarkOpensLog \/ MarkFailsToOpen
  <2>1. Popped # 0 => Popped = wanted
    BY HeadTailProperties, LenProperties DEF Popped, IInv, PendingInv
  <2> QED
    BY <1>8, <2>1 DEF MarkOpensLog, MarkFailsToOpen, CloseLogger, Handle, Takes
<1>9. CASE RemoteFailed
  <2>1. answers # <<>> /\ Head(answers).op = "START"
    BY <1>9 DEF RemoteFailed, Handle
  <2>2. Settled(Head(answers).for)
    BY <2>1, HeadTailProperties DEF IInv, LinkInv, Inbound
  <2> QED
    BY <1>9, <2>2 DEF RemoteFailed, Handle, ClearLoggingState, CloseLogger, Takes
<1>10. CASE RemoteStarted \/ RemoteStopped
  BY <1>10 DEF RemoteStarted, RemoteStopped, ClearLoggingState, CloseLogger, Handle, Keeps
<1>11. CASE ServeMark \/ ServeDuration \/ ServeFilename \/ ServeStart \/ ServeStop
  BY <1>11 DEF ServeMark, ServeDuration, ServeFilename, ServeStart, ServeStop, Serve, Keeps
<1>12. CASE ClientLeft \/ ConnectionLost \/ ServerDeadline
  BY <1>12 DEF ClientLeft, ConnectionLost, DropClient, ServerDeadline, Keeps
<1>13. CASE UNCHANGED vars
  BY <1>13 DEF Keeps
<1> QED
  BY <1>1, <1>2, <1>3, <1>4, <1>5, <1>6, <1>7, <1>8, <1>9, <1>10, <1>11, <1>12, <1>13
     DEF Next, Gui, Timer, Worker, Server

\* The steps that write a variable the hard way; whatever else it does, a step
\* leaves it alone or takes something away from it.
LEMMA Writers ==
  ASSUME [Next]_vars
  PROVE  /\ Connect \/ UNCHANGED connects
         /\ \/ StartLogging \/ UNCHANGED <<gui, asked>>
            \/ UNCHANGED asked /\ gui' \in {"ready", "joining", "stopping"}
         /\ MarkOpensLog \/ logger' \in {0, logger}
         /\ MarkOpensLog \/ (timer' \in {0, timer} /\ armed' \subseteq armed)
         /\ fired' \subseteq fired \cup armed
         /\ MarkStartsUsb \/ dest' = "local" \/ UNCHANGED dest
         /\ \/ QueueMark \/ QueueStop \/ MarkStartsUsb \/ UNCHANGED queue
            \/ queue # <<>> /\ queue' = Tail(queue)
         /\ \/ FlushOutbound \/ UNCHANGED wire \/ wire' = <<>>
            \/ wire # <<>> /\ wire' = Tail(wire)
         /\ \/ ServeMark \/ ServeStart \/ ServeStop \/ UNCHANGED answers
            \/ answers' = <<>>
            \/ answers # <<>> /\ answers' = Tail(answers)
         /\ ServeFilename \/ ServeStart \/ UNCHANGED nameBuf
         /\ deadline' \in BOOLEAN \/ UNCHANGED deadline
<1> USE DEF user, timers, logs, controller, transport, link, server, vars
<1>1. CASE Gui
  BY <1>1 DEF Gui, Connect, Disconnect, JoinReturns, StartLogging, QueueMark,
       StopLogging, QueueStop, CloseLogger, CancelTimer, Requests
<1>2. ASSUME NEW r \in Ids, TimerFires(r) \/ DurationElapsed(r)
      PROVE  /\ UNCHANGED <<connects, gui, asked, dest, queue, wire, answers, nameBuf>>
             /\ logger' \in {0, logger} /\ timer' \in {0, timer}
             /\ armed' \subseteq armed /\ fired' \subseteq fired \cup armed
             /\ deadline' \in BOOLEAN \/ UNCHANGED deadline
  BY <1>2 DEF TimerFires, DurationElapsed
<1>3. CASE Handshake \/ OpeningFails \/ Leave \/ Finish \/ Drain \/ FlushOutbound
  BY <1>3 DEF Handshake, OpeningFails, Leave, Hangup, Finish, Drain, FlushOutbound,
       CloseLogger, CancelTimer
<1>4. CASE MarkOfNone \/ MarkStartsUsb \/ MarkOpensLog \/ MarkFailsToOpen
  BY <1>4 DEF MarkOfNone, MarkStartsUsb, MarkOpensLog, MarkFailsToOpen, Handle,
       CloseLogger, CancelTimer, StartTimer
<1>5. CASE RemoteStarted \/ RemoteStopped \/ RemoteFailed
  BY <1>5 DEF RemoteStarted, RemoteStopped, RemoteFailed, Handle,
       ClearLoggingState, CloseLogger, CancelTimer
<1>6. CASE Server
  BY <1>6 DEF Server, ServeMark, ServeDuration, ServeFilename, ServeStart, ServeStop,
       Serve, ClientLeft, ConnectionLost, DropClient, ServerDeadline
<1>7. CASE UNCHANGED vars
  BY <1>7
<1> QED
  BY <1>1, <1>2, <1>3, <1>4, <1>5, <1>6, <1>7 DEF Next, Timer, Worker

-----------------------------------------------------------------------------
(* Each part of the invariant over a step. *)

\* What waits for a marker.
LEMMA PendingStep ==
  ASSUME IInv, Makes \/ Cancels \/ Takes \/ Keeps
  PROVE  PendingInv'
<1>1. /\ Len(asked) \in Nat /\ pending \in Seq(0..Len(asked))
      /\ Len(pending) \in Nat
  BY LenProperties DEF IInv, UserInv, PendingInv
<1>2. /\ Cancelled(pending) \in Seq(0..Len(asked))
      /\ Len(Cancelled(pending)) = Len(pending)
      /\ \A i \in 1..Len(pending) : Cancelled(pending)[i] = 0
  BY <1>1, CancelledType
<1>3. CASE Makes
  <2>1. Cancelled(pending) \in Seq(0..Len(asked'))
    BY <1>1, <1>2, <1>3, SeqMonotonic DEF Makes
  <2>2. /\ pending' \in Seq(0..Len(asked'))
        /\ Len(pending') = Len(pending) + 1
        /\ \A i \in 1..Len(pending) : pending'[i] = 0
        /\ pending'[Len(pending) + 1] = wanted'
    BY <1>1, <1>2, <1>3, <2>1, AppendProperties DEF Makes
  <2> QED
    BY <1>1, <2>2 DEF PendingInv
<1>4. CASE Cancels
  BY <1>2, <1>4 DEF Cancels, PendingInv
<1>5. CASE Takes
  <2>1. CASE pending = <<>>
    BY <1>1, <1>5, <2>1 DEF Takes, PopPending, PendingInv
  <2>2. CASE pending # <<>>
    <3>1. /\ pending' \in Seq(0..Len(asked)) /\ Len(pending') = Len(pending) - 1
          /\ \A i \in 1..Len(pending') : pending'[i] = pending[i + 1]
      BY <1>1, <1>5, <2>2, HeadTailProperties DEF Takes, PopPending
    <3>2. Len(pending) >= 1 /\ Popped = pending[1]
      BY <1>1, <2>2, EmptySeq DEF Popped
    <3>3. \A i \in 1..Len(pending') : i + 1 \in 1..Len(pending)
      BY <1>1, <3>1
    <3>4. ASSUME NEW i \in 1..Len(pending'), pending'[i] # 0
          PROVE  /\ pending'[i] = wanted'
                 /\ \A j \in 1..Len(pending') : j # i => pending'[j] = 0
      <4>1. /\ pending[i + 1] = wanted
            /\ \A j \in 1..Len(pending) : j # i + 1 => pending[j] = 0
        BY <3>1, <3>3, <3>4 DEF IInv, PendingInv
      <4>2. wanted # 0 /\ Popped # wanted /\ ~Settled(wanted)
        <5>1. i + 1 \in 1..Len(pending) /\ i + 1 # 1 /\ 1 \in 1..Len(pending)
          BY <1>1, <3>2, <3>3
        <5>2. wanted # 0
          BY <3>1, <3>4, <4>1
        <5>3. Popped # wanted
          BY <3>2, <4>1, <5>1, <5>2
        <5> QED
          BY <4>1, <5>1, <5>2, <5>3 DEF Settled
      <4>3. wanted' = wanted
        BY <1>5, <4>2 DEF Takes
      <4>4. ASSUME NEW j \in 1..Len(pending'), j # i PROVE pending'[j] = 0
        <5>1. j + 1 \in 1..Len(pending) /\ j + 1 # i + 1
          BY <1>1, <3>1, <3>3, <3>4, <4>4
        <5> QED
          BY <3>1, <4>1, <5>1
      <4> QED
        BY <3>1, <4>1, <4>3, <4>4
    <3> QED
      BY <1>5, <3>1, <3>4 DEF PendingInv, Takes
  <2> QED
    BY <2>1, <2>2
<1>6. CASE Keeps
  BY <1>6 DEF Keeps, PendingInv, IInv
<1> QED
  BY <1>3, <1>4, <1>5, <1>6

\* A request that does not wait will never wait again.
LEMMA SettledStays ==
  ASSUME IInv, Makes \/ Cancels \/ Takes \/ Keeps, NEW r, Settled(r)
  PROVE  Settled(r)'
<1>1. /\ Len(asked) \in Nat /\ pending \in Seq(0..Len(asked))
      /\ Len(pending) \in Nat /\ r \in 1..Len(asked)
  BY LenProperties DEF IInv, UserInv, PendingInv, Settled
<1>2. /\ Cancelled(pending) \in Seq(0..Len(asked))
      /\ Len(Cancelled(pending)) = Len(pending)
      /\ \A i \in 1..Len(pending) : Cancelled(pending)[i] = 0
  BY <1>1, CancelledType
<1>3. CASE Makes
  <2>1. /\ Len(pending') = Len(pending) + 1
        /\ \A i \in 1..Len(pending) : pending'[i] = 0
        /\ pending'[Len(pending) + 1] = Len(asked')
    <3>1. Cancelled(pending) \in Seq(0..Len(asked'))
      BY <1>1, <1>2, <1>3, SeqMonotonic DEF Makes
    <3> QED
      BY <1>1, <1>2, <1>3, <3>1, AppendProperties DEF Makes
  <2> QED
    BY <1>1, <1>3, <2>1 DEF Settled, Makes
<1>4. CASE Cancels
  BY <1>1, <1>2, <1>4 DEF Cancels, Settled
<1>5. CASE Takes /\ pending # <<>>
  <2>1. /\ Len(pending') = Len(pending) - 1
        /\ \A i \in 1..Len(pending') : pending'[i] = pending[i + 1]
    BY <1>1, <1>5, HeadTailProperties DEF Takes, PopPending
  <2> QED
    BY <1>1, <1>5, <2>1 DEF Settled, Takes
<1>6. CASE Keeps \/ (Takes /\ pending = <<>>)
  BY <1>6 DEF Keeps, Takes, PopPending, Settled
<1> QED
  BY <1>3, <1>4, <1>5, <1>6

LEMMA UserStep ==
  ASSUME IInv, [Next]_vars
  PROVE  UserInv'
<1>1. Len(asked) \in Nat /\ MaxStarts \in Nat /\ MaxConnects \in Nat
  BY BoundsAssumption, LenProperties DEF IInv, UserInv
<1>2. /\ asked' \in Seq(Asked) /\ Len(asked') <= MaxStarts
      /\ wanted' \in 0..Len(asked')
  BY <1>1, StepShape DEF Makes, Cancels, Takes, Keeps, IInv, UserInv
<1>3. connects' \in 0..MaxConnects
  <2>1. connects' \in {connects, connects + 1} /\ (connects' # connects => connects < MaxConnects)
    BY Writers DEF Connect
  <2> QED
    BY <1>1, <2>1 DEF IInv, UserInv
<1>4. /\ gui' \in {"ready", "joining", "marking", "stopping"}
      /\ gui' = "marking" => asked' # <<>>
  <2>1. CASE StartLogging
    BY <1>1, <2>1, StartMakes, EmptySeq DEF StartLogging, Makes
  <2>2. CASE ~StartLogging
    BY <2>2, Writers DEF IInv, UserInv
  <2> QED
    BY <2>1, <2>2
<1> QED
  BY <1>2, <1>3, <1>4 DEF UserInv

LEMMA LogStep ==
  ASSUME IInv, [Next]_vars
  PROVE  LogInv'
<1>1. /\ Len(asked) \in Nat /\ Len(asked) <= MaxStarts /\ MaxStarts \in Nat
      /\ pending \in Seq(0..Len(asked)) /\ Len(pending) \in Nat
  BY BoundsAssumption, LenProperties DEF IInv, UserInv, PendingInv
<1>2. Len(asked') \in Nat /\ Len(asked') >= Len(asked)
  BY <1>1, StepShape DEF Makes, Cancels, Takes, Keeps
<1>3. CASE MarkOpensLog
  <2>1. /\ Popped # 0 /\ pending # <<>> /\ pending' = Tail(pending)
        /\ logger' = Popped /\ dest' = "local"
        /\ UNCHANGED <<asked, wanted, deadline, fired>>
        /\ timer' \in {timer, Popped} /\ armed' \subseteq armed \cup {Popped}
    BY <1>3 DEF MarkOpensLog, Handle, PopPending, Popped, StartTimer, timers
  <2>2. Popped = pending[1] /\ Len(pending) >= 1
    BY <1>1, <2>1, EmptySeq DEF Popped
  <2>3. /\ Popped \in 1..Len(asked) /\ Popped = wanted
        /\ \A j \in 1..Len(pending) : j # 1 => pending[j] = 0
    BY <1>1, <2>1, <2>2, ElementOfSeq DEF IInv, PendingInv
  <2>4. \A j \in 1..Len(pending') : pending'[j] = 0
    <3>1. /\ Len(pending') = Len(pending) - 1
          /\ \A i \in 1..Len(pending') : pending'[i] = pending[i + 1]
      BY <1>1, <2>1, HeadTailProperties
    <3> QED
      BY <1>1, <2>3, <3>1
  <2> QED
    BY <1>1, <2>1, <2>3, <2>4 DEF IInv, LogInv, NoZombieLog, Ids
<1>4. CASE ~MarkOpensLog
  <2>1. /\ logger' \in {0, logger} /\ timer' \in {0, timer}
        /\ armed' \subseteq armed /\ fired' \subseteq fired \cup armed
        /\ deadline' \in BOOLEAN \/ UNCHANGED deadline
    BY <1>4, Writers
  <2>2. dest' \in {"local", "usb"}
    BY Writers DEF MarkStartsUsb, IInv, LogInv
  <2>3. ASSUME logger' # 0
        PROVE  /\ logger' = wanted' /\ dest' = "local"
               /\ \A i \in 1..Len(pending') : pending'[i] = 0
    <3>1. /\ logger' = logger /\ logger = wanted /\ dest = "local"
          /\ \A i \in 1..Len(pending) : pending[i] = 0
      BY <2>1, <2>3 DEF IInv, LogInv, NoZombieLog
    <3>2. Takes \/ Keeps
      BY <2>3, StepShape DEF Makes, Cancels
    <3>3. wanted' = wanted
      BY <2>3, <3>2 DEF Takes, Keeps
    <3>4. Popped = 0
      BY <1>1, <3>1, EmptySeq DEF Popped
    <3>5. dest' = "local"
      BY <3>1, <3>4, Writers DEF MarkStartsUsb
    <3>6. CASE pending = <<>> \/ Keeps
      BY <3>1, <3>2, <3>3, <3>5, <3>6 DEF Takes, PopPending, Keeps
    <3>7. CASE Takes /\ pending # <<>>
      <4>1. /\ Len(pending') = Len(pending) - 1
            /\ \A i \in 1..Len(pending') : pending'[i] = pending[i + 1]
        BY <1>1, <3>7, HeadTailProperties DEF Takes, PopPending
      <4> QED
        BY <1>1, <3>1, <3>3, <3>5, <4>1
    <3> QED
      BY <3>2, <3>6, <3>7
  <2> QED
    BY <1>1, <1>2, <2>1, <2>2, <2>3 DEF IInv, LogInv, NoZombieLog
<1> QED
  BY <1>3, <1>4

LEMMA TransportStep ==
  ASSUME IInv, [Next]_vars
  PROVE  TransportInv'
<1> USE DEF TransportInv
<1>1. TransportInv /\ connects \in Nat
  BY BoundsAssumption DEF IInv, UserInv
<1>2. CASE Connect
  <2>1. stop' \in BOOLEAN
    BY <1>2 DEF Connect
  <2> QED
    BY <1>1, <1>2, <2>1 DEF Connect, controller, link
<1>10. CASE Disconnect
  <2>1. stop' \in BOOLEAN
    BY <1>10 DEF Disconnect
  <2> QED
    BY <1>1, <1>10, <2>1 DEF Disconnect, controller
<1>11. CASE JoinReturns \/ StartLogging \/ QueueMark \/ StopLogging \/ QueueStop
  BY <1>1, <1>11 DEF JoinReturns, StartLogging, QueueMark, StopLogging, QueueStop,
       controller, transport, link
<1>3. ASSUME NEW r \in Ids, TimerFires(r) \/ DurationElapsed(r)
      PROVE  TransportInv'
  BY <1>1, <1>3 DEF TimerFires, DurationElapsed, user, transport, link
<1>4. CASE Handshake \/ FlushOutbound
  BY <1>1, <1>4 DEF Handshake, FlushOutbound, user, controller
<1>5. CASE OpeningFails \/ Leave
  BY <1>1, <1>5 DEF OpeningFails, Leave, Hangup, link
<1>6. CASE Finish \/ Drain
  BY <1>1, <1>6 DEF Finish, Drain, user, controller, link
<1>7. CASE MarkOfNone \/ MarkStartsUsb \/ MarkOpensLog \/ MarkFailsToOpen
             \/ RemoteStarted \/ RemoteStopped \/ RemoteFailed
  BY <1>1, <1>7 DEF MarkOfNone, MarkStartsUsb, MarkOpensLog, MarkFailsToOpen,
       RemoteStarted, RemoteStopped, RemoteFailed, Handle
<1>8. CASE Server
  BY <1>1, <1>8 DEF Server, ServeMark, ServeDuration, ServeFilename, ServeStart,
       ServeStop, Serve, ClientLeft, ConnectionLost, DropClient, ServerDeadline,
       user, controller, transport, link
<1>9. CASE UNCHANGED vars
  BY <1>1, <1>9 DEF vars, user, controller, transport, link
<1> QED
  BY <1>2, <1>3, <1>4, <1>5, <1>6, <1>7, <1>8, <1>9, <1>10, <1>11
     DEF Next, Gui, Timer, Worker

\* The commands of a start fit the server's buffer, and the START among them is
\* the request's own.
LEMMA StartCommandsType ==
  ASSUME IInv, NEW r \in 1..Len(asked)
  PROVE  StartCommands(r) \in Seq({c \in Commands : /\ c.op = "START" => c.for = r
                                                    /\ c.op = "FILENAME" => Fits(c)})
<1> DEFINE Own == {c \in Commands : /\ c.op = "START" => c.for = r
                                    /\ c.op = "FILENAME" => Fits(c)}
           len == asked[r].len
<1>1. /\ r \in Ids /\ r \in 1..MaxStarts /\ MaxStarts \in Nat
      /\ asked[r] \in Asked /\ len \in 0..MaxLength
      /\ ChunkBytes \in Nat \ {0} /\ MaxLength \in Nat
  <2>1. asked[r] \in Asked /\ Len(asked) \in Nat /\ Len(asked) <= MaxStarts
    BY LenProperties, ElementOfSeq DEF IInv, UserInv
  <2>2. /\ MaxStarts \in Nat /\ ChunkBytes \in Nat \ {0} /\ MaxLength \in Nat
        /\ \A n \in NameLengths : n \in Nat /\ n <= MaxLength
    BY BoundsAssumption, LongestName
  <2>3. len \in 0..MaxLength
    BY <2>1, <2>2 DEF Asked
  <2> QED
    BY <2>1, <2>2, <2>3 DEF Ids
<1>2. len \div ChunkBytes \in 0..MaxLength
  BY <1>1
<1>3. ASSUME NEW k \in 1..(len \div ChunkBytes) + 1
      PROVE  [op |-> "FILENAME", at |-> k - 1, bytes |-> Chunk(r, k - 1)] \in Own
  <2>1. Chunk(r, k - 1) \in [1..ChunkBytes -> 0..MaxStarts]
    BY <1>1 DEF Chunk
  <2>2. k - 1 \in 0..MaxLength
    BY <1>1, <1>2
  <2>3. \A j \in 1..ChunkBytes :
          Chunk(r, k - 1)[j] # 0 => (k - 1) * ChunkBytes + j <= MaxLength
    BY <1>1, <2>2 DEF Chunk
  <2> QED
    BY <2>1, <2>2, <2>3 DEF Commands, Fits
<1>4. FilenameCommands(r) \in Seq(Own)
  <2> DEFINE n == (len \div ChunkBytes) + 1
             command(k) == [op |-> "FILENAME", at |-> k - 1, bytes |-> Chunk(r, k - 1)]
  <2>1. n \in Nat
    BY <1>1, <1>2
  <2>2. FilenameCommands(r) = [k \in 1..n |-> command(k)]
    BY Zenon DEF FilenameCommands
  <2>3. \A k \in 1..n : command(k) \in Own
    BY <1>3
  <2> HIDE DEF n, command, Own
  <2> QED
    BY <2>1, <2>2, <2>3
<1>5. <<[op |-> "DURATION", timed |-> asked[r].timed]>> \in Seq(Own)
  BY <1>1 DEF Commands, Asked
<1>6. <<[op |-> "START", for |-> r]>> \in Seq(Own)
  BY <1>1 DEF Commands
<1> QED
  BY <1>4, <1>5, <1>6, ConcatProperties DEF StartCommands

LEMMA LinkStep ==
  ASSUME IInv, [Next]_vars
  PROVE  LinkInv'
<1> USE DEF user, timers, logs, controller, transport, link, server, vars
<1>1. /\ Len(asked) \in Nat /\ Len(asked) <= MaxStarts /\ MaxStarts \in Nat
      /\ pending \in Seq(0..Len(asked)) /\ Len(pending) \in Nat
  BY BoundsAssumption, LenProperties DEF IInv, UserInv, PendingInv
<1>2. Outbound \subseteq Outbound' /\ Inbound \subseteq Inbound'
  BY StepShape, SettledStays DEF Outbound, Inbound, Fits
<1>3. /\ queue \in Seq(Outbound') /\ wire \in Seq(Outbound')
      /\ wire \in Seq(Outbound) /\ queue \in Seq(Outbound) /\ answers \in Seq(Inbound')
  BY <1>2, SeqMonotonic DEF IInv, LinkInv
<1>4. queue' \in Seq(Outbound')
  <2>1. CASE QueueMark
    <3>1. Len(asked) \in Ids
      BY <1>1, <2>1, EmptySeq DEF QueueMark, IInv, UserInv, Ids
    <3>2. [op |-> "MARK", for |-> Len(asked)] \in Outbound'
      BY <3>1 DEF Outbound, Commands
    <3> QED
      BY <1>3, <2>1, <3>2, AppendProperties DEF QueueMark
  <2>2. CASE QueueStop
    <3>1. [op |-> "STOP"] \in Outbound'
      BY DEF Outbound, Commands
    <3> QED
      BY <1>3, <2>2, <3>1, AppendProperties DEF QueueStop
  <2>3. CASE MarkStartsUsb
    <3>1. /\ Popped # 0 /\ pending # <<>> /\ pending' = Tail(pending)
          /\ queue' = queue \o StartCommands(Popped) /\ UNCHANGED asked
      BY <2>3 DEF MarkStartsUsb, Handle, PopPending, Popped
    <3>2. Popped = pending[1] /\ Popped \in 1..Len(asked) /\ Len(pending) >= 1
      BY <1>1, <3>1, EmptySeq, ElementOfSeq DEF Popped
    <3>3. \A j \in 1..Len(pending) : j # 1 => pending[j] = 0
      BY <1>1, <3>1, <3>2 DEF IInv, PendingInv
    <3>4. PICK r \in 1..Len(asked) : r = Popped
      BY <3>2
    <3>5. Settled(r)'
      <4>1. /\ Len(pending') = Len(pending) - 1
            /\ \A i \in 1..Len(pending') : pending'[i] = pending[i + 1]
        BY <1>1, <3>1, HeadTailProperties
      <4>2. ASSUME NEW i \in 1..Len(pending') PROVE pending'[i] = 0
        <5>1. i + 1 \in 1..Len(pending) /\ i + 1 # 1
          BY <1>1, <3>2, <4>1
        <5> QED
          BY <3>3, <4>1, <5>1
      <4> QED
        BY <3>1, <4>2 DEF Settled
    <3>6. {c \in Commands : /\ c.op = "START" => c.for = r
                            /\ c.op = "FILENAME" => Fits(c)} \subseteq Outbound'
      BY <3>5 DEF Outbound, Fits
    <3>7. StartCommands(r) \in Seq(Outbound)'
      BY <3>1, <3>6, StartCommandsType, SeqMonotonic
    <3> QED
      BY <1>3, <3>1, <3>4, <3>7, ConcatProperties
  <2>4. CASE UNCHANGED queue \/ (queue # <<>> /\ queue' = Tail(queue))
    BY <1>3, <2>4, HeadTailProperties
  <2> QED
    BY <2>1, <2>2, <2>3, <2>4, Writers
<1>5. wire' \in Seq(Outbound')
  <2>1. CASE FlushOutbound
    <3>1. queue # <<>> /\ wire' \in {wire, Append(wire, Head(queue))}
      BY <2>1 DEF FlushOutbound
    <3>2. Head(queue) \in Outbound'
      BY <1>3, <3>1, HeadTailProperties
    <3>3. Append(wire, Head(queue)) \in Seq(Outbound')
      BY <1>3, <3>2, AppendProperties
    <3> QED
      BY <1>3, <3>1, <3>3
  <2>2. CASE UNCHANGED wire \/ wire' = <<>> \/ (wire # <<>> /\ wire' = Tail(wire))
    BY <1>3, <2>2, HeadTailProperties, EmptySeq
  <2> QED
    BY <2>1, <2>2, Writers
<1>6. answers' \in Seq(Inbound')
  <2>1. CASE ServeMark \/ ServeStart \/ ServeStop
    <3>1. PICK kind \in {"ACK", "ERROR"}, op \in {"MARK", "START", "STOP"},
               r \in {0, Head(wire).for} :
            /\ wire # <<>> /\ Answer(kind, op, r) /\ Head(wire).op = op
            /\ op # "STOP" => r = Head(wire).for
            /\ op = "STOP" => r = 0
      BY <2>1 DEF ServeMark, ServeStart, ServeStop, Serve
    <3>2. Head(wire) \in Outbound'
      BY <1>3, <3>1, HeadTailProperties
    <3>3. [kind |-> kind, op |-> op, for |-> r] \in Inbound'
      BY <1>1, <3>1, <3>2 DEF Outbound, Inbound, Answers, Commands, Ids
    <3> QED
      BY <1>3, <3>1, <3>3, AppendProperties DEF Answer
  <2>2. CASE \/ UNCHANGED answers \/ answers' = <<>>
             \/ (answers # <<>> /\ answers' = Tail(answers))
    BY <1>3, <2>2, HeadTailProperties, EmptySeq
  <2> QED
    BY <2>1, <2>2, Writers
<1> QED
  BY <1>4, <1>5, <1>6 DEF LinkInv

LEMMA NameStep ==
  ASSUME IInv, [Next]_vars
  PROVE  NameInv'
<1>1. MaxLength \in Nat \ {0} /\ ChunkBytes \in Nat /\ MaxStarts \in Nat
  BY LongestName, BoundsAssumption
<1>2. nameBuf \in [1..MaxLength + 1 -> Nat] /\ nameBuf[MaxLength + 1] = 0
  BY DEF IInv, NameInv
<1>3. CASE ServeFilename
  <2> DEFINE at == Head(wire).at * ChunkBytes
             bytes == Head(wire).bytes
             old == IF at = 0 THEN [nameBuf EXCEPT ![1] = 0] ELSE nameBuf
  <2>1. nameBuf' = [i \in DOMAIN old |->
                      IF i - at \in DOMAIN bytes /\ bytes[i - at] # 0
                        THEN bytes[i - at] ELSE old[i]]
    BY <1>3 DEF ServeFilename
  <2>2. Head(wire) \in Outbound /\ Head(wire).op = "FILENAME"
    BY <1>3, HeadTailProperties DEF ServeFilename, Serve, IInv, LinkInv
  <2>3. /\ Head(wire).at \in Nat /\ bytes \in [1..ChunkBytes -> 0..MaxStarts]
        /\ \A j \in 1..ChunkBytes : bytes[j] # 0 => at + j <= MaxLength
    BY <1>1, <2>2 DEF Outbound, Commands, Fits
  <2>4. at \in Nat
    BY <1>1, <2>3
  <2>5. old \in [1..MaxLength + 1 -> Nat] /\ old[MaxLength + 1] = 0
    BY <1>1, <1>2
  <2> HIDE DEF at, bytes, old
  <2>6. nameBuf' \in [1..MaxLength + 1 -> Nat]
    BY <1>1, <2>1, <2>3, <2>5
  <2>7. nameBuf'[MaxLength + 1] = 0
    BY <1>1, <2>1, <2>3, <2>4, <2>5
  <2> QED
    BY <2>6, <2>7 DEF NameInv
<1>4. CASE ServeStart
  BY <1>1, <1>2, <1>4 DEF ServeStart, ClearFilename, NameInv
<1>5. CASE UNCHANGED nameBuf
  BY <1>5 DEF NameInv, IInv
<1> QED
  BY <1>3, <1>4, <1>5, Writers

-----------------------------------------------------------------------------

LEMMA InitInv == Init => IInv
<1> SUFFICES ASSUME Init PROVE IInv
  OBVIOUS
<1>1. MaxLength \in Nat /\ MaxStarts \in Nat /\ MaxConnects \in Nat
  BY LongestName, BoundsAssumption
<1>2. UserInv
  BY <1>1, EmptySeq DEF Init, UserInv
<1>3. PendingInv
  BY <1>1, EmptySeq DEF Init, PendingInv
<1>7. LogInv
  <2>1. /\ Len(asked) = 0 /\ logger = 0 /\ dest = "local" /\ deadline = FALSE
        /\ timer = 0 /\ armed = {} /\ fired = {}
    BY EmptySeq DEF Init
  <2>2. deadline \in BOOLEAN
    BY <2>1
  <2> QED
    BY <2>1, <2>2 DEF LogInv, NoZombieLog
<1>4. TransportInv
  <2>1. connected \in BOOLEAN /\ stop \in BOOLEAN
    BY DEF Init
  <2> QED
    BY <2>1 DEF Init, TransportInv
<1>5. LinkInv
  BY EmptySeq DEF Init, LinkInv
<1>6. NameInv
  BY <1>1 DEF Init, NameInv
<1> QED
  BY <1>2, <1>3, <1>4, <1>5, <1>6, <1>7 DEF IInv

LEMMA StepInv == IInv /\ [Next]_vars => IInv'
BY UserStep, StepShape, PendingStep, LogStep, TransportStep, LinkStep, NameStep DEF IInv

LEMMA Invariance == Spec => []IInv
<1>1. Init => IInv
  BY InitInv
<1>2. IInv /\ [Next]_vars => IInv'
  BY StepInv
<1> QED
  BY <1>1, <1>2, PTL DEF Spec

LEMMA InvTypes == IInv => TypeOK
<1> SUFFICES ASSUME IInv PROVE TypeOK
  OBVIOUS
<1>1. queue \in Seq(Commands) /\ wire \in Seq(Commands)
  <2>1. Outbound \subseteq Commands
    BY DEF Outbound
  <2> QED
    BY <2>1, SeqMonotonic DEF IInv, LinkInv
<1>2. draining \in 0..MaxConnects
  BY BoundsAssumption DEF IInv, UserInv, TransportInv
<1> QED
  BY <1>1, <1>2 DEF IInv, UserInv, PendingInv, LogInv, TransportInv, NameInv, TypeOK

\* Every variable holds what the code can put in it: no request is known that
\* was not made, no more threads empty the queue than connects were made, and
\* the server's name buffer always ends in a NUL, whatever chunks arrive.
THEOREM TypeCorrect == Spec => []TypeOK
BY Invariance, InvTypes, PTL

\* The CSV file that is open is that of the last start, and that start was not
\* stopped, timed out, failed or cut off since.
THEOREM NoLogOutlivesItsRequest == Spec => []NoZombieLog
<1>1. IInv => NoZombieLog
  BY DEF IInv, LogInv
<1> QED
  BY <1>1, Invariance, PTL


-----------------------------------------------------------------------------
(* Induction, over numbers and over sequences.                               *)

\* A set of numbers that is not empty has a least one.
LEMMA LeastNumber ==
  ASSUME NEW T \in SUBSET Nat, T # {}
  PROVE  \E x \in T : \A y \in T : x <= y
<1> DEFINE R == OpToRel(<, Nat)
<1>1. R = {ss \in Nat \X Nat : ss[1] < ss[2]}
  BY DEF OpToRel
<1>2. IsWellFoundedOn(R, Nat)
  BY NatLessThanWellFounded
<1> HIDE DEF R
<1>3. PICK x \in T : \A y \in T : ~ (<<y, x>> \in R)
  BY <1>2, WFMin
<1>4. ASSUME NEW y \in T PROVE x <= y
  <2>1. <<y, x>> \in Nat \X Nat /\ <<y, x>> \notin R /\ x \in Nat /\ y \in Nat
    BY <1>3
  <2>2. ~ (y < x)
    BY <1>1, <2>1
  <2> QED
    BY <2>1, <2>2
<1> QED
  BY <1>4

\* Induction, of a set: what holds of all numbers is the set of the numbers it
\* holds of.
LEMMA EveryNumber ==
  ASSUME NEW S, 0 \in S, \A n \in Nat : n \in S => n + 1 \in S
  PROVE  \A n \in Nat : n \in S
<1> DEFINE T == Nat \ S
<1> SUFFICES ASSUME T # {} PROVE FALSE
  OBVIOUS
<1>1. PICK x \in T : \A y \in T : x <= y
  BY LeastNumber
<1>2. x - 1 \in Nat /\ x - 1 \notin T
  BY <1>1
<1> QED
  BY <1>1, <1>2

\* The recursion of FlattenSeq: f gives the first i members of s in one piece.
Flattens(f, s, n) ==
  f = [i \in 1 .. n |-> IF i = 1 THEN s[i] ELSE f[i - 1] \o s[i]]

LEMMA FlattenExists ==
  ASSUME NEW s
  PROVE  \A n \in Nat : \E f : Flattens(f, s, n)
<1> DEFINE S == {n \in Nat : \E f : Flattens(f, s, n)}
<1>1. 0 \in S
  <2>1. Flattens([i \in 1 .. 0 |-> i], s, 0)
    BY DEF Flattens
  <2> QED
    BY <2>1
<1>2. ASSUME NEW n \in Nat, n \in S PROVE n + 1 \in S
  <2>1. PICK f : Flattens(f, s, n)
    BY <1>2
  <2> DEFINE g == [i \in 1 .. n + 1 |->
                     IF i <= n THEN f[i] ELSE IF i = 1 THEN s[i] ELSE f[i - 1] \o s[i]]
  <2>2. ASSUME NEW i \in 1 .. n + 1
        PROVE  g[i] = IF i = 1 THEN s[i] ELSE g[i - 1] \o s[i]
    <3>1. CASE i <= n
      <4>1. i \in 1 .. n /\ g[i] = f[i]
        BY <3>1
      <4>2. f[i] = IF i = 1 THEN s[i] ELSE f[i - 1] \o s[i]
        BY <2>1, <4>1 DEF Flattens
      <4>3. i # 1 => g[i - 1] = f[i - 1]
        BY <3>1
      <4> HIDE DEF g
      <4> QED
        BY <4>1, <4>2, <4>3
    <3>2. CASE i > n
      <4>1. i = n + 1 /\ ~(i <= n)
        BY <3>2
      <4>2. g[i] = IF i = 1 THEN s[i] ELSE f[i - 1] \o s[i]
        BY <4>1
      <4>3. i # 1 => g[i - 1] = f[i - 1]
        BY <4>1
      <4> HIDE DEF g
      <4> QED
        BY <4>2, <4>3
    <3> QED
      BY <3>1, <3>2
  <2>3. Flattens(g, s, n + 1)
    <3>1. g = [i \in 1 .. n + 1 |-> g[i]]
      OBVIOUS
    <3> HIDE DEF g
    <3> QED
      BY <2>2, <3>1 DEF Flattens
  <2>4. n + 1 \in Nat
    OBVIOUS
  <2> HIDE DEF g
  <2> QED
    BY <2>3, <2>4
<1> HIDE DEF S
<1>3. \A n \in Nat : n \in S
  BY <1>1, <1>2, EveryNumber
<1> QED
  BY <1>3 DEF S

\* What it gives depends on nothing but those members.
LEMMA FlattenAgree ==
  ASSUME NEW s, NEW t, NEW f, NEW g, NEW m \in Nat, NEW n \in Nat, n <= m,
         Flattens(f, s, m), Flattens(g, t, n),
         \A i \in 1 .. n : s[i] = t[i]
  PROVE  n # 0 => f[n] = g[n]
<1> DEFINE S == {i \in Nat : i \in 1 .. n => f[i] = g[i]}
<1>1. 0 \in S
  OBVIOUS
<1>2. ASSUME NEW i \in Nat, i \in S PROVE i + 1 \in S
  <2> SUFFICES ASSUME i + 1 \in 1 .. n PROVE f[i + 1] = g[i + 1]
    OBVIOUS
  <2>1. i + 1 \in 1 .. m /\ i + 1 \in 1 .. n /\ s[i + 1] = t[i + 1] /\ (i + 1) - 1 = i
    OBVIOUS
  <2>2. f[i + 1] = IF i + 1 = 1 THEN s[i + 1] ELSE f[(i + 1) - 1] \o s[i + 1]
    BY <2>1 DEF Flattens
  <2>3. g[i + 1] = IF i + 1 = 1 THEN t[i + 1] ELSE g[(i + 1) - 1] \o t[i + 1]
    BY <2>1 DEF Flattens
  <2>4. i + 1 # 1 => f[i] = g[i]
    BY <1>2
  <2> QED
    BY <2>1, <2>2, <2>3, <2>4
<1> HIDE DEF S
<1>3. \A i \in Nat : i \in S
  BY <1>1, <1>2, EveryNumber
<1> QED
  BY <1>3 DEF S

LEMMA FlattenIs ==
  ASSUME NEW T, NEW s \in Seq(T), s # <<>>
  PROVE  \E f : Flattens(f, s, Len(s)) /\ FlattenSeq(s) = f[Len(s)]
<1>1. Len(s) \in Nat /\ Len(s) # 0
  OBVIOUS
<1> DEFINE g == CHOOSE f : Flattens(f, s, Len(s))
<1>2. Flattens(g, s, Len(s))
  BY <1>1, FlattenExists
<1>3. FlattenSeq(s) = g[Len(s)]
  BY <1>1 DEF FlattenSeq, Flattens
<1> QED
  BY <1>2, <1>3

LEMMA FlattenEmpty == FlattenSeq(<<>>) = <<>>
BY DEF FlattenSeq

\* One more member is one more piece at the end.
LEMMA FlattenAppend ==
  ASSUME NEW T, NEW s \in Seq(Seq(T)), NEW x \in Seq(T)
  PROVE  FlattenSeq(Append(s, x)) = FlattenSeq(s) \o x
<1> DEFINE t == Append(s, x)
           n == Len(s)
<1>1. /\ t \in Seq(Seq(T)) /\ t # <<>> /\ Len(t) = n + 1 /\ n \in Nat
      /\ t[n + 1] = x /\ \A i \in 1 .. n : t[i] = s[i]
  BY AppendProperties, LenProperties
<1> HIDE DEF t
<1>2. PICK g : Flattens(g, t, n + 1) /\ FlattenSeq(t) = g[n + 1]
  BY <1>1, FlattenIs
<1>3. g[n + 1] = IF n + 1 = 1 THEN x ELSE g[n] \o x
  <2>1. n + 1 \in 1 .. n + 1 /\ (n + 1) - 1 = n
    BY <1>1
  <2> HIDE DEF n
  <2>2. g[n + 1] = IF n + 1 = 1 THEN t[n + 1] ELSE g[(n + 1) - 1] \o t[n + 1]
    BY <1>2, <2>1 DEF Flattens
  <2> QED
    BY <1>1, <2>1, <2>2
<1>4. CASE s = <<>>
  <2>1. n = 0 /\ FlattenSeq(s) = <<>> /\ <<>> \o x = x
    BY <1>4, FlattenEmpty, ConcatEmptySeq
  <2> QED
    BY <1>2, <1>3, <2>1 DEF t
<1>5. CASE s # <<>>
  <2>1. n # 0
    BY <1>5
  <2>2. PICK f : Flattens(f, s, n) /\ FlattenSeq(s) = f[n]
    BY <1>5, FlattenIs
  <2> HIDE DEF n
  <2>3. g[n] = f[n]
    <3>1. n \in Nat /\ n + 1 \in Nat /\ n <= n + 1 /\ \A i \in 1 .. n : t[i] = s[i]
      BY <1>1
    <3>2. Flattens(g, t, n + 1) /\ Flattens(f, s, n)
      BY <1>2, <2>2
    <3>3. n # 0 => g[n] = f[n]
      BY <3>1, <3>2, FlattenAgree
    <3> QED
      BY <2>1, <3>3
  <2>4. n + 1 # 1
    BY <1>1, <2>1
  <2> QED
    BY <1>2, <1>3, <2>2, <2>3, <2>4 DEF t
<1> QED
  BY <1>4, <1>5

\* Induction over sequences, of a set of them.
LEMMA EverySequence ==
  ASSUME NEW R, NEW P, <<>> \in P,
         \A s \in Seq(R), x \in R : s \in P => Append(s, x) \in P
  PROVE  \A s \in Seq(R) : s \in P
<1> DEFINE S == {n \in Nat : \A s \in Seq(R) : Len(s) = n => s \in P}
<1>1. 0 \in S
  <2>1. \A s \in Seq(R) : Len(s) = 0 => s = <<>>
    BY EmptySeq
  <2> QED
    BY <2>1
<1>2. ASSUME NEW n \in Nat, n \in S PROVE n + 1 \in S
  <2> SUFFICES ASSUME NEW t \in Seq(R), Len(t) = n + 1 PROVE t \in P
    OBVIOUS
  <2> DEFINE u == SubSeq(t, 1, n)
             x == t[n + 1]
  <2>1. u \in Seq(R) /\ Len(u) = n /\ \A i \in 1 .. n : u[i] = t[i]
    BY SubSeqProperties
  <2>2. x \in R
    BY ElementOfSeq
  <2> HIDE DEF u
  <2>3. /\ Append(u, x) \in Seq(R) /\ Len(Append(u, x)) = n + 1
        /\ \A i \in 1 .. n + 1 : Append(u, x)[i] = t[i]
    BY <2>1, <2>2, AppendProperties
  <2>4. t = Append(u, x)
    BY <2>1, <2>2, <2>3, SeqEqual
  <2>5. u \in P
    BY <1>2, <2>1
  <2> QED
    BY <2>1, <2>2, <2>4, <2>5
<1> HIDE DEF S
<1>3. \A n \in Nat : n \in S
  BY <1>1, <1>2, EveryNumber
<1> QED
  BY <1>3, LenProperties DEF S

LEMMA FlattenType ==
  ASSUME NEW T, NEW s \in Seq(Seq(T))
  PROVE  FlattenSeq(s) \in Seq(T)
<1> DEFINE P == {u \in Seq(Seq(T)) : FlattenSeq(u) \in Seq(T)}
<1>1. <<>> \in P
  <2>1. <<>> \in Seq(Seq(T)) /\ <<>> \in Seq(T)
    BY EmptySeq
  <2> QED
    BY <2>1, FlattenEmpty
<1>2. ASSUME NEW u \in Seq(Seq(T)), NEW x \in Seq(T), u \in P PROVE Append(u, x) \in P
  <2>1. FlattenSeq(u) \in Seq(T)
    BY <1>2
  <2>2. FlattenSeq(Append(u, x)) = FlattenSeq(u) \o x
    BY FlattenAppend
  <2>3. FlattenSeq(u) \o x \in Seq(T)
    BY <2>1, ConcatProperties
  <2>4. Append(u, x) \in Seq(Seq(T))
    BY AppendProperties
  <2> QED
    BY <2>2, <2>3, <2>4
<1> HIDE DEF P
<1>3. s \in P
  BY <1>1, <1>2, EverySequence
<1> QED
  BY <1>3 DEF P

LEMMA ConcatAppend ==
  ASSUME NEW T, NEW s \in Seq(T), NEW v \in Seq(T), NEW x \in T
  PROVE  s \o Append(v, x) = Append(s \o v, x) /\ s \o v \in Seq(T)
<1> DEFINE y == <<x>>
<1>1. y \in Seq(T) /\ Append(v, x) = v \o y
  BY AppendIsConcat
<1>2. s \o v \in Seq(T)
  BY ConcatProperties
<1>3. Append(s \o v, x) = (s \o v) \o y
  BY <1>2, AppendIsConcat
<1> HIDE DEF y
<1>4. (s \o v) \o y = s \o (v \o y)
  BY <1>1, ConcatAssociative
<1> QED
  BY <1>1, <1>2, <1>3, <1>4

\* One step of the next lemma.
LEMMA FlattenConcatAppend ==
  ASSUME NEW T, NEW s \in Seq(Seq(T)), NEW v \in Seq(Seq(T)), NEW x \in Seq(T),
         FlattenSeq(s \o v) = FlattenSeq(s) \o FlattenSeq(v)
  PROVE  FlattenSeq(s \o Append(v, x)) = FlattenSeq(s) \o FlattenSeq(Append(v, x))
<1> DEFINE fs == FlattenSeq(s)
           fv == FlattenSeq(v)
<1>1. s \o Append(v, x) = Append(s \o v, x) /\ s \o v \in Seq(Seq(T))
  BY ConcatAppend
<1>2. FlattenSeq(Append(s \o v, x)) = FlattenSeq(s \o v) \o x
  BY <1>1, FlattenAppend
<1>3. FlattenSeq(Append(v, x)) = fv \o x
  BY FlattenAppend
<1>4. fs \in Seq(T) /\ fv \in Seq(T)
  BY FlattenType
<1> HIDE DEF fs, fv
<1>5. (fs \o fv) \o x = fs \o (fv \o x)
  BY <1>4, ConcatAssociative, SMTT(60)
<1> QED
  BY <1>1, <1>2, <1>3, <1>5 DEF fs, fv

\* Sequences put together flatten to what they flatten to, put together.
LEMMA FlattenConcat ==
  ASSUME NEW T, NEW s \in Seq(Seq(T)), NEW t \in Seq(Seq(T))
  PROVE  FlattenSeq(s \o t) = FlattenSeq(s) \o FlattenSeq(t)
<1> DEFINE P == {u \in Seq(Seq(T)) : FlattenSeq(s \o u) = FlattenSeq(s) \o FlattenSeq(u)}
<1>1. <<>> \in P
  <2>1. s \o <<>> = s /\ FlattenSeq(s) \o <<>> = FlattenSeq(s)
    BY ConcatEmptySeq, FlattenType
  <2>2. <<>> \in Seq(Seq(T))
    BY EmptySeq
  <2> QED
    BY <2>1, <2>2, FlattenEmpty
<1>2. ASSUME NEW u \in Seq(Seq(T)), NEW x \in Seq(T), u \in P PROVE Append(u, x) \in P
  <2>1. FlattenSeq(s \o u) = FlattenSeq(s) \o FlattenSeq(u)
    BY <1>2
  <2>2. Append(u, x) \in Seq(Seq(T))
    BY AppendProperties
  <2>3. FlattenSeq(s \o Append(u, x)) = FlattenSeq(s) \o FlattenSeq(Append(u, x))
    BY <2>1, FlattenConcatAppend
  <2> QED
    BY <2>2, <2>3
<1> HIDE DEF P
<1>3. t \in P
  BY <1>1, <1>2, EverySequence
<1> QED
  BY <1>3 DEF P

LEMMA FlattenOne ==
  ASSUME NEW T, NEW x \in Seq(T)
  PROVE  FlattenSeq(<<x>>) = x
<1>1. <<>> \in Seq(Seq(T)) /\ Append(<<>>, x) = <<x>>
  OBVIOUS
<1>2. FlattenSeq(<<x>>) = <<>> \o x
  BY <1>1, FlattenAppend, FlattenEmpty
<1> QED
  BY <1>2, ConcatEmptySeq

\* What f gives for each member of a sequence, put together.
Mapped(f, s) == [i \in DOMAIN s |-> f[s[i]]]
FlatMap(f, s) == FlattenSeq(Mapped(f, s))
Maps(f, M, R) == \A m \in M : f[m] \in R

LEMMA MappedType ==
  ASSUME NEW M, NEW R, NEW f, Maps(f, M, R), NEW u \in Seq(M)
  PROVE  /\ Mapped(f, u) \in Seq(R) /\ Len(Mapped(f, u)) = Len(u)
         /\ \A i \in 1 .. Len(u) : Mapped(f, u)[i] = f[u[i]]
<1>1. \A i \in 1 .. Len(u) : u[i] \in M /\ f[u[i]] \in R
  BY ElementOfSeq DEF Maps
<1>2. DOMAIN u = 1 .. Len(u) /\ Len(u) \in Nat
  BY LenProperties
<1> QED
  BY <1>1, <1>2 DEF Mapped

LEMMA MappedConcat ==
  ASSUME NEW M, NEW R, NEW f, Maps(f, M, R), NEW s \in Seq(M), NEW t \in Seq(M)
  PROVE  Mapped(f, s \o t) = Mapped(f, s) \o Mapped(f, t)
<1>1. ASSUME NEW u \in Seq(M)
      PROVE  /\ Mapped(f, u) \in Seq(R) /\ Len(Mapped(f, u)) = Len(u)
             /\ \A i \in 1 .. Len(u) : Mapped(f, u)[i] = f[u[i]]
  BY MappedType
<1>2. /\ s \o t \in Seq(M) /\ Len(s \o t) = Len(s) + Len(t)
      /\ \A i \in 1 .. Len(s) + Len(t) : (s \o t)[i] =
           IF i <= Len(s) THEN s[i] ELSE t[i - Len(s)]
  BY ConcatProperties
<1>3. Len(s) \in Nat /\ Len(t) \in Nat
  OBVIOUS
<1> DEFINE a == Mapped(f, s)
           b == Mapped(f, t)
           c == Mapped(f, s \o t)
<1>4. /\ a \in Seq(R) /\ Len(a) = Len(s) /\ \A i \in 1 .. Len(s) : a[i] = f[s[i]]
      /\ b \in Seq(R) /\ Len(b) = Len(t) /\ \A i \in 1 .. Len(t) : b[i] = f[t[i]]
  BY <1>1
<1>5. /\ c \in Seq(R) /\ Len(c) = Len(s) + Len(t)
      /\ \A i \in 1 .. Len(s) + Len(t) : c[i] = f[(s \o t)[i]]
  BY <1>1, <1>2
<1> HIDE DEF a, b, c
<1>6. /\ a \o b \in Seq(R) /\ Len(a \o b) = Len(a) + Len(b)
      /\ \A i \in 1 .. Len(a) + Len(b) : (a \o b)[i] =
           IF i <= Len(a) THEN a[i] ELSE b[i - Len(a)]
  <2>1. a \in Seq(R) /\ b \in Seq(R)
    BY <1>4
  <2> QED
    BY <2>1, ConcatProperties
<1>7. ASSUME NEW i \in 1 .. Len(c) PROVE c[i] = (a \o b)[i]
  <2>1. CASE i <= Len(s)
    <3>1. (s \o t)[i] = s[i] /\ (a \o b)[i] = a[i] /\ i \in 1 .. Len(s)
      BY <1>2, <1>3, <1>4, <1>5, <1>6, <2>1
    <3> QED
      BY <1>4, <1>5, <3>1
  <2>2. CASE i > Len(s)
    <3>1. /\ (s \o t)[i] = t[i - Len(s)] /\ (a \o b)[i] = b[i - Len(s)]
          /\ i - Len(s) \in 1 .. Len(t)
      BY <1>2, <1>3, <1>4, <1>5, <1>6, <2>2
    <3> QED
      BY <1>4, <1>5, <3>1
  <2>3. i <= Len(s) \/ i > Len(s)
    BY <1>3, <1>5
  <2> QED
    BY <2>1, <2>2, <2>3
<1>8. c = a \o b
  BY <1>4, <1>5, <1>6, <1>7, SeqEqual
<1> QED
  BY <1>8 DEF a, b, c

LEMMA FlatMapConcat ==
  ASSUME NEW M, NEW T, NEW f, Maps(f, M, Seq(T)), NEW s \in Seq(M), NEW t \in Seq(M)
  PROVE  /\ FlatMap(f, s) \in Seq(T)
         /\ FlatMap(f, s \o t) = FlatMap(f, s) \o FlatMap(f, t)
<1>1. /\ Mapped(f, s) \in Seq(Seq(T)) /\ Mapped(f, t) \in Seq(Seq(T))
      /\ Mapped(f, s \o t) = Mapped(f, s) \o Mapped(f, t)
  <2> DEFINE R == Seq(T)
  <2>1. Maps(f, M, R)
    OBVIOUS
  <2> HIDE DEF R
  <2>2. Mapped(f, s \o t) = Mapped(f, s) \o Mapped(f, t)
    BY <2>1, MappedConcat
  <2>3. Mapped(f, s) \in Seq(R) /\ Mapped(f, t) \in Seq(R)
    BY <2>1, MappedType
  <2> QED
    BY <2>2, <2>3 DEF R
<1> QED
  BY <1>1, FlattenType, FlattenConcat DEF FlatMap

LEMMA FlatMapOne ==
  ASSUME NEW M, NEW T, NEW f, Maps(f, M, Seq(T)), NEW m \in M
  PROVE  FlatMap(f, <<m>>) = f[m] /\ FlatMap(f, <<>>) = <<>>
<1>1. Mapped(f, <<m>>) = <<f[m]>> /\ Mapped(f, <<>>) = <<>>
  BY DEF Mapped
<1>2. f[m] \in Seq(T)
  BY DEF Maps
<1> QED
  BY <1>1, <1>2, FlattenOne, FlattenEmpty DEF FlatMap

-----------------------------------------------------------------------------
(* Pieces of a sequence.                                                     *)

Joins(w, x, y) == w = x \o y

\* What is behind a part that both ways to cut a sequence have in common.
LEMMA RestOfConcat ==
  ASSUME NEW S, NEW a \in Seq(S), NEW b \in Seq(S), NEW x \in Seq(S), NEW y \in Seq(S),
         NEW w, Joins(w, x, y), Joins(w, a, b), Len(a) <= Len(x)
  PROVE  /\ Rest(x, Len(a)) \in Seq(S) /\ Joins(b, Rest(x, Len(a)), y)
         /\ \A i \in 1 .. Len(a) : x[i] = a[i]
<1> DEFINE r == Rest(x, Len(a))
<1>1. Len(a) \in Nat /\ Len(b) \in Nat /\ Len(x) \in Nat /\ Len(y) \in Nat
  BY LenProperties
<1>2. /\ r \in Seq(S) /\ Len(r) = Len(x) - Len(a)
      /\ \A i \in 1 .. Len(r) : r[i] = x[Len(a) + i]
  <2>1. \A i \in Len(a) + 1 .. Len(x) : x[i] \in S
    BY <1>1, ElementOfSeq
  <2>2. /\ SubSeq(x, Len(a) + 1, Len(x)) \in Seq(S)
        /\ Len(SubSeq(x, Len(a) + 1, Len(x))) = Len(x) - Len(a)
        /\ \A i \in 1 .. Len(x) - Len(a) :
             SubSeq(x, Len(a) + 1, Len(x))[i] = x[Len(a) + 1 + i - 1]
    BY <1>1, <2>1, SubSeqProperties
  <2>3. \A i \in 1 .. Len(x) - Len(a) : Len(a) + 1 + i - 1 = Len(a) + i
    BY <1>1
  <2> QED
    BY <2>2, <2>3 DEF Rest
<1>3. \A i \in 1 .. Len(a) : x[i] = a[i]
  <2>1. ASSUME NEW i \in 1 .. Len(a) PROVE x[i] = a[i]
    <3>1. (x \o y)[i] = x[i] /\ (a \o b)[i] = a[i]
      BY <1>1, ConcatProperties
    <3> QED
      BY <3>1 DEF Joins
  <2> QED
    BY <2>1
<1> HIDE DEF r
<1>4. /\ r \o y \in Seq(S) /\ Len(r \o y) = Len(r) + Len(y)
      /\ \A i \in 1 .. Len(r) + Len(y) : (r \o y)[i] =
           IF i <= Len(r) THEN r[i] ELSE y[i - Len(r)]
  BY <1>2, ConcatProperties
<1> DEFINE u == x \o y
           v == a \o b
           z == r \o y
<1>5. /\ u = v /\ Len(u) = Len(x) + Len(y) /\ Len(v) = Len(a) + Len(b)
      /\ \A i \in 1 .. Len(x) + Len(y) : u[i] = IF i <= Len(x) THEN x[i] ELSE y[i - Len(x)]
      /\ \A i \in 1 .. Len(a) + Len(b) : v[i] = IF i <= Len(a) THEN a[i] ELSE b[i - Len(a)]
  BY ConcatProperties DEF Joins
<1> HIDE DEF u, v, z
<1>6. Len(z) = Len(b)
  <2>1. Len(z) = Len(r) + Len(y)
    BY <1>4 DEF z
  <2>2. Len(x) + Len(y) = Len(a) + Len(b)
    BY <1>5
  <2> QED
    BY <1>1, <1>2, <2>1, <2>2
<1>7. ASSUME NEW i \in 1 .. Len(b) PROVE z[i] = b[i]
  <2>1. v[Len(a) + i] = b[i]
    <3>1. /\ Len(a) + i \in 1 .. Len(a) + Len(b) /\ ~(Len(a) + i <= Len(a))
          /\ Len(a) + i - Len(a) = i
      BY <1>1
    <3> QED
      BY <1>5, <3>1
  <2>2. Len(a) + i \in 1 .. Len(x) + Len(y) /\ i \in 1 .. Len(r) + Len(y)
    BY <1>1, <1>2, <1>5
  <2>3. z[i] = u[Len(a) + i]
    <3>1. CASE i <= Len(r)
      <4>1. z[i] = r[i]
        BY <1>4, <2>2, <3>1 DEF z
      <4>2. i \in 1 .. Len(r) /\ Len(a) + i <= Len(x)
        BY <1>1, <1>2, <3>1
      <4>3. r[i] = x[Len(a) + i]
        BY <1>2, <4>2
      <4> QED
        BY <1>5, <2>2, <4>1, <4>2, <4>3
    <3>2. CASE ~(i <= Len(r))
      <4>1. z[i] = y[i - Len(r)]
        BY <1>4, <2>2, <3>2 DEF z
      <4>2. ~(Len(a) + i <= Len(x)) /\ Len(a) + i - Len(x) = i - Len(r)
        BY <1>1, <1>2, <3>2
      <4> QED
        BY <1>5, <2>2, <4>1, <4>2
    <3> QED
      BY <3>1, <3>2
  <2> QED
    BY <1>5, <2>1, <2>3
<1>8. r \o y = b
  <2>1. z \in Seq(S)
    BY <1>4 DEF z
  <2>2. z = b
    BY <1>6, <1>7, <2>1, SeqEqual
  <2> QED
    BY <2>2 DEF z
<1> QED
  BY <1>2, <1>3, <1>8 DEF r, Joins

\* A piece that recv has returned and what it has left.
LEMMA PieceAndRest ==
  ASSUME NEW S, NEW s \in Seq(S), NEW n \in 1 .. Len(s)
  PROVE  /\ SubSeq(s, 1, n) \in Seq(S) /\ Rest(s, n) \in Seq(S)
         /\ SubSeq(s, 1, n) \o Rest(s, n) = s
<1>1. Len(s) \in Nat /\ \A i \in 1 .. Len(s) : s[i] \in S
  BY LenProperties, ElementOfSeq
<1>2. SubSeq(s, 1, n) \in Seq(S) /\ SubSeq(s, n + 1, Len(s)) \in Seq(S)
  BY <1>1, SubSeqProperties
<1>3. SubSeq(s, 1, n) \o SubSeq(s, n + 1, Len(s)) = SubSeq(s, 1, Len(s))
  BY <1>1, ConcatAdjacentSubSeq
<1> QED
  BY <1>2, <1>3, SubSeqFull DEF Rest

-----------------------------------------------------------------------------
(* Messages and their bytes.                                                 *)

StreamFrames == [at : Int, ch1 : 0 .. 1]

\* What the server sends after its line, and what the controller is handed.
Sendable ==
  {m \in [type : {"BULK", "SAMPLE", "ACK"}, demod : BOOLEAN, frames : Seq(StreamFrames)] :
     m.type = "SAMPLE" => Len(m.frames) = 1}
Parsed == {m \in Sendable : m.type # "BULK"}

AnyMessage == Sendable \cup {Line}
StreamBytes == [of : AnyMessage, part : Nat]

LEMMA SizeIs ==
  ASSUME NEW m \in Sendable
  PROVE  /\ Size(m) \in Nat /\ Size(m) >= HeaderSize
         /\ Size(m) = IF m.type = "BULK" THEN HeaderSize + FrameSize * Len(m.frames)
                      ELSE HeaderSize
<1>1. HeaderSize \in Nat /\ FrameSize \in Nat
  BY SizesAssumption
<1>2. Size(m) = IF m.type = "BULK" THEN HeaderSize + FrameSize * Len(m.frames)
                ELSE HeaderSize
  BY DEF Size, Sendable
<1>3. Len(m.frames) \in Nat
  BY LenProperties DEF Sendable
<1>4. \A a, b \in Nat : a * b \in Nat
  OBVIOUS
<1>5. FrameSize * Len(m.frames) \in Nat
  BY <1>1, <1>3, <1>4
<1> QED
  BY <1>1, <1>2, <1>5

LEMMA BytesType ==
  ASSUME NEW m \in AnyMessage
  PROVE  /\ Size(m) \in Nat
         /\ Bytes(m) \in Seq(StreamBytes) /\ Len(Bytes(m)) = Size(m)
         /\ \A i \in 1 .. Size(m) : Bytes(m)[i] = [of |-> m, part |-> i]
<1>1. Size(m) \in Nat
  <2>1. m = Line => Size(m) \in Nat
    BY SizesAssumption DEF Size, Line
  <2> QED
    BY <2>1, SizeIs DEF AnyMessage
<1>2. \A i \in 1 .. Size(m) : [of |-> m, part |-> i] \in StreamBytes
  BY <1>1 DEF StreamBytes
<1> HIDE DEF StreamBytes
<1> QED
  BY <1>1, <1>2 DEF Bytes

LEMMA BytesOfType ==
  ASSUME NEW s \in Seq(AnyMessage)
  PROVE  BytesOf(s) \in Seq(StreamBytes)
<1> DEFINE f == [m \in AnyMessage |-> Bytes(m)]
<1>1. Maps(f, AnyMessage, Seq(StreamBytes))
  BY BytesType DEF Maps
<1>2. BytesOf(s) = FlatMap(f, s)
  BY ElementOfSeq, LenProperties DEF BytesOf, FlatMap, Mapped
<1> HIDE DEF f
<1> QED
  BY <1>1, <1>2, FlatMapConcat

LEMMA BytesOfConcat ==
  ASSUME NEW s \in Seq(AnyMessage), NEW t \in Seq(AnyMessage)
  PROVE  BytesOf(s \o t) = BytesOf(s) \o BytesOf(t)
<1> DEFINE f == [m \in AnyMessage |-> Bytes(m)]
<1>1. Maps(f, AnyMessage, Seq(StreamBytes))
  BY BytesType DEF Maps
<1>2. ASSUME NEW u \in Seq(AnyMessage) PROVE BytesOf(u) = FlatMap(f, u)
  BY ElementOfSeq, LenProperties DEF BytesOf, FlatMap, Mapped
<1>3. s \o t \in Seq(AnyMessage)
  BY ConcatProperties
<1> HIDE DEF f
<1>4. FlatMap(f, s \o t) = FlatMap(f, s) \o FlatMap(f, t)
  BY <1>1, FlatMapConcat
<1> QED
  BY <1>2, <1>3, <1>4

LEMMA BytesOfOne ==
  ASSUME NEW m \in AnyMessage
  PROVE  BytesOf(<<m>>) = Bytes(m) /\ BytesOf(<<>>) = <<>>
<1>1. <<Bytes(m)>> = [i \in DOMAIN <<m>> |-> Bytes(<<m>>[i])]
  OBVIOUS
<1>2. <<>> = [i \in DOMAIN <<>> |-> Bytes(<<>>[i])]
  OBVIOUS
<1>3. Bytes(m) \in Seq(StreamBytes)
  BY BytesType
<1> QED
  BY <1>1, <1>2, <1>3, FlattenOne, FlattenEmpty DEF BytesOf

\* What the controller is handed of messages that have arrived.
Given(ms) == FlattenSeq([i \in DOMAIN ms |-> Expand(ms[i])])

LEMMA ExpandType ==
  ASSUME NEW m \in Sendable
  PROVE  /\ Expand(m) \in Seq(Parsed)
         /\ m.type = "BULK" =>
              /\ Len(Expand(m)) = Len(m.frames)
              /\ \A k \in 1 .. Len(m.frames) :
                   /\ m.frames[k] \in StreamFrames
                   /\ Expand(m)[k] = [type |-> "SAMPLE", demod |-> m.demod,
                                      frames |-> <<m.frames[k]>>]
         /\ m.type # "BULK" => m \in Parsed /\ Expand(m) = <<m>>
<1>1. CASE m.type = "BULK"
  <2>1. m.frames \in Seq(StreamFrames) /\ m.demod \in BOOLEAN
    BY DEF Sendable
  <2>2. Len(m.frames) \in Nat /\ \A k \in 1 .. Len(m.frames) : m.frames[k] \in StreamFrames
    BY <2>1, ElementOfSeq, LenProperties
  <2>3. \A k \in 1 .. Len(m.frames) : <<m.frames[k]>> \in Seq(StreamFrames)
    BY <2>2
  <2>4. \A k \in 1 .. Len(m.frames) :
          [type |-> "SAMPLE", demod |-> m.demod, frames |-> <<m.frames[k]>>] \in Parsed
    BY <2>1, <2>3 DEF Parsed, Sendable
  <2>5. Expand(m) = [k \in 1 .. Len(m.frames) |->
                       [type |-> "SAMPLE", demod |-> m.demod, frames |-> <<m.frames[k]>>]]
    BY <1>1 DEF Expand
  <2> HIDE DEF Parsed
  <2> QED
    BY <1>1, <2>2, <2>4, <2>5
<1>2. CASE m.type # "BULK"
  <2>1. m \in Parsed /\ Expand(m) = <<m>>
    BY <1>2 DEF Expand, Parsed
  <2> QED
    BY <1>2, <2>1
<1> QED
  BY <1>1, <1>2

LEMMA GivenConcat ==
  ASSUME NEW s \in Seq(Sendable), NEW t \in Seq(Sendable)
  PROVE  /\ Given(s) \in Seq(Parsed)
         /\ Given(s \o t) = Given(s) \o Given(t)
<1> DEFINE f == [m \in Sendable |-> Expand(m)]
<1>1. Maps(f, Sendable, Seq(Parsed))
  BY ExpandType DEF Maps
<1>2. ASSUME NEW u \in Seq(Sendable) PROVE Given(u) = FlatMap(f, u)
  BY ElementOfSeq, LenProperties DEF Given, FlatMap, Mapped
<1>3. s \o t \in Seq(Sendable)
  BY ConcatProperties
<1> HIDE DEF f
<1>4. FlatMap(f, s) \in Seq(Parsed) /\ FlatMap(f, s \o t) = FlatMap(f, s) \o FlatMap(f, t)
  BY <1>1, FlatMapConcat
<1> QED
  BY <1>2, <1>3, <1>4

LEMMA GivenOne ==
  ASSUME NEW m \in Sendable
  PROVE  Given(<<m>>) = Expand(m) /\ Given(<<>>) = <<>>
<1>1. <<Expand(m)>> = [i \in DOMAIN <<m>> |-> Expand(<<m>>[i])]
  OBVIOUS
<1>2. <<>> = [i \in DOMAIN <<>> |-> Expand(<<>>[i])]
  OBVIOUS
<1>3. Expand(m) \in Seq(Parsed)
  BY ExpandType
<1> QED
  BY <1>1, <1>2, <1>3, FlattenOne, FlattenEmpty DEF Given

LEMMA DivisionIs ==
  ASSUME NEW d \in Nat \ {0}, NEW a \in Int
  PROVE  /\ a % d \in 0 .. d - 1 /\ a \div d \in Int
         /\ a = d * (a \div d) + (a % d)
OBVIOUS

LEMMA QuotientUnique ==
  ASSUME NEW d \in Nat \ {0}, NEW p \in Int, NEW q \in Int,
         NEW r \in 0 .. d - 1, NEW s \in 0 .. d - 1, d * p + r = d * q + s
  PROVE  p = q /\ r = s
<1>1. d * (p - q) = s - r /\ d * (q - p) = r - s
  OBVIOUS
<1>2. \A k \in Int : k >= 1 => d * k >= d
  OBVIOUS
<1>3. ~(p - q >= 1)
  BY <1>1, <1>2
<1>4. ~(q - p >= 1)
  BY <1>1, <1>2
<1>5. p = q
  BY <1>3, <1>4
<1> QED
  BY <1>5

LEMMA DivideBy ==
  ASSUME NEW d \in Nat \ {0}, NEW q \in Int, NEW r \in 0 .. d - 1
  PROVE  (d * q + r) \div d = q /\ (d * q + r) % d = r
<1> DEFINE a == d * q + r
<1>1. a \in Int
  OBVIOUS
<1>2. /\ a % d \in 0 .. d - 1 /\ a \div d \in Int
      /\ a = d * (a \div d) + (a % d)
  BY <1>1, DivisionIs
<1>3. d * q + r = d * (a \div d) + (a % d)
  BY <1>2
<1> HIDE DEF a
<1>4. q = a \div d /\ r = a % d
  BY <1>2, <1>3, QuotientUnique
<1> QED
  BY <1>4 DEF a

\* The place of the frame that begins q frames into the payload.
LEMMA PlaceOfFrame ==
  ASSUME NEW d \in Nat \ {0}, NEW q \in Nat
  PROVE  (q * d) \div d = q
<1>1. 0 \in 0 .. d - 1 /\ q \in Int
  OBVIOUS
<1>2. (d * q + 0) \div d = q
  BY <1>1, DivideBy
<1>3. d * q + 0 = q * d
  OBVIOUS
<1> QED
  BY <1>2, <1>3

\* A frame of the payload lies within the message.
LEMMA FrameFits ==
  ASSUME NEW d \in Nat \ {0}, NEW n \in Nat, NEW k \in 1 .. n
  PROVE  /\ (k - 1) * d \in Nat /\ d * n \in Nat /\ (k - 1) * d + 1 <= d * n
<1>1. (k - 1) * d \in Nat /\ d * n \in Nat
  <2>1. k - 1 \in Nat /\ \A i, j \in Nat : i * j \in Nat
    OBVIOUS
  <2> QED
    BY <2>1
<1>2. \A i \in Nat : i * d >= 0
  OBVIOUS
<1>3. (n - k) * d >= 0 /\ n - k \in Nat
  BY <1>2
<1>4. d * n = (n - k) * d + (k - 1) * d + d
  OBVIOUS
<1> QED
  BY <1>1, <1>3, <1>4

LEMMA FirstMessage ==
  ASSUME NEW M, NEW s \in Seq(M), s # <<>>
  PROVE  Head(s) \in M /\ Tail(s) \in Seq(M) /\ s = <<Head(s)>> \o Tail(s)
<1> DEFINE m == Head(s)
           t == Tail(s)
           u == <<m>> \o t
<1>1. m \in M /\ m = s[1] /\ Len(s) \in Nat /\ Len(s) >= 1
  BY HeadTailProperties, LenProperties, EmptySeq
<1>2. t \in Seq(M) /\ Len(t) = Len(s) - 1 /\ \A i \in 1 .. Len(t) : t[i] = s[i + 1]
  BY HeadTailProperties
<1>3. <<m>> \in Seq(M) /\ Len(<<m>>) = 1 /\ <<m>>[1] = m
  BY <1>1
<1> HIDE DEF t, m
<1>4. /\ u \in Seq(M) /\ Len(u) = 1 + Len(t)
      /\ \A i \in 1 .. 1 + Len(t) : u[i] = IF i <= 1 THEN <<m>>[i] ELSE t[i - 1]
  BY <1>2, <1>3, ConcatProperties
<1> HIDE DEF u
<1>5. ASSUME NEW i \in 1 .. Len(s) PROVE s[i] = u[i]
  <2>1. CASE i = 1
    BY <1>1, <1>2, <1>3, <1>4, <2>1
  <2>2. CASE i # 1
    <3>1. i - 1 \in 1 .. Len(t) /\ (i - 1) + 1 = i /\ ~(i <= 1) /\ i \in 1 .. 1 + Len(t)
      BY <1>1, <1>2, <2>2
    <3> QED
      BY <1>2, <1>4, <3>1
  <2> QED
    BY <2>1, <2>2
<1>6. s = u
  BY <1>1, <1>2, <1>4, <1>5, SeqEqual
<1> QED
  BY <1>1, <1>2, <1>6 DEF u, t, m

LEMMA SendableAreAny ==
  ASSUME NEW s \in Seq(Sendable)
  PROVE  s \in Seq(AnyMessage)
BY SeqMonotonic DEF AnyMessage

\* The first of the bytes that are left belong to the first message that is left.
LEMMA FirstBytes ==
  ASSUME NEW ahead \in Seq(Sendable), NEW b \in Seq(StreamBytes), NEW n \in Seq(StreamBytes),
         b \o n = BytesOf(ahead), b # <<>>
  PROVE  /\ Head(ahead) \in Sendable /\ Tail(ahead) \in Seq(Sendable)
         /\ ahead = <<Head(ahead)>> \o Tail(ahead)
         /\ b \o n = Bytes(Head(ahead)) \o BytesOf(Tail(ahead))
<1>1. ahead # <<>>
  <2>1. b \o n # <<>>
    BY ConcatEqualIffEmpty
  <2>2. Line \in AnyMessage
    BY DEF AnyMessage
  <2>3. BytesOf(<<>>) = <<>>
    BY <2>2, BytesOfOne
  <2> QED
    BY <2>1, <2>3
<1> DEFINE m == Head(ahead)
           t == Tail(ahead)
<1>2. m \in Sendable /\ t \in Seq(Sendable) /\ ahead = <<m>> \o t
  BY <1>1, FirstMessage
<1> HIDE DEF m, t
<1>3. BytesOf(ahead) = Bytes(m) \o BytesOf(t)
  <2>1. m \in AnyMessage /\ t \in Seq(AnyMessage)
    BY <1>2, SendableAreAny DEF AnyMessage
  <2>2. <<m>> \in Seq(AnyMessage)
    BY <2>1
  <2>3. BytesOf(<<m>> \o t) = BytesOf(<<m>>) \o BytesOf(t)
    BY <2>1, <2>2, BytesOfConcat
  <2>4. BytesOf(<<m>>) = Bytes(m)
    BY <2>1, BytesOfOne
  <2> QED
    BY <1>2, <2>3, <2>4
<1> QED
  BY <1>2, <1>3 DEF m, t

LEMMA HeaderIs ==
  ASSUME NEW m, NEW b, \A i \in 1 .. HeaderSize : b[i] = [of |-> m, part |-> i]
  PROVE  Header(b) = m
<1>1. 1 \in 1 .. HeaderSize
  BY SizesAssumption
<1>2. b[1] = [of |-> m, part |-> 1]
  BY <1>1
<1> QED
  BY <1>2 DEF Header

\* The bytes of one message, as the loop of feed finds them.
LEMMA FeedReads ==
  ASSUME NEW m \in Sendable, NEW r \in Seq(StreamBytes),
         NEW b \in Seq(StreamBytes), NEW n \in Seq(StreamBytes),
         NEW w, Joins(w, b, n), Joins(w, Bytes(m), r), Len(b) >= HeaderSize
  PROVE  /\ Header(b) = m
         /\ \A i \in 1 .. Size(m) : i <= Len(b) => b[i] = [of |-> m, part |-> i]
         /\ Len(b) >= Size(m) => /\ Rest(b, Size(m)) \in Seq(StreamBytes)
                                 /\ Joins(r, Rest(b, Size(m)), n)
<1>1. /\ Bytes(m) \in Seq(StreamBytes) /\ Len(Bytes(m)) = Size(m) /\ Size(m) \in Nat
      /\ \A i \in 1 .. Size(m) : Bytes(m)[i] = [of |-> m, part |-> i]
  BY BytesType DEF AnyMessage
<1>2. HeaderSize \in Nat /\ HeaderSize <= Size(m) /\ Len(b) \in Nat /\ Len(n) \in Nat
      /\ Len(r) \in Nat
  BY SizeIs, LenProperties, SizesAssumption
<1>3. ASSUME NEW i \in 1 .. Size(m), i <= Len(b) PROVE b[i] = [of |-> m, part |-> i]
  <2> DEFINE x == Bytes(m)
             u == b \o n
             v == x \o r
  <2>1. /\ u = v
        /\ \A j \in 1 .. Len(b) + Len(n) : u[j] = IF j <= Len(b) THEN b[j] ELSE n[j - Len(b)]
    BY ConcatProperties DEF Joins
  <2> HIDE DEF x
  <2>2. x \in Seq(StreamBytes) /\ Len(x) = Size(m)
    BY <1>1 DEF x
  <2>3. \A j \in 1 .. Len(x) + Len(r) : v[j] = IF j <= Len(x) THEN x[j] ELSE r[j - Len(x)]
    BY <2>2, ConcatProperties
  <2> HIDE DEF u, v
  <2>4. u[i] = b[i]
    <3>1. i \in 1 .. Len(b) + Len(n) /\ i <= Len(b)
      BY <1>1, <1>2, <1>3
    <3> QED
      BY <2>1, <3>1
  <2>5. v[i] = x[i]
    <3>1. i \in 1 .. Len(x) + Len(r) /\ i <= Len(x)
      BY <1>1, <1>2, <2>2
    <3> QED
      BY <2>3, <3>1
  <2> QED
    BY <1>1, <2>1, <2>4, <2>5 DEF x
<1>4. Header(b) = m
  <2>1. ASSUME NEW i \in 1 .. HeaderSize PROVE b[i] = [of |-> m, part |-> i]
    <3>1. i \in 1 .. Size(m) /\ i <= Len(b)
      BY <1>1, <1>2
    <3> QED
      BY <1>3, <3>1
  <2> QED
    BY <2>1, HeaderIs
<1>5. Len(b) >= Size(m) => /\ Rest(b, Size(m)) \in Seq(StreamBytes)
                            /\ Joins(r, Rest(b, Size(m)), n)
  <2> DEFINE x == Bytes(m)
  <2>1. x \in Seq(StreamBytes) /\ Len(x) = Size(m) /\ Joins(w, x, r)
    BY <1>1
  <2> HIDE DEF x
  <2>2. ASSUME Len(b) >= Size(m)
        PROVE  Rest(b, Len(x)) \in Seq(StreamBytes) /\ Joins(r, Rest(b, Len(x)), n)
    <3>1. Len(x) <= Len(b)
      BY <1>1, <1>2, <2>1, <2>2
    <3> QED
      BY <2>1, <3>1, RestOfConcat
  <2> QED
    BY <2>1, <2>2
<1> QED
  BY <1>3, <1>4, <1>5

\* The samples taken out of a bulk message are its frames.
LEMMA BulkRead ==
  ASSUME NEW m \in Sendable, m.type = "BULK", NEW b \in Seq(StreamBytes),
         Size(m) <= Len(b),
         \A i \in 1 .. Size(m) : b[i] = [of |-> m, part |-> i]
  PROVE  BulkSamples(m, SubSeq(b, HeaderSize + 1, Size(m))) = Expand(m)
<1> DEFINE L == Len(m.frames)
           p == SubSeq(b, HeaderSize + 1, Size(m))
<1>1. /\ HeaderSize \in Nat /\ FrameSize \in Nat \ {0} /\ L \in Nat
      /\ Size(m) = HeaderSize + FrameSize * L
  <2>1. L \in Nat
    BY LenProperties DEF Sendable
  <2> QED
    BY <2>1, SizeIs, SizesAssumption
<1> HIDE DEF L
<1>2. ASSUME NEW k \in 1 .. L
      PROVE  LET first == p[(k - 1) * FrameSize + 1]
             IN first.of.frames[(first.part - HeaderSize - 1) \div FrameSize + 1]
                  = m.frames[k]
  <2> DEFINE o == (k - 1) * FrameSize
             first == p[o + 1]
  <2>1. o \in Nat /\ FrameSize * L \in Nat /\ o + 1 <= FrameSize * L
    BY <1>1, FrameFits
  <2>2. o \div FrameSize = k - 1
    <3>1. k - 1 \in Nat
      OBVIOUS
    <3> QED
      BY <1>1, <3>1, PlaceOfFrame
  <2> HIDE DEF o
  <2>3. p[o + 1] = b[HeaderSize + (o + 1)]
    <3>1. Len(b) \in Nat /\ \A i \in 1 .. Len(b) : b[i] \in StreamBytes
      BY LenProperties, ElementOfSeq
    <3> DEFINE h == HeaderSize + 1
               z == Size(m)
    <3>2. h \in Int /\ z \in Int /\ z <= Len(b) /\ \A i \in h .. z : b[i] \in StreamBytes
      BY <1>1, <2>1, <3>1
    <3>3. o + 1 \in 1 .. z - h + 1 /\ h + (o + 1) - 1 = HeaderSize + (o + 1)
      BY <1>1, <2>1
    <3> HIDE DEF h, z
    <3>4. SubSeq(b, h, z)[o + 1] = b[h + (o + 1) - 1]
      BY <3>2, <3>3, SubSeqProperties
    <3> QED
      BY <3>3, <3>4 DEF h, z
  <2>4. HeaderSize + (o + 1) \in 1 .. Size(m)
    BY <1>1, <2>1
  <2>5. first = [of |-> m, part |-> HeaderSize + (o + 1)]
    BY <2>3, <2>4
  <2>6. first.part - HeaderSize - 1 = o /\ first.of = m
    BY <1>1, <2>1, <2>5
  <2> HIDE DEF p
  <2>7. (first.part - HeaderSize - 1) \div FrameSize + 1 = k
    BY <2>2, <2>6
  <2> QED
    BY <2>6, <2>7 DEF o
<1> HIDE DEF p
<1>3. BulkSamples(m, p) = [k \in 1 .. L |->
        [type |-> "SAMPLE", demod |-> m.demod, frames |-> <<m.frames[k]>>]]
  BY <1>2 DEF BulkSamples, L
<1>4. Expand(m) = [k \in 1 .. L |->
        [type |-> "SAMPLE", demod |-> m.demod, frames |-> <<m.frames[k]>>]]
  BY DEF Expand, L
<1> QED
  BY <1>3, <1>4 DEF p

-----------------------------------------------------------------------------
(* The wire.                                                                 *)

StreamTypeOK ==
  /\ marked \in BOOLEAN /\ frames \in Nat /\ newest \in Int
  /\ net \in Seq(StreamBytes) /\ line \in Seq(StreamBytes) /\ ready \in BOOLEAN
  /\ buffer \in Seq(StreamBytes)
  /\ inbox \in Seq(Parsed) /\ got \in Seq(Parsed)
  /\ logging \in BOOLEAN /\ gate \in [have : BOOLEAN, cnt : Nat, ch1 : 0 .. 1]
  /\ rows \in Seq(Nat)

\* Of the messages after the line, those taken out and those still ahead.
Wire(past, ahead) ==
  /\ Joins(sent, <<Line>> \o past, ahead)
  /\ Joins(Given(past), got, inbox)
  /\ ready => Joins(BytesOf(ahead), buffer, net)
  /\ ~ready => past = <<>> /\ Joins(Bytes(Line) \o BytesOf(ahead), line, net)

WireInv == \E past, ahead \in Seq(Sendable) : Wire(past, ahead)

LEMMA JoinLonger ==
  ASSUME NEW T, NEW a \in Seq(T), NEW n \in Seq(T), NEW x \in Seq(T), NEW w, Joins(w, a, n)
  PROVE  Joins(w \o x, a, n \o x)
<1>1. (a \o n) \o x = a \o (n \o x)
  OBVIOUS
<1> QED
  BY <1>1 DEF Joins

LEMMA JoinMoved ==
  ASSUME NEW T, NEW a \in Seq(T), NEW n \in Seq(T), NEW k \in 1 .. Len(n), NEW w, Joins(w, a, n)
  PROVE  /\ a \o SubSeq(n, 1, k) \in Seq(T) /\ Rest(n, k) \in Seq(T)
         /\ Joins(w, a \o SubSeq(n, 1, k), Rest(n, k))
<1> DEFINE x == SubSeq(n, 1, k)
           y == Rest(n, k)
<1>1. x \in Seq(T) /\ y \in Seq(T) /\ x \o y = n
  BY PieceAndRest
<1> HIDE DEF x, y
<1>2. (a \o x) \o y = a \o (x \o y) /\ a \o x \in Seq(T)
  <2>1. x \in Seq(T) /\ y \in Seq(T)
    BY <1>1
  <2>2. (a \o x) \o y = a \o (x \o y)
    BY <2>1, SMTT(60)
  <2>3. a \o x \in Seq(T)
    BY <2>1, ConcatProperties
  <2> QED
    BY <2>2, <2>3
<1>3. Joins(w, a \o x, y)
  BY <1>1, <1>2 DEF Joins
<1> QED
  BY <1>1, <1>2, <1>3 DEF x, y

LEMMA JoinHead ==
  ASSUME NEW T, NEW a \in Seq(T), NEW n \in Seq(T), n # <<>>, NEW w, Joins(w, a, n)
  PROVE  /\ Head(n) \in T /\ Tail(n) \in Seq(T) /\ Append(a, Head(n)) \in Seq(T)
         /\ Joins(w, Append(a, Head(n)), Tail(n))
<1> DEFINE h == Head(n)
           t == Tail(n)
           x == <<h>>
<1>1. h \in T /\ t \in Seq(T) /\ n = x \o t
  BY FirstMessage
<1>2. x \in Seq(T)
  BY <1>1
<1>3. Append(a, h) = a \o x /\ Append(a, h) \in Seq(T)
  BY <1>1, AppendIsConcat, AppendProperties
<1> HIDE DEF h, t, x
<1>4. (a \o x) \o t = a \o (x \o t)
  BY <1>1, <1>2, SMTT(60)
<1>5. Joins(w, Append(a, h), t)
  BY <1>1, <1>3, <1>4 DEF Joins
<1> QED
  BY <1>1, <1>3, <1>5 DEF h, t

LEMMA JoinAppend ==
  ASSUME NEW T, NEW a \in Seq(T), NEW n \in Seq(T), NEW x \in T, NEW w, Joins(w, a, n)
  PROVE  Joins(Append(w, x), a, Append(n, x))
<1>1. a \o Append(n, x) = Append(a \o n, x)
  BY ConcatAppend
<1> QED
  BY <1>1 DEF Joins

LEMMA BytesOfAppend ==
  ASSUME NEW s \in Seq(Sendable), NEW m \in Sendable
  PROVE  /\ BytesOf(Append(s, m)) = BytesOf(s) \o Bytes(m)
         /\ BytesOf(s) \in Seq(StreamBytes) /\ Bytes(m) \in Seq(StreamBytes)
<1>1. s \in Seq(AnyMessage) /\ m \in AnyMessage /\ <<m>> \in Seq(AnyMessage)
  BY SendableAreAny DEF AnyMessage
<1>2. Append(s, m) = s \o <<m>>
  BY AppendIsConcat
<1>3. BytesOf(s \o <<m>>) = BytesOf(s) \o BytesOf(<<m>>)
  BY <1>1, BytesOfConcat
<1>4. BytesOf(<<m>>) = Bytes(m)
  BY <1>1, BytesOfOne
<1> QED
  BY <1>1, <1>2, <1>3, <1>4, BytesOfType, BytesType

LEMMA GivenAppend ==
  ASSUME NEW s \in Seq(Sendable), NEW m \in Sendable
  PROVE  /\ Given(Append(s, m)) = Given(s) \o Expand(m)
         /\ Given(s) \in Seq(Parsed) /\ Expand(m) \in Seq(Parsed)
<1>1. <<m>> \in Seq(Sendable)
  OBVIOUS
<1>2. Append(s, m) = s \o <<m>>
  BY AppendIsConcat
<1>3. Given(s) \in Seq(Parsed) /\ Given(s \o <<m>>) = Given(s) \o Given(<<m>>)
  BY <1>1, GivenConcat
<1>4. Given(<<m>>) = Expand(m)
  BY GivenOne
<1> QED
  BY <1>2, <1>3, <1>4, ExpandType

LEMMA LineBytes ==
  /\ Bytes(Line) \in Seq(StreamBytes) /\ Len(Bytes(Line)) = LineSize /\ LineSize \in Nat
  /\ <<Line>> \in Seq(AnyMessage)
<1>1. Line \in AnyMessage
  BY DEF AnyMessage
<1>2. Size(Line) = LineSize
  BY DEF Size, Line
<1> QED
  BY <1>1, <1>2, BytesType

LEMMA SendKeepsWire ==
  ASSUME StreamTypeOK, WireInv, NEW m \in Sendable, Send(m)
  PROVE  WireInv' /\ net' \in Seq(StreamBytes)
<1>1. /\ net \in Seq(StreamBytes) /\ line \in Seq(StreamBytes) /\ buffer \in Seq(StreamBytes)
  BY DEF StreamTypeOK
<1>2. /\ sent' = Append(sent, m) /\ net' = net \o Bytes(m)
      /\ UNCHANGED <<line, ready, buffer, inbox, got>>
  BY DEF Send, client
<1>3. PICK past \in Seq(Sendable), ahead \in Seq(Sendable) : Wire(past, ahead)
  BY DEF WireInv
<1> DEFINE after == Append(ahead, m)
           b == Bytes(m)
           h == BytesOf(ahead)
<1>4. after \in Seq(Sendable) /\ BytesOf(after) = h \o b /\ h \in Seq(StreamBytes)
      /\ b \in Seq(StreamBytes)
  BY BytesOfAppend, AppendProperties
<1>5. Joins(sent', <<Line>> \o past, after)
  <2> DEFINE p == <<Line>> \o past
  <2>1. past \in Seq(AnyMessage) /\ ahead \in Seq(AnyMessage) /\ m \in AnyMessage
    BY SendableAreAny DEF AnyMessage
  <2>2. p \in Seq(AnyMessage)
    BY <2>1, LineBytes, ConcatProperties
  <2>3. Joins(sent, p, ahead)
    BY <1>3 DEF Wire
  <2> HIDE DEF p
  <2>4. Joins(Append(sent, m), p, Append(ahead, m))
    BY <2>1, <2>2, <2>3, JoinAppend
  <2> QED
    BY <1>2, <2>4 DEF p
<1> HIDE DEF after, b, h
<1>6. Joins(Given(past), got', inbox')
  BY <1>2, <1>3 DEF Wire
<1>7. ASSUME ready' PROVE Joins(BytesOf(after), buffer', net')
  <2>1. Joins(h, buffer, net)
    BY <1>2, <1>3, <1>7 DEF Wire, h
  <2>2. Joins(h \o b, buffer, net \o b)
    BY <1>1, <1>4, <2>1, JoinLonger
  <2> QED
    BY <1>2, <1>4, <2>2 DEF b
<1>8. ASSUME ~ready' PROVE past = <<>> /\ Joins(Bytes(Line) \o BytesOf(after), line', net')
  <2> DEFINE l == Bytes(Line)
             w == l \o h
  <2>1. past = <<>> /\ Joins(w, line, net)
    BY <1>2, <1>3, <1>8 DEF Wire, h
  <2>2. l \in Seq(StreamBytes)
    BY LineBytes
  <2> HIDE DEF l
  <2>3. w \o b = l \o (h \o b)
    BY <1>4, <2>2, ConcatAssociative, SMTT(60)
  <2> HIDE DEF w
  <2>4. Joins(w \o b, line, net \o b)
    BY <1>1, <1>4, <2>1, JoinLonger
  <2> QED
    BY <1>2, <1>4, <2>1, <2>3, <2>4 DEF b, l
<1>9. Wire(past, after)'
  BY <1>5, <1>6, <1>7, <1>8 DEF Wire
<1>10. net' \in Seq(StreamBytes)
  BY <1>1, <1>2, <1>4, ConcatProperties DEF b
<1> QED
  BY <1>4, <1>9, <1>10 DEF WireInv

LEMMA RecvLineKeepsWire ==
  ASSUME StreamTypeOK, WireInv, RecvLine
  PROVE  /\ WireInv' /\ ready' \in BOOLEAN
         /\ net' \in Seq(StreamBytes) /\ line' \in Seq(StreamBytes)
         /\ buffer' \in Seq(StreamBytes)
<1>1. net \in Seq(StreamBytes) /\ line \in Seq(StreamBytes) /\ buffer \in Seq(StreamBytes)
  BY DEF StreamTypeOK
<1>2. PICK n \in 1 .. Len(net) :
        LET bytes == line \o SubSeq(net, 1, n)
            read == Len(bytes) >= LineSize
        IN /\ net' = Rest(net, n)
           /\ ready' = read
           /\ line' = IF read THEN <<>> ELSE bytes
           /\ buffer' = IF read THEN Rest(bytes, LineSize) ELSE buffer
  BY DEF RecvLine
<1>3. ~ready /\ UNCHANGED <<sent, inbox, got>>
  BY DEF RecvLine, stream
<1>4. PICK past \in Seq(Sendable), ahead \in Seq(Sendable) : Wire(past, ahead)
  BY DEF WireInv
<1> DEFINE bytes == line \o SubSeq(net, 1, n)
           l == Bytes(Line)
           h == BytesOf(ahead)
           w == l \o h
<1>5. past = <<>> /\ Joins(w, line, net)
  BY <1>3, <1>4 DEF Wire
<1>6. l \in Seq(StreamBytes) /\ Len(l) = LineSize /\ h \in Seq(StreamBytes)
  BY LineBytes, SendableAreAny, BytesOfType
<1>7. Joins(w, l, h)
  BY DEF Joins
<1> HIDE DEF l, h, w
<1>8. bytes \in Seq(StreamBytes) /\ Rest(net, n) \in Seq(StreamBytes) /\ Joins(w, bytes, Rest(net, n))
  BY <1>1, <1>5, JoinMoved
<1>9. /\ net' = Rest(net, n) /\ ready' = (Len(bytes) >= LineSize)
      /\ Len(bytes) >= LineSize => line' = <<>> /\ buffer' = Rest(bytes, LineSize)
      /\ ~(Len(bytes) >= LineSize) => line' = bytes /\ buffer' = buffer
  BY <1>2
<1> HIDE DEF bytes
<1>10. Joins(sent', <<Line>> \o past, ahead) /\ Joins(Given(past), got', inbox')
  BY <1>3, <1>4 DEF Wire
<1>11. CASE Len(bytes) >= LineSize
  <2>1. Len(l) <= Len(bytes)
    BY <1>6, <1>8, <1>11, LineBytes, LenProperties
  <2>2. Rest(bytes, Len(l)) \in Seq(StreamBytes) /\ Joins(h, Rest(bytes, Len(l)), Rest(net, n))
    BY <1>6, <1>7, <1>8, <2>1, RestOfConcat
  <2>3. Wire(past, ahead)'
    BY <1>6, <1>9, <1>10, <1>11, <2>2 DEF Wire, h
  <2> QED
    BY <1>6, <1>8, <1>9, <1>11, <2>2, <2>3, EmptySeq DEF WireInv
<1>12. CASE ~(Len(bytes) >= LineSize)
  <2>1. Wire(past, ahead)'
    BY <1>5, <1>8, <1>9, <1>10, <1>12 DEF Wire, h, l, w
  <2> QED
    BY <1>1, <1>8, <1>9, <1>12, <2>1 DEF WireInv
<1> QED
  BY <1>11, <1>12

LEMMA RecvKeepsWire ==
  ASSUME StreamTypeOK, WireInv, Recv
  PROVE  WireInv' /\ net' \in Seq(StreamBytes) /\ buffer' \in Seq(StreamBytes)
<1>1. net \in Seq(StreamBytes) /\ buffer \in Seq(StreamBytes)
  BY DEF StreamTypeOK
<1>2. PICK n \in 1 .. Len(net) :
        net' = Rest(net, n) /\ buffer' = buffer \o SubSeq(net, 1, n)
  BY DEF Recv
<1>3. ready /\ UNCHANGED <<sent, line, ready, inbox, got>>
  BY DEF Recv, stream
<1>4. PICK past \in Seq(Sendable), ahead \in Seq(Sendable) : Wire(past, ahead)
  BY DEF WireInv
<1> DEFINE h == BytesOf(ahead)
<1>5. Joins(h, buffer, net)
  BY <1>3, <1>4 DEF Wire
<1> HIDE DEF h
<1>6. /\ buffer \o SubSeq(net, 1, n) \in Seq(StreamBytes) /\ Rest(net, n) \in Seq(StreamBytes)
      /\ Joins(h, buffer \o SubSeq(net, 1, n), Rest(net, n))
  BY <1>1, <1>5, JoinMoved
<1>7. /\ buffer' \in Seq(StreamBytes) /\ net' \in Seq(StreamBytes)
      /\ Joins(h, buffer', net')
  BY <1>2, <1>6
<1>8. Wire(past, ahead)'
  BY <1>3, <1>4, <1>7 DEF Wire, h
<1> QED
  BY <1>7, <1>8 DEF WireInv

\* The next message that is left, once its header is there.
LEMMA NextMessage ==
  ASSUME StreamTypeOK, ready, Len(buffer) >= HeaderSize,
         NEW ahead \in Seq(Sendable), Joins(BytesOf(ahead), buffer, net)
  PROVE  LET m == Head(ahead)
         IN /\ m \in Sendable /\ Tail(ahead) \in Seq(Sendable)
            /\ ahead = <<m>> \o Tail(ahead)
            /\ Header(buffer) = m /\ Needed = Size(m)
            /\ \A i \in 1 .. Size(m) : i <= Len(buffer) => buffer[i] = [of |-> m, part |-> i]
            /\ Len(buffer) >= Size(m) =>
                 /\ Rest(buffer, Size(m)) \in Seq(StreamBytes)
                 /\ Joins(BytesOf(Tail(ahead)), Rest(buffer, Size(m)), net)
<1> DEFINE m == Head(ahead)
           r == BytesOf(Tail(ahead))
<1>1. buffer \in Seq(StreamBytes) /\ net \in Seq(StreamBytes)
  BY DEF StreamTypeOK
<1>2. buffer # <<>>
  <2>1. HeaderSize \in Nat \ {0} /\ Len(<<>>) = 0
    BY SizesAssumption
  <2> QED
    BY <2>1
<1>3. buffer \o net = BytesOf(ahead)
  BY DEF Joins
<1>4. /\ m \in Sendable /\ Tail(ahead) \in Seq(Sendable) /\ ahead = <<m>> \o Tail(ahead)
      /\ buffer \o net = Bytes(m) \o r
  BY <1>1, <1>2, <1>3, FirstBytes
<1>5. r \in Seq(StreamBytes)
  BY <1>4, SendableAreAny, BytesOfType
<1> DEFINE w == BytesOf(ahead)
<1>6. Joins(w, buffer, net) /\ Joins(w, Bytes(m), r)
  BY <1>3, <1>4 DEF Joins
<1> HIDE DEF m, r, w
<1>7. /\ Header(buffer) = m
      /\ \A i \in 1 .. Size(m) : i <= Len(buffer) => buffer[i] = [of |-> m, part |-> i]
      /\ Len(buffer) >= Size(m) => /\ Rest(buffer, Size(m)) \in Seq(StreamBytes)
                                   /\ Joins(r, Rest(buffer, Size(m)), net)
  BY <1>1, <1>4, <1>5, <1>6, FeedReads
<1>8. Needed = Size(m)
  BY <1>4, <1>7, SizeIs DEF Needed
<1> QED
  BY <1>4, <1>7, <1>8 DEF m, r

LEMMA FeedKeepsWire ==
  ASSUME StreamTypeOK, WireInv, Feed
  PROVE  WireInv' /\ buffer' \in Seq(StreamBytes) /\ inbox' \in Seq(Parsed)
<1>1. /\ net \in Seq(StreamBytes) /\ buffer \in Seq(StreamBytes)
      /\ inbox \in Seq(Parsed) /\ got \in Seq(Parsed)
  BY DEF StreamTypeOK
<1>2. /\ ready /\ Len(buffer) >= HeaderSize /\ Len(buffer) >= Needed
      /\ UNCHANGED <<sent, net, line, ready, got>>
      /\ buffer' = Rest(buffer, Needed)
  BY DEF Feed, Complete, stream
<1>3. PICK past \in Seq(Sendable), ahead \in Seq(Sendable) : Wire(past, ahead)
  BY DEF WireInv
<1> DEFINE m == Head(ahead)
           left == Tail(ahead)
<1>4. Joins(BytesOf(ahead), buffer, net)
  BY <1>2, <1>3 DEF Wire
<1>5. /\ m \in Sendable /\ left \in Seq(Sendable) /\ ahead = <<m>> \o left
      /\ Header(buffer) = m /\ Needed = Size(m)
      /\ \A i \in 1 .. Size(m) : i <= Len(buffer) => buffer[i] = [of |-> m, part |-> i]
      /\ Len(buffer) >= Size(m) =>
           /\ Rest(buffer, Size(m)) \in Seq(StreamBytes)
           /\ Joins(BytesOf(left), Rest(buffer, Size(m)), net)
  BY <1>1, <1>2, <1>4, NextMessage
<1>6. Size(m) \in Nat /\ Size(m) <= Len(buffer) /\ Len(buffer) \in Nat
  BY <1>1, <1>2, <1>5, SizeIs, LenProperties
<1>7. inbox' = inbox \o Expand(m)
  <2>1. m.type # "BULK" => Expand(m) = <<m>>
    BY DEF Expand
  <2>2. ASSUME m.type = "BULK"
        PROVE  BulkSamples(m, SubSeq(buffer, HeaderSize + 1, Size(m))) = Expand(m)
    <3>1. \A i \in 1 .. Size(m) : buffer[i] = [of |-> m, part |-> i]
      BY <1>5, <1>6
    <3> QED
      BY <1>1, <1>5, <1>6, <2>2, <3>1, BulkRead
  <2> QED
    BY <1>5, <2>1, <2>2 DEF Feed
<1> DEFINE then == Append(past, m)
<1>8. /\ then \in Seq(Sendable) /\ Given(then) = Given(past) \o Expand(m)
      /\ Given(past) \in Seq(Parsed) /\ Expand(m) \in Seq(Parsed)
  BY <1>5, GivenAppend, AppendProperties
<1>9. Joins(sent', <<Line>> \o then, left)
  <2> DEFINE p == <<Line>> \o past
             q == <<m>> \o left
  <2>1. /\ past \in Seq(AnyMessage) /\ left \in Seq(AnyMessage) /\ m \in AnyMessage
    BY <1>5, SendableAreAny DEF AnyMessage
  <2>2. p \in Seq(AnyMessage) /\ <<Line>> \o then = Append(p, m)
    BY <2>1, LineBytes, ConcatAppend
  <2>3. /\ q \in Seq(AnyMessage) /\ q # <<>> /\ Head(q) = m /\ Tail(q) = left
    <3>1. ahead # <<>> /\ ahead \in Seq(AnyMessage) /\ q = ahead
      <4>1. <<m>> \o left # <<>>
        BY <1>5
      <4> QED
        BY <1>5, <4>1, SendableAreAny
    <3> QED
      BY <3>1
  <2>4. Joins(sent, p, q)
    BY <1>3, <1>5 DEF Wire
  <2> HIDE DEF p, q
  <2>5. Joins(sent, Append(p, Head(q)), Tail(q))
    BY <2>2, <2>3, <2>4, JoinHead
  <2> QED
    BY <1>2, <2>2, <2>3, <2>5
<1> HIDE DEF then, m, left
<1>10. Joins(Given(then), got', inbox') /\ inbox' \in Seq(Parsed)
  <2> DEFINE g == Given(past)
             e == Expand(m)
  <2>1. Joins(g, got, inbox) /\ g \in Seq(Parsed) /\ e \in Seq(Parsed)
    BY <1>3, <1>8 DEF Wire
  <2>2. Given(then) = g \o e /\ inbox' = inbox \o e
    BY <1>7, <1>8
  <2> HIDE DEF g, e
  <2>3. Joins(g \o e, got, inbox \o e)
    BY <1>1, <2>1, JoinLonger
  <2>4. inbox \o e \in Seq(Parsed)
    BY <1>1, <2>1, ConcatProperties
  <2> QED
    BY <1>2, <2>2, <2>3, <2>4
<1>11. Joins(BytesOf(left), buffer', net') /\ buffer' \in Seq(StreamBytes)
  BY <1>2, <1>5, <1>6
<1>12. Wire(then, left)'
  BY <1>2, <1>9, <1>10, <1>11 DEF Wire
<1> QED
  BY <1>5, <1>8, <1>10, <1>11, <1>12 DEF WireInv, left, then, m

LEMMA DeliverKeepsWire ==
  ASSUME StreamTypeOK, WireInv, Deliver
  PROVE  /\ WireInv' /\ inbox' \in Seq(Parsed) /\ got' \in Seq(Parsed)
         /\ Head(inbox) \in Parsed /\ got' = Append(got, Head(inbox))
<1>1. inbox \in Seq(Parsed) /\ got \in Seq(Parsed)
  BY DEF StreamTypeOK
<1>2. /\ inbox # <<>> /\ got' = Append(got, Head(inbox)) /\ inbox' = Tail(inbox)
      /\ UNCHANGED <<sent, net, line, ready, buffer>>
  BY DEF Deliver, stream
<1>3. PICK past \in Seq(Sendable), ahead \in Seq(Sendable) : Wire(past, ahead)
  BY DEF WireInv
<1> DEFINE w == Given(past)
<1>4. Joins(w, got, inbox)
  BY <1>3 DEF Wire
<1> HIDE DEF w
<1>5. /\ Head(inbox) \in Parsed /\ Tail(inbox) \in Seq(Parsed)
      /\ Append(got, Head(inbox)) \in Seq(Parsed)
      /\ Joins(w, Append(got, Head(inbox)), Tail(inbox))
  BY <1>1, <1>2, <1>4, JoinHead
<1>6. Joins(w, got', inbox')
  BY <1>2, <1>5
<1>7. Wire(past, ahead)'
  BY <1>2, <1>3, <1>6 DEF Wire, w
<1> QED
  BY <1>2, <1>5, <1>7 DEF WireInv

\* The front of a sequence that is put together of two.
LEMMA FrontOfConcat ==
  ASSUME NEW T, NEW a \in Seq(T), NEW b \in Seq(T)
  PROVE  /\ SubSeq(a \o b, 1, Len(a)) = a
         /\ Len(a \o b) = Len(a) + Len(b)
         /\ \A i \in 1 .. Len(a) : (a \o b)[i] = a[i]
<1> DEFINE w == a \o b
           f == SubSeq(w, 1, Len(a))
<1>1. Len(a) \in Nat /\ Len(b) \in Nat
  BY LenProperties
<1>2. /\ w \in Seq(T) /\ Len(w) = Len(a) + Len(b)
      /\ \A i \in 1 .. Len(a) + Len(b) : w[i] = IF i <= Len(a) THEN a[i] ELSE b[i - Len(a)]
  BY ConcatProperties
<1> HIDE DEF w
<1>3. \A i \in 1 .. Len(a) : w[i] = a[i]
  BY <1>1, <1>2
<1>4. \A i \in 1 .. Len(a) : w[i] \in T
  BY <1>3, ElementOfSeq
<1>5. f \in Seq(T) /\ Len(f) = Len(a) /\ \A i \in 1 .. Len(a) : f[i] = w[i]
  BY <1>1, <1>4, SubSeqProperties
<1> HIDE DEF f
<1>6. \A i \in 1 .. Len(a) : f[i] = a[i]
  BY <1>3, <1>5
<1>7. f = a
  BY <1>5, <1>6, SeqEqual
<1> QED
  BY <1>2, <1>3, <1>7 DEF f, w

LEMMA WireShows ==
  ASSUME StreamTypeOK, WireInv
  PROVE  MessagesAsSent
<1> SUFFICES ASSUME ready, ~Complete
             PROVE  \E k \in 1 .. Len(sent) :
                      /\ Len(BytesOf(SubSeq(sent, 1, k))) <= Arrived
                      /\ k < Len(sent) => Len(BytesOf(SubSeq(sent, 1, k + 1))) > Arrived
                      /\ got \o inbox = FlattenSeq([i \in 1 .. k - 1 |-> Expand(sent[i + 1])])
  BY DEF MessagesAsSent
<1>1. buffer \in Seq(StreamBytes) /\ net \in Seq(StreamBytes)
  BY DEF StreamTypeOK
<1>2. PICK past \in Seq(Sendable), ahead \in Seq(Sendable) : Wire(past, ahead)
  BY DEF WireInv
<1> DEFINE p == <<Line>> \o past
           k == Len(p)
           h == BytesOf(ahead)
           bp == BytesOf(p)
<1>3. /\ past \in Seq(AnyMessage) /\ ahead \in Seq(AnyMessage) /\ <<Line>> \in Seq(AnyMessage)
  BY SendableAreAny, LineBytes
<1>4. /\ p \in Seq(AnyMessage) /\ k = 1 + Len(past) /\ Len(past) \in Nat /\ k \in Nat
      /\ \A i \in 1 .. Len(past) : p[i + 1] = past[i]
  <2> DEFINE l == <<Line>>
  <2>1. l \in Seq(AnyMessage) /\ Len(l) = 1 /\ Len(past) \in Nat
    BY <1>3, LenProperties
  <2> HIDE DEF l
  <2> DEFINE n == Len(l)
             u == l \o past
  <2>2. /\ u \in Seq(AnyMessage) /\ Len(u) = n + Len(past)
        /\ \A i \in 1 .. n + Len(past) : u[i] = IF i <= n THEN l[i] ELSE past[i - n]
    BY <1>3, <2>1, ConcatProperties
  <2>4. n = 1
    BY <2>1
  <2> HIDE DEF n, u
  <2>3. ASSUME NEW i \in 1 .. Len(past) PROVE u[i + 1] = past[i]
    <3>1. i + 1 \in 1 .. n + Len(past) /\ ~(i + 1 <= n) /\ (i + 1) - n = i
      BY <2>1, <2>4
    <3> QED
      BY <2>2, <3>1
  <2> QED
    BY <2>1, <2>2, <2>3, <2>4 DEF l, u
<1>5. /\ Joins(sent, p, ahead) /\ Joins(h, buffer, net) /\ Joins(Given(past), got, inbox)
  BY <1>2 DEF Wire
<1> HIDE DEF p
<1>6. /\ SubSeq(sent, 1, k) = p /\ Len(sent) = k + Len(ahead) /\ Len(ahead) \in Nat
      /\ \A i \in 1 .. k : sent[i] = p[i]
  BY <1>3, <1>4, <1>5, FrontOfConcat, LenProperties DEF Joins
<1>7. /\ bp \in Seq(StreamBytes) /\ h \in Seq(StreamBytes)
      /\ BytesOf(sent) = bp \o h
  BY <1>3, <1>4, <1>5, BytesOfType, BytesOfConcat DEF Joins
<1> HIDE DEF bp, h
<1>8. /\ Arrived = Len(bp) + Len(buffer)
      /\ Len(bp) \in Nat /\ Len(buffer) \in Nat
  <2>1. Len(bp \o h) = Len(bp) + Len(h)
    BY <1>7, ConcatProperties
  <2>2. Len(h) = Len(buffer) + Len(net)
    BY <1>1, <1>5, ConcatProperties DEF Joins
  <2>3. Len(bp) \in Nat /\ Len(buffer) \in Nat /\ Len(net) \in Nat /\ Len(h) \in Nat
    BY <1>1, <1>7, LenProperties
  <2>4. Arrived = Len(bp \o h) - Len(net)
    BY <1>7 DEF Arrived
  <2> QED
    BY <2>1, <2>2, <2>3, <2>4
<1>9. Len(BytesOf(SubSeq(sent, 1, k))) <= Arrived
  <2>1. BytesOf(SubSeq(sent, 1, k)) = bp
    BY <1>6 DEF bp
  <2> QED
    BY <1>8, <2>1
<1>10. ASSUME k < Len(sent) PROVE Len(BytesOf(SubSeq(sent, 1, k + 1))) > Arrived
  <2> DEFINE m == Head(ahead)
             t == Tail(ahead)
             q == Append(p, m)
             bq == BytesOf(q)
  <2>1. ahead # <<>>
    BY <1>4, <1>6, <1>10
  <2>2. m \in Sendable /\ t \in Seq(Sendable)
    BY <2>1, FirstMessage
  <2>3. m \in AnyMessage /\ t \in Seq(AnyMessage)
    BY <2>2, SendableAreAny DEF AnyMessage
  <2>4. /\ q \in Seq(AnyMessage) /\ Joins(sent, q, t)
    BY <1>3, <1>4, <1>5, <2>1, JoinHead
  <2>5. q = p \o <<m>> /\ <<m>> \in Seq(AnyMessage) /\ Len(q) = k + 1
    BY <1>4, <2>3, AppendIsConcat, AppendProperties
  <2>6. bq = bp \o Bytes(m) /\ Bytes(m) \in Seq(StreamBytes) /\ Len(Bytes(m)) = Size(m)
    BY <1>4, <2>3, <2>5, BytesOfConcat, BytesOfOne, BytesType DEF bp
  <2>7. Len(bq) = Len(bp) + Size(m)
    BY <1>7, <2>6, ConcatProperties
  <2>8. Len(buffer) < Size(m)
    <3>1. HeaderSize \in Nat /\ Size(m) \in Nat /\ Size(m) >= HeaderSize
      BY <2>2, SizeIs, SizesAssumption
    <3>2. ASSUME Len(buffer) >= HeaderSize PROVE Len(buffer) < Size(m)
      <4>1. Needed = Size(m)
        BY <1>5, <3>2, NextMessage DEF h
      <4>2. ~(Len(buffer) >= Size(m))
        BY <3>2, <4>1 DEF Complete
      <4> QED
        BY <1>8, <3>1, <4>2
    <3> QED
      BY <1>8, <3>1, <3>2
  <2> HIDE DEF m, t, q, bq
  <2>9. SubSeq(sent, 1, k + 1) = q
    BY <2>3, <2>4, <2>5, FrontOfConcat DEF Joins
  <2>10. Size(m) \in Nat
    BY <2>2, SizeIs
  <2>11. BytesOf(SubSeq(sent, 1, k + 1)) = bq
    BY <2>9 DEF bq
  <2>12. Len(bq) > Arrived
    BY <1>8, <2>7, <2>8, <2>10
  <2> QED
    BY <2>11, <2>12
<1>11. got \o inbox = FlattenSeq([i \in 1 .. k - 1 |-> Expand(sent[i + 1])])
  <2>1. ASSUME NEW i \in 1 .. Len(past) PROVE sent[i + 1] = past[i]
    <3>1. i + 1 \in 1 .. k
      BY <1>4
    <3> QED
      BY <1>4, <1>6, <3>1
  <2>2. k - 1 = Len(past) /\ DOMAIN past = 1 .. Len(past)
    BY <1>4, LenProperties
  <2> HIDE DEF k
  <2>3. [i \in 1 .. k - 1 |-> Expand(sent[i + 1])] = [i \in DOMAIN past |-> Expand(past[i])]
    BY <2>1, <2>2
  <2> QED
    BY <1>5, <2>3 DEF Joins, Given
<1>12. k \in 1 .. Len(sent)
  BY <1>4, <1>6
<1> QED
  BY <1>9, <1>10, <1>11, <1>12

-----------------------------------------------------------------------------
(* The counts of the frames.                                                 *)

IsSample(m) == m.type = "SAMPLE"
Count(m) == m.frames[1].at
Backs == Again \cup {0}
Jumps == Steps \cup {0}

\* The highest count is not far above a frame that has no frame of that count
\* after it.
NearTop(g, top, i) ==
  \/ \E b \in Backs : top <= Count(g[i]) + b
  \/ \E h \in i + 1 .. Len(g) : IsSample(g[h]) /\ Count(g[h]) = top

\* A frame is not far below an earlier one, nor far above it or one in between.
Follows(g, i, j) ==
  /\ \E b \in Backs : Count(g[i]) <= Count(g[j]) + b
  /\ \/ \E b \in Backs, d \in Jumps : Count(g[j]) <= Count(g[i]) + b + d
     \/ \E h \in i + 1 .. j - 1 : \E d \in Jumps :
          IsSample(g[h]) /\ Count(g[j]) <= Count(g[h]) + d

FramesOK(g, top) ==
  \A i \in 1 .. Len(g) : IsSample(g[i]) =>
    /\ Count(g[i]) <= top /\ NearTop(g, top, i)
    /\ \A j \in i + 1 .. Len(g) : IsSample(g[j]) => Follows(g, i, j)

LEMMA BacksAndJumps ==
  Backs \subseteq Nat /\ Jumps \subseteq Nat /\ 0 \in Backs /\ 0 \in Jumps
BY SizesAssumption DEF Backs, Jumps

LEMMA CountType ==
  ASSUME NEW m \in Parsed, IsSample(m)
  PROVE  Count(m) \in Int /\ m.frames[1] \in StreamFrames
<1>1. m.frames \in Seq(StreamFrames) /\ Len(m.frames) = 1
  BY DEF Parsed, Sendable, IsSample
<1>2. m.frames[1] \in StreamFrames
  BY <1>1, ElementOfSeq
<1> QED
  BY <1>2 DEF Count, StreamFrames

LEMMA NextAtIs ==
  ASSUME NEW top \in Int, NEW at \in NextAt(top)
  PROVE  /\ at \in Int
         /\ \E b \in Backs : top <= at + b
         /\ \E d \in Jumps : at <= top + d
<1>1. CASE \E d \in Steps : at = top + d
  <2>1. PICK d \in Steps : at = top + d
    BY <1>1
  <2>2. d \in Nat /\ d \in Jumps
    BY SizesAssumption DEF Jumps
  <2> QED
    BY <2>1, <2>2, BacksAndJumps
<1>2. CASE \E b \in Again : at = top - b
  <2>1. PICK b \in Again : at = top - b
    BY <1>2
  <2>2. b \in Nat /\ b \in Backs
    BY SizesAssumption DEF Backs
  <2> QED
    BY <2>1, <2>2, BacksAndJumps
<1> QED
  BY <1>1, <1>2 DEF NextAt

Higher(a, b) == IF a > b THEN a ELSE b

\* What there was stays as it was when something comes behind it.
LEMMA EarlierFrames ==
  ASSUME NEW g \in Seq(Parsed), NEW x \in Parsed, NEW top \in Int, FramesOK(g, top)
  PROVE  LET w == Append(g, x)
         IN /\ Len(w) = Len(g) + 1 /\ w[Len(g) + 1] = x
            /\ \A i \in 1 .. Len(g) : w[i] = g[i]
            /\ \A i \in 1 .. Len(g) : IsSample(w[i]) =>
                 /\ Count(w[i]) \in Int /\ Count(w[i]) <= top /\ NearTop(w, top, i)
                 /\ NearTop(g, top, i)
                 /\ \A j \in i + 1 .. Len(g) : IsSample(w[j]) => Follows(w, i, j)
<1> DEFINE w == Append(g, x)
<1>1. /\ Len(w) = Len(g) + 1 /\ w[Len(g) + 1] = x /\ \A i \in 1 .. Len(g) : w[i] = g[i]
      /\ Len(g) \in Nat
  BY AppendProperties, LenProperties
<1> HIDE DEF w
<1>2. ASSUME NEW i \in 1 .. Len(g), IsSample(w[i])
      PROVE  /\ Count(w[i]) \in Int /\ Count(w[i]) <= top /\ NearTop(w, top, i)
             /\ NearTop(g, top, i)
             /\ \A j \in i + 1 .. Len(g) : IsSample(w[j]) => Follows(w, i, j)
  <2>1. w[i] = g[i] /\ g[i] \in Parsed /\ IsSample(g[i])
    BY <1>1, <1>2, ElementOfSeq
  <2>2. /\ Count(g[i]) <= top /\ NearTop(g, top, i)
        /\ \A j \in i + 1 .. Len(g) : IsSample(g[j]) => Follows(g, i, j)
    BY <2>1 DEF FramesOK
  <2>3. Count(g[i]) \in Int
    BY <2>1, CountType
  <2>4. NearTop(w, top, i)
    <3>1. \A h \in i + 1 .. Len(g) : h \in i + 1 .. Len(w) /\ w[h] = g[h]
      BY <1>1
    <3> QED
      BY <2>1, <2>2, <3>1 DEF NearTop
  <2>5. ASSUME NEW j \in i + 1 .. Len(g), IsSample(w[j]) PROVE Follows(w, i, j)
    <3>1. w[j] = g[j] /\ \A h \in i + 1 .. j - 1 : w[h] = g[h]
      BY <1>1
    <3> QED
      BY <2>1, <2>2, <2>5, <3>1 DEF Follows
  <2> QED
    BY <2>1, <2>2, <2>3, <2>4, <2>5
<1> QED
  BY <1>1, <1>2 DEF w

LEMMA OneMoreMark ==
  ASSUME NEW g \in Seq(Parsed), NEW x \in Parsed, ~IsSample(x), NEW top \in Int,
         FramesOK(g, top)
  PROVE  FramesOK(Append(g, x), top)
<1> DEFINE w == Append(g, x)
<1>1. /\ Len(w) = Len(g) + 1 /\ w[Len(g) + 1] = x
      /\ \A i \in 1 .. Len(g) : IsSample(w[i]) =>
           /\ Count(w[i]) <= top /\ NearTop(w, top, i)
           /\ \A j \in i + 1 .. Len(g) : IsSample(w[j]) => Follows(w, i, j)
  BY EarlierFrames
<1>2. Len(g) \in Nat
  BY LenProperties
<1> HIDE DEF w
<1>3. \A i \in 1 .. Len(w) : IsSample(w[i]) => i \in 1 .. Len(g)
  BY <1>1, <1>2
<1>4. FramesOK(w, top)
  BY <1>1, <1>2, <1>3 DEF FramesOK
<1> QED
  BY <1>4 DEF w

LEMMA OneMoreFrame ==
  ASSUME NEW g \in Seq(Parsed), NEW x \in Parsed, IsSample(x), NEW top \in Int,
         FramesOK(g, top), Count(x) \in NextAt(top)
  PROVE  FramesOK(Append(g, x), Higher(Count(x), top))
<1> DEFINE w == Append(g, x)
           c == Count(x)
           n == Len(g) + 1
           new == Higher(c, top)
<1>1. /\ Len(w) = n /\ w[n] = x
      /\ \A i \in 1 .. Len(g) : w[i] = g[i]
      /\ \A i \in 1 .. Len(g) : IsSample(w[i]) =>
           /\ Count(w[i]) \in Int /\ Count(w[i]) <= top
           /\ NearTop(w, top, i) /\ NearTop(g, top, i)
           /\ \A j \in i + 1 .. Len(g) : IsSample(w[j]) => Follows(w, i, j)
  BY EarlierFrames
<1>2. Len(g) \in Nat /\ n \in Nat /\ \A i \in 1 .. n : i # n => i \in 1 .. Len(g)
  BY LenProperties
<1>3. c \in Int /\ (\E b \in Backs : top <= c + b) /\ (\E d \in Jumps : c <= top + d)
  BY NextAtIs
<1>4. new \in Int /\ new >= c /\ new >= top /\ (new = c \/ new = top) /\ (c > top => new = c)
      /\ (~(c > top) => new = top)
  BY <1>3 DEF Higher
<1> HIDE DEF w, c, n, new
<1>5. ASSUME NEW i \in 1 .. Len(g), IsSample(w[i])
      PROVE  /\ Count(w[i]) <= new /\ NearTop(w, new, i)
             /\ \A j \in i + 1 .. n : IsSample(w[j]) => Follows(w, i, j)
  <2>1. /\ Count(w[i]) \in Int /\ Count(w[i]) <= top
        /\ NearTop(w, top, i) /\ NearTop(g, top, i) /\ w[i] = g[i]
        /\ \A j \in i + 1 .. Len(g) : IsSample(w[j]) => Follows(w, i, j)
    BY <1>1, <1>5
  <2>2. NearTop(w, new, i)
    <3>1. CASE c > top
      <4>1. n \in i + 1 .. Len(w) /\ IsSample(w[n]) /\ Count(w[n]) = new
        BY <1>1, <1>2, <1>4, <3>1 DEF c, n
      <4> QED
        BY <4>1 DEF NearTop
    <3>2. CASE ~(c > top)
      BY <1>4, <2>1, <3>2
    <3> QED
      BY <3>1, <3>2
  <2>3. Follows(w, i, n)
    <3>1. Count(w[n]) = c
      BY <1>1 DEF c
    <3>2. \E b \in Backs : Count(w[i]) <= Count(w[n]) + b
      <4>1. PICK b \in Backs : top <= c + b
        BY <1>3
      <4>2. b \in Nat
        BY BacksAndJumps
      <4> QED
        BY <1>3, <2>1, <3>1, <4>1, <4>2
    <3>3. PICK d \in Jumps : c <= top + d
      BY <1>3
    <3>4. d \in Nat
      BY BacksAndJumps
    <3>5. CASE \E b \in Backs : top <= Count(w[i]) + b
      <4>1. PICK b \in Backs : top <= Count(w[i]) + b
        BY <3>5
      <4>2. b \in Nat
        BY BacksAndJumps
      <4>3. c <= Count(w[i]) + b + d
        BY <1>3, <2>1, <3>3, <3>4, <4>1, <4>2
      <4> QED
        BY <3>1, <3>2, <4>3 DEF Follows
    <3>6. CASE \E h \in i + 1 .. Len(g) : IsSample(g[h]) /\ Count(g[h]) = top
      <4>1. PICK h \in i + 1 .. Len(g) : IsSample(g[h]) /\ Count(g[h]) = top
        BY <3>6
      <4>2. h \in i + 1 .. n - 1 /\ w[h] = g[h]
        BY <1>1, <1>2, <4>1 DEF n
      <4> QED
        BY <3>1, <3>2, <3>3, <4>1, <4>2 DEF Follows
    <3> QED
      BY <2>1, <3>5, <3>6 DEF NearTop
  <2>4. ASSUME NEW j \in i + 1 .. n, IsSample(w[j]) PROVE Follows(w, i, j)
    <3>1. j = n \/ j \in i + 1 .. Len(g)
      BY <1>2 DEF n
    <3> QED
      BY <2>1, <2>3, <2>4, <3>1
  <2>5. Count(w[i]) <= new
    BY <1>4, <2>1
  <2> QED
    BY <2>2, <2>4, <2>5
<1>6. /\ Count(w[n]) <= new /\ NearTop(w, new, n)
      /\ \A j \in n + 1 .. n : Follows(w, n, j)
  <2>1. Count(w[n]) = c /\ c <= new
    BY <1>1, <1>3, <1>4 DEF c
  <2>2. \E b \in Backs : new <= c + b
    BY <1>3, <1>4, BacksAndJumps
  <2>3. NearTop(w, new, n)
    BY <2>1, <2>2 DEF NearTop
  <2>4. \A j \in n + 1 .. n : FALSE
    BY <1>2
  <2> QED
    BY <2>1, <2>3, <2>4
<1>7. FramesOK(w, new)
  BY <1>1, <1>2, <1>5, <1>6 DEF FramesOK
<1> QED
  BY <1>7 DEF w, c, new

\* One more member of the front of what is put behind a sequence.
LEMMA LongerFront ==
  ASSUME NEW T, NEW g \in Seq(T), NEW e \in Seq(T), NEW k \in Nat, k + 1 <= Len(e)
  PROVE  /\ g \o SubSeq(e, 1, k) \in Seq(T) /\ e[k + 1] \in T
         /\ g \o SubSeq(e, 1, k + 1) = Append(g \o SubSeq(e, 1, k), e[k + 1])
<1> DEFINE u == SubSeq(e, 1, k)
           v == SubSeq(e, 1, k + 1)
           x == e[k + 1]
           a == Append(u, x)
<1>1. Len(e) \in Nat /\ \A i \in 1 .. Len(e) : e[i] \in T
  BY LenProperties, ElementOfSeq
<1>2. u \in Seq(T) /\ Len(u) = k /\ \A i \in 1 .. k : u[i] = e[i]
  BY <1>1, SubSeqProperties
<1>3. v \in Seq(T) /\ Len(v) = k + 1 /\ \A i \in 1 .. k + 1 : v[i] = e[i]
  BY <1>1, SubSeqProperties
<1>4. x \in T
  BY <1>1
<1> HIDE DEF u, v, x
<1>5. a \in Seq(T) /\ Len(a) = k + 1 /\ (\A i \in 1 .. k : a[i] = u[i]) /\ a[k + 1] = x
  <2>1. /\ a \in Seq(T) /\ Len(a) = Len(u) + 1 /\ \A i \in 1 .. Len(u) : a[i] = u[i]
        /\ a[Len(u) + 1] = x
    <3>1. u \in Seq(T) /\ x \in T
      BY <1>2, <1>4
    <3> QED
      BY <3>1, AppendProperties
  <2> HIDE DEF a
  <2>2. Len(u) = k
    BY <1>2
  <2> QED
    BY <2>1, <2>2
<1> HIDE DEF a
<1>6. ASSUME NEW i \in 1 .. k + 1 PROVE v[i] = a[i]
  <2>1. CASE i = k + 1
    BY <1>3, <1>5, <2>1 DEF x
  <2>2. CASE i # k + 1
    <3>1. i \in 1 .. k
      BY <2>2
    <3> QED
      BY <1>2, <1>3, <1>5, <3>1
  <2> QED
    BY <2>1, <2>2
<1>7. v = a
  BY <1>3, <1>5, <1>6, SeqEqual
<1>8. g \o Append(u, x) = Append(g \o u, x) /\ g \o u \in Seq(T)
  BY <1>2, <1>4, ConcatAppend
<1> QED
  BY <1>4, <1>7, <1>8 DEF a, u, v, x

LEMMA NextStep ==
  ASSUME NEW k \in Nat, NEW d \in Int
  PROVE  (k + 1) * d = k * d + d /\ k * d \in Int
OBVIOUS

LEMMA BulkFrames ==
  ASSUME NEW g \in Seq(Parsed), NEW e \in Seq(Parsed), NEW n \in Nat \ {0}, Len(e) = n,
         NEW top \in Int, NEW step \in Steps, FramesOK(g, top),
         \A k \in 1 .. n : IsSample(e[k]),
         \A k \in 1 .. n : k < n => Count(e[k]) = top + k * step,
         Count(e[n]) \in NextAt(top + (n - 1) * step)
  PROVE  FramesOK(g \o e, Higher(Count(e[n]), top + (n - 1) * step))
<1> DEFINE Ahead(k) == g \o SubSeq(e, 1, k)
           Top(k) == top + k * step
           P == {k \in Nat : k < n => FramesOK(Ahead(k), Top(k))}
<1>1. step \in Nat \ {0}
  BY SizesAssumption
<1>2. \A k \in Nat : Top(k) \in Int /\ Top(k + 1) = Top(k) + step
  BY <1>1, NextStep
<1>3. ASSUME NEW k \in Nat, k < n
      PROVE  /\ Ahead(k) \in Seq(Parsed) /\ e[k + 1] \in Parsed /\ IsSample(e[k + 1])
             /\ Ahead(k + 1) = Append(Ahead(k), e[k + 1])
  BY <1>3, LongerFront
<1>4. 0 \in P
  <2>1. Ahead(0) = g
    <3>1. SubSeq(e, 1, 0) = <<>>
      BY SubSeqEmpty
    <3> QED
      BY <3>1, ConcatEmptySeq
  <2>2. Top(0) = top
    BY <1>1
  <2> HIDE DEF Ahead, Top
  <2> QED
    BY <2>1, <2>2
<1>5. ASSUME NEW k \in Nat, k \in P PROVE k + 1 \in P
  <2> SUFFICES ASSUME k + 1 < n PROVE FramesOK(Ahead(k + 1), Top(k + 1))
    OBVIOUS
  <2>1. FramesOK(Ahead(k), Top(k))
    BY <1>5
  <2>2. Count(e[k + 1]) = Top(k + 1)
    <3>1. k + 1 \in 1 .. n
      OBVIOUS
    <3> QED
      BY <3>1
  <2>3. /\ Ahead(k) \in Seq(Parsed) /\ e[k + 1] \in Parsed /\ IsSample(e[k + 1])
        /\ Ahead(k + 1) = Append(Ahead(k), e[k + 1])
    <3>1. k < n
      OBVIOUS
    <3> HIDE DEF Ahead
    <3> QED
      BY <1>3, <3>1
  <2>4. Top(k) \in Int /\ Top(k + 1) = Top(k) + step
    BY <1>2
  <2> HIDE DEF Ahead, Top
  <2>5. Top(k + 1) \in NextAt(Top(k)) /\ Higher(Top(k + 1), Top(k)) = Top(k + 1)
    BY <1>1, <2>4 DEF NextAt, Higher
  <2> QED
    BY <2>1, <2>2, <2>3, <2>4, <2>5, OneMoreFrame
<1>6. \A k \in Nat : k \in P
  <2> HIDE DEF P
  <2> QED
    BY <1>4, <1>5, EveryNumber
<1>7. FramesOK(Ahead(n - 1), Top(n - 1))
  <2>1. n - 1 \in Nat /\ n - 1 < n
    OBVIOUS
  <2> QED
    BY <1>6, <2>1
<1>8. Ahead(n) = g \o e
  <2>1. SubSeq(e, 1, Len(e)) = e
    BY SubSeqFull
  <2> QED
    BY <2>1
<1>9. /\ Ahead(n - 1) \in Seq(Parsed) /\ e[n] \in Parsed /\ IsSample(e[n])
      /\ Ahead(n) = Append(Ahead(n - 1), e[n])
  <2>1. n - 1 \in Nat /\ n - 1 < n /\ (n - 1) + 1 = n
    OBVIOUS
  <2> HIDE DEF Ahead
  <2> QED
    BY <1>3, <2>1
<1>10. Top(n - 1) \in Int /\ Count(e[n]) \in NextAt(Top(n - 1))
  BY <1>2
<1> HIDE DEF Ahead, Top
<1>11. FramesOK(Ahead(n), Higher(Count(e[n]), Top(n - 1)))
  BY <1>7, <1>9, <1>10, OneMoreFrame
<1> QED
  BY <1>8, <1>11 DEF Top

FrameInv == \E ms \in Seq(Sendable) : Joins(sent, <<Line>>, ms) /\ FramesOK(Given(ms), newest)

\* The messages the server sends.
LEMMA SampleSent ==
  ASSUME StreamTypeOK, SendSample
  PROVE  \E m \in Sendable :
           /\ Send(m) /\ IsSample(m) /\ Count(m) \in NextAt(newest)
           /\ newest' = Higher(Count(m), newest)
<1>1. PICK at \in NextAt(newest), ch1 \in 0 .. 1, demod \in BOOLEAN :
        /\ Send([type |-> "SAMPLE", demod |-> demod, frames |-> <<[at |-> at, ch1 |-> ch1]>>])
        /\ newest' = IF at > newest THEN at ELSE newest
  BY DEF SendSample
<1> DEFINE f == [at |-> at, ch1 |-> ch1]
           m == [type |-> "SAMPLE", demod |-> demod, frames |-> <<f>>]
<1>2. at \in Int
  BY NextAtIs DEF StreamTypeOK
<1>3. f \in StreamFrames
  BY <1>2 DEF StreamFrames
<1>4. <<f>> \in Seq(StreamFrames) /\ Len(<<f>>) = 1
  BY <1>3
<1>5. m \in Sendable
  BY <1>4 DEF Sendable
<1>6. IsSample(m) /\ Count(m) = at
  BY DEF IsSample, Count
<1>7. newest' = Higher(at, newest)
  BY <1>1 DEF Higher
<1> QED
  BY <1>1, <1>5, <1>6, <1>7

LEMMA BulkSent ==
  ASSUME StreamTypeOK, SendBulk
  PROVE  \E m \in Sendable : \E n \in Nat \ {0} : \E step \in Steps :
           LET top == newest + (n - 1) * step
           IN /\ Send(m) /\ m.type = "BULK" /\ Len(m.frames) = n
              /\ \A k \in 1 .. n : k < n => m.frames[k].at = newest + k * step
              /\ m.frames[n].at \in NextAt(top)
              /\ newest' = Higher(m.frames[n].at, top)
<1>1. PICK n \in 1 .. MaxBulk, step \in Steps, ch1 \in 0 .. 1, demod \in BOOLEAN :
        LET top == newest + (n - 1) * step
        IN \E at \in NextAt(top) :
             /\ Send([type |-> "BULK", demod |-> demod,
                      frames |-> [k \in 1 .. n |->
                        [at |-> IF k < n THEN newest + k * step ELSE at,
                         ch1 |-> (ch1 + k) % 2]]])
             /\ newest' = IF at > top THEN at ELSE top
  BY DEF SendBulk
<1> DEFINE top == newest + (n - 1) * step
<1>2. PICK at \in NextAt(top) :
        /\ Send([type |-> "BULK", demod |-> demod,
                 frames |-> [k \in 1 .. n |->
                   [at |-> IF k < n THEN newest + k * step ELSE at,
                    ch1 |-> (ch1 + k) % 2]]])
        /\ newest' = IF at > top THEN at ELSE top
  BY <1>1
<1> DEFINE fs == [k \in 1 .. n |-> [at |-> IF k < n THEN newest + k * step ELSE at,
                                    ch1 |-> (ch1 + k) % 2]]
           m == [type |-> "BULK", demod |-> demod, frames |-> fs]
<1>3. n \in Nat \ {0} /\ newest \in Int /\ step \in Nat
  <2>1. MaxBulk \in Nat /\ Steps \subseteq Nat
    BY SizesAssumption
  <2> QED
    BY <2>1 DEF StreamTypeOK
<1>4. \A k \in Nat : newest + k * step \in Int
  BY <1>3, NextStep
<1>5. top \in Int /\ at \in Int
  <2>1. top \in Int
    BY <1>3, <1>4
  <2> HIDE DEF top
  <2> QED
    BY <2>1, NextAtIs
<1>6. fs \in Seq(StreamFrames) /\ Len(fs) = n
  <2>1. ASSUME NEW k \in 1 .. n
        PROVE  [at |-> IF k < n THEN newest + k * step ELSE at, ch1 |-> (ch1 + k) % 2]
                 \in StreamFrames
    <3>1. (ch1 + k) % 2 \in 0 .. 1
      OBVIOUS
    <3>2. newest + k * step \in Int
      BY <1>4
    <3> QED
      BY <1>5, <3>1, <3>2 DEF StreamFrames
  <2> HIDE DEF StreamFrames
  <2>2. fs \in [1 .. n -> StreamFrames]
    BY <2>1
  <2> HIDE DEF fs
  <2> QED
    BY <1>3, <2>2
<1>7. /\ \A k \in 1 .. n : k < n => fs[k].at = newest + k * step
      /\ fs[n].at = at
  BY <1>3
<1>8. Send(m)
  BY <1>2
<1>9. newest' = Higher(at, top)
  BY <1>2 DEF Higher
<1> HIDE DEF fs, top
<1>10. m \in Sendable /\ m.type = "BULK" /\ m.frames = fs
  BY <1>6 DEF Sendable
<1> HIDE DEF m
<1>11. /\ Send(m) /\ m.type = "BULK" /\ Len(m.frames) = n
       /\ \A k \in 1 .. n : k < n => m.frames[k].at = newest + k * step
       /\ m.frames[n].at \in NextAt(top) /\ newest' = Higher(m.frames[n].at, top)
  BY <1>6, <1>7, <1>8, <1>9, <1>10
<1> QED
  BY <1>3, <1>10, <1>11 DEF top

LEMMA MarkSent ==
  ASSUME SendMark
  PROVE  \E m \in Sendable : Send(m) /\ m.type = "ACK" /\ newest' = newest
<1> DEFINE m == [type |-> "ACK", demod |-> FALSE, frames |-> <<>>]
<1>1. m \in Sendable
  BY DEF Sendable
<1> QED
  BY <1>1 DEF SendMark

\* A message that is sent goes behind those that have been sent.
LEMMA SentBehind ==
  ASSUME NEW m \in Sendable, Send(m), NEW ms \in Seq(Sendable), Joins(sent, <<Line>>, ms)
  PROVE  /\ Append(ms, m) \in Seq(Sendable) /\ Joins(sent', <<Line>>, Append(ms, m))
         /\ Given(Append(ms, m)) = Given(ms) \o Expand(m) /\ Given(ms) \in Seq(Parsed)
<1> DEFINE l == <<Line>>
<1>1. l \in Seq(AnyMessage) /\ ms \in Seq(AnyMessage) /\ m \in AnyMessage
  BY LineBytes, SendableAreAny DEF AnyMessage
<1> HIDE DEF l
<1>2. Joins(sent, l, ms) /\ sent' = Append(sent, m)
  BY DEF l, Send
<1>3. Joins(Append(sent, m), l, Append(ms, m))
  BY <1>1, <1>2, JoinAppend
<1>4. Append(ms, m) \in Seq(Sendable)
  BY AppendProperties
<1> QED
  BY <1>2, <1>3, <1>4, GivenAppend DEF l

LEMMA SendKeepsFrames ==
  ASSUME StreamTypeOK, FrameInv, SendSample \/ SendBulk \/ SendMark
  PROVE  FrameInv' /\ newest' \in Int
<1>1. newest \in Int
  BY DEF StreamTypeOK
<1>2. PICK ms \in Seq(Sendable) : Joins(sent, <<Line>>, ms) /\ FramesOK(Given(ms), newest)
  BY DEF FrameInv
<1> DEFINE g == Given(ms)
<1>3. g \in Seq(Parsed)
  BY GivenConcat
<1> HIDE DEF g
<1>4. ASSUME NEW m \in Sendable, Send(m), newest' \in Int, FramesOK(g \o Expand(m), newest')
      PROVE  FrameInv' /\ newest' \in Int
  <2>1. /\ Append(ms, m) \in Seq(Sendable) /\ Joins(sent', <<Line>>, Append(ms, m))
        /\ Given(Append(ms, m)) = g \o Expand(m)
    BY <1>2, <1>4, SentBehind DEF g
  <2> QED
    BY <1>4, <2>1 DEF FrameInv
<1>5. ASSUME NEW a \in Int, NEW b \in Int PROVE Higher(a, b) \in Int
  BY DEF Higher
<1>6. CASE SendSample
  <2>1. PICK m \in Sendable :
          /\ Send(m) /\ IsSample(m) /\ Count(m) \in NextAt(newest)
          /\ newest' = Higher(Count(m), newest)
    BY <1>6, SampleSent
  <2>2. m \in Parsed /\ Expand(m) = <<m>>
    BY <2>1, ExpandType DEF IsSample
  <2>3. g \o <<m>> = Append(g, m)
    BY <1>3, <2>2, AppendIsConcat
  <2>4. FramesOK(Append(g, m), Higher(Count(m), newest))
    BY <1>1, <1>2, <1>3, <2>1, <2>2, OneMoreFrame DEF g
  <2>5. newest' \in Int
    BY <1>1, <1>5, <2>1, NextAtIs
  <2> QED
    BY <1>4, <2>1, <2>2, <2>3, <2>4, <2>5
<1>7. CASE SendBulk
  <2>1. PICK m \in Sendable : \E n \in Nat \ {0} : \E step \in Steps :
           LET top == newest + (n - 1) * step
           IN /\ Send(m) /\ m.type = "BULK" /\ Len(m.frames) = n
              /\ \A k \in 1 .. n : k < n => m.frames[k].at = newest + k * step
              /\ m.frames[n].at \in NextAt(top)
              /\ newest' = Higher(m.frames[n].at, top)
    BY <1>7, BulkSent
  <2>2. PICK n \in Nat \ {0}, step \in Steps :
           LET top == newest + (n - 1) * step
           IN /\ Send(m) /\ m.type = "BULK" /\ Len(m.frames) = n
              /\ \A k \in 1 .. n : k < n => m.frames[k].at = newest + k * step
              /\ m.frames[n].at \in NextAt(top)
              /\ newest' = Higher(m.frames[n].at, top)
    BY <2>1
  <2> DEFINE e == Expand(m)
             top == newest + (n - 1) * step
  <2>3. /\ e \in Seq(Parsed) /\ Len(e) = n
        /\ \A k \in 1 .. n : e[k] = [type |-> "SAMPLE", demod |-> m.demod,
                                     frames |-> <<m.frames[k]>>]
    BY <2>2, ExpandType
  <2>4. \A k \in 1 .. n : IsSample(e[k]) /\ Count(e[k]) = m.frames[k].at
    <3> HIDE DEF e
    <3> QED
      BY <2>3 DEF IsSample, Count
  <2>5. n \in 1 .. n
    OBVIOUS
  <2>6. /\ \A k \in 1 .. n : k < n => Count(e[k]) = newest + k * step
        /\ Count(e[n]) \in NextAt(top) /\ newest' = Higher(Count(e[n]), top)
    <3> HIDE DEF e
    <3> QED
      BY <2>2, <2>4, <2>5
  <2>7. top \in Int
    <3>1. step \in Nat /\ n - 1 \in Nat
      BY SizesAssumption
    <3> QED
      BY <1>1, <3>1, NextStep
  <2> HIDE DEF e
  <2>8. FramesOK(g \o e, Higher(Count(e[n]), top))
    BY <1>1, <1>2, <1>3, <2>3, <2>4, <2>6, BulkFrames DEF g
  <2> HIDE DEF top
  <2>9. newest' \in Int
    BY <1>5, <2>6, <2>7, NextAtIs
  <2>10. FramesOK(g \o Expand(m), newest')
    BY <2>6, <2>8 DEF e
  <2> QED
    BY <1>4, <2>2, <2>9, <2>10
<1>8. CASE SendMark
  <2>1. PICK m \in Sendable : Send(m) /\ m.type = "ACK" /\ newest' = newest
    BY <1>8, MarkSent
  <2>2. m \in Parsed /\ Expand(m) = <<m>> /\ ~IsSample(m)
    BY <2>1, ExpandType DEF IsSample
  <2>3. g \o <<m>> = Append(g, m)
    BY <1>3, <2>2, AppendIsConcat
  <2>4. FramesOK(Append(g, m), newest)
    BY <1>1, <1>2, <1>3, <2>2, OneMoreMark DEF g
  <2> QED
    BY <1>1, <1>4, <2>1, <2>2, <2>3, <2>4
<1> QED
  BY <1>6, <1>7, <1>8

-----------------------------------------------------------------------------
(* The gate's arithmetic.                                                    *)

LEMMA HalfIs ==
  /\ Modulus \in Nat \ {0} /\ Half \in Nat /\ Half < Modulus /\ Modulus - Half >= Half
<1>1. Modulus \in Nat \ {0}
  BY SizesAssumption
<1>2. Modulus % 2 \in 0 .. 1 /\ Half \in Int /\ Modulus = 2 * Half + (Modulus % 2)
  BY <1>1, DivisionIs DEF Half
<1> DEFINE r == Modulus % 2
<1> HIDE DEF r
<1>3. r \in 0 .. 1 /\ Modulus = 2 * Half + r
  BY <1>2 DEF r
<1> QED
  BY <1>1, <1>2, <1>3

LEMMA QuotientAtLeast ==
  ASSUME NEW d \in Nat \ {0}, NEW a \in Nat
  PROVE  a \div d \in Nat
<1> DEFINE q == a \div d
           r == a % d
<1>1. r \in 0 .. d - 1 /\ q \in Int /\ a = d * q + r
  BY DivisionIs
<1> HIDE DEF q, r
<1>2. \A k \in Int : k <= 0 - 1 => d * k <= 0 - d
  OBVIOUS
<1>3. ~(q <= 0 - 1)
  BY <1>1, <1>2
<1> QED
  BY <1>1, <1>3 DEF q

LEMMA PeriodIs ==
  /\ FramesPerDemod \in Nat \ {0}
  /\ MinFramesBetweenRows \in Int /\ MinFramesBetweenRows <= FramesPerDemod
<1> DEFINE den == ExtclkDiv * ClocksPerSample
           fr == (ModDiv + den \div 2) \div den
<1>1. den \in Nat \ {0}
  <2>1. ExtclkDiv \in Nat \ {0} /\ ClocksPerSample \in Nat \ {0}
    BY SizesAssumption
  <2>2. \A i, j \in Nat \ {0} : i * j \in Nat \ {0}
    OBVIOUS
  <2> QED
    BY <2>1, <2>2
<1> HIDE DEF den
<1>2. fr \in Nat
  <2>1. den \div 2 \in Nat
    BY <1>1, QuotientAtLeast
  <2> DEFINE h == den \div 2
             z == ModDiv + h
  <2> HIDE DEF h
  <2>2. z \in Nat
    BY <2>1, SizesAssumption DEF h
  <2> HIDE DEF z
  <2>3. z \div den \in Nat
    BY <1>1, <2>2, QuotientAtLeast
  <2> QED
    BY <2>3 DEF z, h
<1>3. FramesPerDemod = IF ModDiv < 2 \/ fr < 1 THEN 1 ELSE fr
  BY DEF FramesPerDemod, den
<1> HIDE DEF fr
<1>4. FramesPerDemod \in Nat \ {0}
  BY <1>2, <1>3
<1>5. FramesPerDemod \div Slack \in Nat
  BY <1>4, QuotientAtLeast, SizesAssumption
<1> DEFINE q == FramesPerDemod \div Slack
<1> HIDE DEF q
<1>6. q \in Nat /\ MinFramesBetweenRows = FramesPerDemod - q
  BY <1>5 DEF MinFramesBetweenRows, q
<1> QED
  BY <1>4, <1>6

\* What the client sees of two counts tells how far they are from one another,
\* as long as that is no more than half the counter's range.
LEMMA CountsDiffer ==
  ASSUME NEW a \in Int, NEW c \in Int, a - c <= Half, a < c => c - a < Half
  PROVE  LET s == ((a % Modulus) - (c % Modulus)) % Modulus
         IN /\ s \in Nat /\ (a >= c => s = a - c) /\ (a < c => s > Half)
<1> DEFINE M == Modulus
           p == a \div M
           r == a % M
           q == c \div M
           t == c % M
           s == (r - t) % M
<1>1. M \in Nat \ {0} /\ Half \in Nat /\ Half < M /\ M - Half >= Half
  BY HalfIs
<1> HIDE DEF M
<1>2. /\ r \in 0 .. M - 1 /\ p \in Int /\ a = M * p + r
      /\ t \in 0 .. M - 1 /\ q \in Int /\ c = M * q + t
  BY <1>1, DivisionIs
<1> HIDE DEF p, q, r, t
<1>3. CASE a >= c
  <2>1. a - c \in 0 .. M - 1 /\ q - p \in Int
    BY <1>1, <1>2, <1>3
  <2>2. M * (q - p) + (a - c) = r - t
    BY <1>1, <1>2
  <2>3. (M * (q - p) + (a - c)) % M = a - c
    BY <1>1, <2>1, DivideBy
  <2> QED
    BY <1>3, <2>1, <2>2, <2>3 DEF M, r, t
<1>4. CASE a < c
  <2>1. a - c + M \in 0 .. M - 1 /\ q - p - 1 \in Int /\ a - c + M > Half
    BY <1>1, <1>2, <1>4
  <2>2. M * (q - p - 1) + (a - c + M) = r - t
    BY <1>1, <1>2
  <2>3. (M * (q - p - 1) + (a - c + M)) % M = a - c + M
    BY <1>1, <2>1, DivideBy
  <2> QED
    BY <1>4, <2>1, <2>2, <2>3 DEF M, r, t
<1> QED
  BY <1>3, <1>4

\* Where the steps fit, a frame behind a row and the frames after it is within half
\* the counter's range of the row.
LEMMA NearRow ==
  ASSUME NEW g \in Seq(Parsed), NEW r \in 1 .. Len(g), NEW n \in r + 1 .. Len(g),
         \A k \in r .. n : IsSample(g[k]),
         \A k \in r + 1 .. n - 1 :
           /\ Count(g[k]) - Count(g[r]) < FramesPerDemod
           /\ Count(g[k]) - Count(g[r]) <= Half,
         Follows(g, r, n), StepsFit
  PROVE  LET a == Count(g[n])
             c == Count(g[r])
         IN a \in Int /\ c \in Int /\ a - c <= Half /\ (a < c => c - a < Half)
<1> DEFINE A(k) == Count(g[k])
<1>1. \A k \in r .. n : A(k) \in Int
  <2>1. ASSUME NEW k \in r .. n PROVE A(k) \in Int
    <3>1. k \in 1 .. Len(g) /\ IsSample(g[k])
      OBVIOUS
    <3>2. g[k] \in Parsed
      BY <3>1, ElementOfSeq
    <3> QED
      BY <3>1, <3>2, CountType
  <2> QED
    BY <2>1
<1>2. A(r) \in Int /\ A(n) \in Int
  BY <1>1
<1>3. /\ \E b \in Backs : A(r) <= A(n) + b
      /\ \/ \E b \in Backs, d \in Jumps : A(n) <= A(r) + b + d
         \/ \E h \in r + 1 .. n - 1 : \E d \in Jumps : A(n) <= A(h) + d
  BY DEF Follows
<1>4. \A k \in r + 1 .. n - 1 : A(k) - A(r) < FramesPerDemod /\ A(k) - A(r) <= Half
  OBVIOUS
<1>5. /\ \A b \in Backs : b \in Nat /\ (b = 0 \/ b < Half)
      /\ \A d \in Jumps : d \in Nat /\ (d = 0 \/ FramesPerDemod - 1 + d <= Half)
      /\ \A b \in Backs, d \in Jumps : b + d <= Half
      /\ FramesPerDemod \in Nat \ {0} /\ Half \in Nat
  <2>1. FramesPerDemod \in Nat \ {0} /\ Half \in Nat
    BY PeriodIs, HalfIs
  <2>2. \A b \in Backs : b \in Nat /\ (b = 0 \/ (b \in Again /\ b < Half))
    <3>1. Again \subseteq Nat /\ \A b \in Again : b < Half
      BY SizesAssumption, StepsFit DEF StepsFit
    <3> QED
      BY <3>1 DEF Backs
  <2>3. \A d \in Jumps : d \in Nat /\ (d = 0 \/ (d \in Steps /\ FramesPerDemod - 1 + d <= Half))
    BY SizesAssumption, StepsFit DEF Jumps, StepsFit
  <2>4. \A d \in Steps, b \in Again : b + d <= Half
    BY StepsFit DEF StepsFit
  <2>5. ASSUME NEW b \in Backs, NEW d \in Jumps PROVE b + d <= Half
    <3>1. CASE b = 0 \/ d = 0
      BY <2>1, <2>2, <2>3, <3>1
    <3>2. CASE b # 0 /\ d # 0
      BY <2>2, <2>3, <2>4, <3>2
    <3> QED
      BY <3>1, <3>2
  <2> QED
    BY <2>1, <2>2, <2>3, <2>5
<1> HIDE DEF A
<1>6. A(n) < A(r) => A(r) - A(n) < Half
  <2>1. PICK b \in Backs : A(r) <= A(n) + b
    BY <1>3
  <2>2. b \in Nat /\ (b = 0 \/ b < Half) /\ Half \in Nat
    BY <1>5
  <2> QED
    BY <1>2, <2>1, <2>2
<1>7. A(n) - A(r) <= Half
  <2>1. CASE \E b \in Backs, d \in Jumps : A(n) <= A(r) + b + d
    BY <1>2, <1>5, <2>1
  <2>2. CASE \E h \in r + 1 .. n - 1 : \E d \in Jumps : A(n) <= A(h) + d
    <3>1. PICK h \in r + 1 .. n - 1 : \E d \in Jumps : A(n) <= A(h) + d
      BY <2>2
    <3>2. PICK d \in Jumps : A(n) <= A(h) + d
      BY <3>1
    <3>3. A(h) \in Int
      BY <1>1
    <3>4. A(h) - A(r) < FramesPerDemod /\ A(h) - A(r) <= Half
      BY <1>4
    <3>5. d \in Nat /\ (d = 0 \/ FramesPerDemod - 1 + d <= Half)
      BY <1>5
    <3> QED
      BY <1>2, <1>5, <3>2, <3>3, <3>4, <3>5
  <2> QED
    BY <1>3, <2>1, <2>2
<1> QED
  BY <1>2, <1>6, <1>7 DEF A

\* What the gate makes of a frame as near to the last row as that.
LEMMA GateDecides ==
  ASSUME NEW a \in Int, NEW c \in Int, a - c <= Half, a < c => c - a < Half,
         gate.have, gate.cnt = c % Modulus, NEW ch1
  PROVE  /\ GatePasses(a % Modulus, ch1) => a - c >= MinFramesBetweenRows
         /\ ~GatePasses(a % Modulus, ch1) => a - c < FramesPerDemod
<1> DEFINE s == Since(a % Modulus)
<1>1. s \in Nat /\ (a >= c => s = a - c) /\ (a < c => s > Half)
  BY CountsDiffer DEF Since
<1>2. GatePasses(a % Modulus, ch1) <=>
        s \in MinFramesBetweenRows .. Half /\ s # 0 /\ (ch1 # gate.ch1 \/ s >= FramesPerDemod)
  BY DEF GatePasses
<1>3. /\ FramesPerDemod \in Nat \ {0} /\ Half \in Nat
      /\ MinFramesBetweenRows \in Int /\ MinFramesBetweenRows <= FramesPerDemod
  BY PeriodIs, HalfIs
<1> HIDE DEF s
<1>4. GatePasses(a % Modulus, ch1) => a - c >= MinFramesBetweenRows
  BY <1>1, <1>2, <1>3
<1>5. ASSUME ~GatePasses(a % Modulus, ch1) PROVE a - c < FramesPerDemod
  <2>1. CASE a < c
    BY <1>3, <2>1
  <2>2. CASE a >= c
    <3>1. s = a - c /\ s <= Half
      BY <1>1, <2>2
    <3>2. ~(s \in MinFramesBetweenRows .. Half /\ s # 0 /\ s >= FramesPerDemod)
      BY <1>2, <1>5
    <3> QED
      BY <1>1, <1>3, <3>1, <3>2
  <2> QED
    BY <2>1, <2>2
<1> QED
  BY <1>4, <1>5

-----------------------------------------------------------------------------
(* The rows.                                                                 *)

IsGated(m) == IsSample(m) /\ m.demod
GatedIn(g, i, j) == \A k \in i .. j : IsGated(g[k])
Marked(g, k) == \E j \in 1 .. k - 1 : g[j].type = "ACK"

\* RowsAtDemodRate and RowsAfterMarker, of messages g and rows rs.
Upto(g, rs, i) == IF i < Len(rs) THEN rs[i + 1] ELSE Len(g) + 1
Rate(g, rs) ==
  \A i \in 1 .. Len(rs) :
    /\ (i < Len(rs) /\ GatedIn(g, rs[i], Upto(g, rs, i)))
         => Count(g[Upto(g, rs, i)]) - Count(g[rs[i]]) >= MinFramesBetweenRows
    /\ \A k \in rs[i] + 1 .. Upto(g, rs, i) - 1 :
         GatedIn(g, rs[i], k) => Count(g[k]) - Count(g[rs[i]]) < FramesPerDemod

IsRow(rs, k) == \E i \in 1 .. Len(rs) : rs[i] = k
MustBeRow(g, k) == Marked(g, k) /\ IsSample(g[k]) /\ (g[k].demod => ~g[k - 1].demod)
RowsMarked(g, rs) ==
  \A k \in 1 .. Len(g) : /\ IsRow(rs, k) => Marked(g, k)
                         /\ MustBeRow(g, k) => IsRow(rs, k)

RowsIn(g, rs) == \A i \in 1 .. Len(rs) : rs[i] \in 1 .. Len(g) /\ IsSample(g[rs[i]])
LastRow(rs) == rs[Len(rs)]
GatedSince(g, rs) == rs # <<>> /\ GatedIn(g, LastRow(rs), Len(g))
NearLast(g, rs) ==
  \A k \in LastRow(rs) + 1 .. Len(g) :
    /\ Count(g[k]) - Count(g[LastRow(rs)]) < FramesPerDemod
    /\ Count(g[k]) - Count(g[LastRow(rs)]) <= Half

\* SteadyChannelStops, of messages g and rows rs.
FirstChannel(m) == m.frames[1].ch1
Changes(g, rs) ==
  FramesPerDemod > Half =>
    \A i \in 1 .. Len(rs) - 1 :
      GatedIn(g, rs[i], rs[i + 1]) => FirstChannel(g[rs[i + 1]]) # FirstChannel(g[rs[i]])

\* The gate's last row is the last row of the log as long as every message since
\* was one for the gate.
GateInv ==
  /\ logging <=> Marked(got, Len(got) + 1)
  /\ RowsIn(got, rows) /\ RowsMarked(got, rows) /\ Changes(got, rows)
  /\ gate.have <=> GatedSince(got, rows)
  /\ gate.have => /\ gate.cnt = Count(got[LastRow(rows)]) % Modulus
                  /\ gate.ch1 = FirstChannel(got[LastRow(rows)])

\* Where the steps fit, the rows come at the rate, and what came after the gate's
\* row is near to it.
RateInv ==
  StepsFit => Rate(got, rows) /\ (gate.have => NearLast(got, rows))

\* One more message with the controller: what was known of the others stays.
LEMMA GotGrows ==
  ASSUME NEW g \in Seq(Parsed), NEW x \in Parsed
  PROVE  LET w == Append(g, x)
             n == Len(g) + 1
         IN /\ Len(g) \in Nat /\ w \in Seq(Parsed) /\ Len(w) = n /\ w[n] = x
            /\ \A i \in 1 .. Len(g) : w[i] = g[i]
            /\ \A i \in 1 .. n, j \in 0 .. Len(g) : GatedIn(w, i, j) <=> GatedIn(g, i, j)
            /\ \A i \in 1 .. n : GatedIn(w, i, n) <=> GatedIn(g, i, Len(g)) /\ IsGated(x)
            /\ \A k \in 1 .. n : Marked(w, k) <=> Marked(g, k)
            /\ Marked(w, n + 1) <=> Marked(g, n) \/ x.type = "ACK"
<1> DEFINE w == Append(g, x)
           n == Len(g) + 1
<1>1. /\ Len(g) \in Nat /\ w \in Seq(Parsed) /\ Len(w) = n /\ w[n] = x
      /\ \A i \in 1 .. Len(g) : w[i] = g[i]
  BY AppendProperties, LenProperties
<1> HIDE DEF w
<1>2. ASSUME NEW i \in 1 .. n, NEW j \in 0 .. Len(g)
      PROVE  GatedIn(w, i, j) <=> GatedIn(g, i, j)
  <2>1. \A k \in i .. j : w[k] = g[k]
    BY <1>1
  <2> QED
    BY <2>1 DEF GatedIn
<1>3. ASSUME NEW i \in 1 .. n
      PROVE  GatedIn(w, i, n) <=> GatedIn(g, i, Len(g)) /\ IsGated(x)
  <2>1. \A k \in i .. n : k = n \/ k \in i .. Len(g)
    BY <1>1
  <2>2. n \in i .. n /\ \A k \in i .. Len(g) : k \in i .. n /\ w[k] = g[k]
    BY <1>1
  <2> HIDE DEF n
  <2> QED
    BY <1>1, <2>1, <2>2 DEF GatedIn
<1>4. ASSUME NEW k \in 1 .. n PROVE Marked(w, k) <=> Marked(g, k)
  <2>1. \A j \in 1 .. k - 1 : w[j] = g[j]
    BY <1>1
  <2> QED
    BY <2>1 DEF Marked
<1>5. Marked(w, n + 1) <=> Marked(g, n) \/ x.type = "ACK"
  <2>1. /\ n \in 1 .. (n + 1) - 1
        /\ \A j \in 1 .. n - 1 : j \in 1 .. (n + 1) - 1 /\ w[j] = g[j]
        /\ \A j \in 1 .. (n + 1) - 1 : j = n \/ j \in 1 .. n - 1
    BY <1>1
  <2> HIDE DEF n
  <2> QED
    BY <1>1, <2>1 DEF Marked
<1> QED
  BY <1>1, <1>2, <1>3, <1>4, <1>5 DEF w

LEMMA RowsGrow ==
  ASSUME NEW rs \in Seq(Nat), NEW n \in Nat
  PROVE  LET qs == Append(rs, n)
         IN /\ Len(rs) \in Nat /\ Len(qs) = Len(rs) + 1 /\ qs[Len(rs) + 1] = n
            /\ \A i \in 1 .. Len(rs) : qs[i] = rs[i] /\ rs[i] \in Nat
            /\ qs \in Seq(Nat) /\ qs # <<>>
<1>1. \A i \in 1 .. Len(rs) : rs[i] \in Nat
  BY ElementOfSeq
<1> QED
  BY <1>1, AppendProperties, LenProperties

\* A message that gives no row.
LEMMA RateWithoutRow ==
  ASSUME NEW g \in Seq(Parsed), NEW rs \in Seq(Nat), RowsIn(g, rs), Rate(g, rs),
         NEW x \in Parsed,
         GatedSince(g, rs) /\ IsGated(x) => Count(x) - Count(g[LastRow(rs)]) < FramesPerDemod
  PROVE  Rate(Append(g, x), rs)
<1> DEFINE w == Append(g, x)
           n == Len(g) + 1
<1>1. /\ Len(g) \in Nat /\ Len(w) = n /\ w[n] = x
      /\ \A i \in 1 .. Len(g) : w[i] = g[i]
      /\ \A i \in 1 .. n, j \in 0 .. Len(g) : GatedIn(w, i, j) <=> GatedIn(g, i, j)
      /\ \A i \in 1 .. n : GatedIn(w, i, n) <=> GatedIn(g, i, Len(g)) /\ IsGated(x)
  BY GotGrows
<1>2. Len(rs) \in Nat /\ \A i \in 1 .. Len(rs) : rs[i] \in 1 .. Len(g)
  BY LenProperties DEF RowsIn
<1> HIDE DEF w
<1>3. ASSUME NEW i \in 1 .. Len(rs)
      PROVE  /\ (i < Len(rs) /\ GatedIn(w, rs[i], Upto(w, rs, i)))
                  => Count(w[Upto(w, rs, i)]) - Count(w[rs[i]]) >= MinFramesBetweenRows
             /\ \A k \in rs[i] + 1 .. Upto(w, rs, i) - 1 :
                  GatedIn(w, rs[i], k) => Count(w[k]) - Count(w[rs[i]]) < FramesPerDemod
  <2> DEFINE r == rs[i]
             u == Upto(g, rs, i)
  <2>1. /\ (i < Len(rs) /\ GatedIn(g, r, u))
             => Count(g[u]) - Count(g[r]) >= MinFramesBetweenRows
        /\ \A k \in r + 1 .. u - 1 :
             GatedIn(g, r, k) => Count(g[k]) - Count(g[r]) < FramesPerDemod
    BY DEF Rate
  <2>2. r \in 1 .. Len(g) /\ w[r] = g[r]
    BY <1>1, <1>2
  <2> HIDE DEF r, u
  <2>3. CASE i < Len(rs)
    <3>1. u = rs[i + 1] /\ u \in 1 .. Len(g) /\ Upto(w, rs, i) = u /\ w[u] = g[u]
      BY <1>1, <1>2, <2>3 DEF Upto, u
    <3>2. u \in 1 .. Len(g) /\ r \in 1 .. Len(g) /\ Len(g) \in Nat
      BY <1>1, <2>2, <3>1
    <3>3. u \in 0 .. Len(g) /\ r \in 1 .. n
      BY <3>2
    <3>4. GatedIn(w, r, u) <=> GatedIn(g, r, u)
      BY <1>1, <3>3
    <3>5. ASSUME NEW k \in r + 1 .. u - 1
          PROVE  (GatedIn(w, r, k) <=> GatedIn(g, r, k)) /\ w[k] = g[k]
      <4>1. k \in 1 .. Len(g) /\ k \in 0 .. Len(g) /\ r \in 1 .. n
        BY <3>2, <3>3
      <4> HIDE DEF n
      <4> QED
        BY <1>1, <4>1
    <3> QED
      BY <2>1, <2>2, <3>1, <3>4, <3>5 DEF r
  <2>4. CASE ~(i < Len(rs))
    <3>1. /\ i = Len(rs) /\ r = LastRow(rs) /\ rs # <<>> /\ u = n
          /\ Upto(w, rs, i) = n + 1
      BY <1>1, <1>2, <2>4 DEF LastRow, Upto, r, u
    <3>2. ASSUME NEW k \in r + 1 .. n, GatedIn(w, r, k)
          PROVE  Count(w[k]) - Count(w[r]) < FramesPerDemod
      <4>1. CASE k = n
        <5>1. GatedSince(g, rs) /\ IsGated(x) /\ w[k] = x
          BY <1>1, <2>2, <3>1, <3>2, <4>1 DEF GatedSince
        <5> QED
          BY <2>2, <3>1, <5>1
      <4>2. CASE k # n
        <5>1. k \in r + 1 .. u - 1 /\ k \in 1 .. Len(g) /\ w[k] = g[k]
          BY <1>1, <2>2, <3>1, <4>2
        <5>2. GatedIn(g, r, k)
          BY <1>1, <2>2, <3>2, <5>1
        <5> QED
          BY <2>1, <2>2, <5>1, <5>2
      <4> QED
        BY <4>1, <4>2
    <3>3. (n + 1) - 1 = n
      BY <1>1
    <3> QED
      BY <2>4, <3>1, <3>2, <3>3 DEF r
  <2> QED
    BY <2>3, <2>4
<1>4. Rate(w, rs)
  BY <1>3 DEF Rate
<1> QED
  BY <1>4 DEF w

\* A message that gives one.
LEMMA RateWithRow ==
  ASSUME NEW g \in Seq(Parsed), NEW rs \in Seq(Nat), RowsIn(g, rs), Rate(g, rs),
         NEW x \in Parsed,
         GatedSince(g, rs) /\ IsGated(x)
           => Count(x) - Count(g[LastRow(rs)]) >= MinFramesBetweenRows
  PROVE  Rate(Append(g, x), Append(rs, Len(g) + 1))
<1> DEFINE w == Append(g, x)
           n == Len(g) + 1
           qs == Append(rs, n)
<1>1. /\ Len(g) \in Nat /\ Len(w) = n /\ w[n] = x
      /\ \A i \in 1 .. Len(g) : w[i] = g[i]
      /\ \A i \in 1 .. n, j \in 0 .. Len(g) : GatedIn(w, i, j) <=> GatedIn(g, i, j)
      /\ \A i \in 1 .. n : GatedIn(w, i, n) <=> GatedIn(g, i, Len(g)) /\ IsGated(x)
  BY GotGrows
<1>2. n \in Nat
  BY <1>1
<1>3. /\ Len(rs) \in Nat /\ Len(qs) = Len(rs) + 1 /\ qs[Len(rs) + 1] = n
      /\ \A i \in 1 .. Len(rs) : qs[i] = rs[i]
  BY <1>2, RowsGrow
<1>4. \A i \in 1 .. Len(rs) : rs[i] \in 1 .. Len(g)
  BY DEF RowsIn
<1> HIDE DEF w, qs
<1>5. ASSUME NEW i \in 1 .. Len(qs)
      PROVE  /\ (i < Len(qs) /\ GatedIn(w, qs[i], Upto(w, qs, i)))
                  => Count(w[Upto(w, qs, i)]) - Count(w[qs[i]]) >= MinFramesBetweenRows
             /\ \A k \in qs[i] + 1 .. Upto(w, qs, i) - 1 :
                  GatedIn(w, qs[i], k) => Count(w[k]) - Count(w[qs[i]]) < FramesPerDemod
  <2>1. CASE i = Len(rs) + 1
    <3>1. qs[i] = n /\ Upto(w, qs, i) = n + 1 /\ ~(i < Len(qs))
      BY <1>1, <1>3, <2>1 DEF Upto
    <3>2. \A k \in n + 1 .. (n + 1) - 1 : FALSE
      BY <1>2
    <3> HIDE DEF n
    <3> QED
      BY <3>1, <3>2
  <2>2. CASE i # Len(rs) + 1
    <3> DEFINE r == rs[i]
               u == Upto(g, rs, i)
    <3>1. i \in 1 .. Len(rs) /\ i < Len(qs) /\ i + 1 \in 1 .. Len(qs)
      BY <1>3, <2>2
    <3>2. qs[i] = r /\ r \in 1 .. Len(g) /\ w[r] = g[r] /\ Upto(w, qs, i) = qs[i + 1]
      BY <1>1, <1>3, <1>4, <3>1 DEF Upto
    <3>3. /\ (i < Len(rs) /\ GatedIn(g, r, u))
               => Count(g[u]) - Count(g[r]) >= MinFramesBetweenRows
          /\ \A k \in r + 1 .. u - 1 :
               GatedIn(g, r, k) => Count(g[k]) - Count(g[r]) < FramesPerDemod
      BY <3>1 DEF Rate
    <3>4. u = qs[i + 1] /\ u \in 1 .. n
      <4>1. CASE i < Len(rs)
        <5>1. i + 1 \in 1 .. Len(rs)
          BY <1>3, <3>1, <4>1
        <5>2. qs[i + 1] = rs[i + 1] /\ rs[i + 1] \in 1 .. Len(g) /\ u = rs[i + 1]
          BY <1>3, <1>4, <4>1, <5>1 DEF Upto
        <5>3. u \in 1 .. n
          BY <1>1, <5>2
        <5> HIDE DEF u
        <5> QED
          BY <5>2, <5>3
      <4>2. CASE ~(i < Len(rs))
        <5>1. i = Len(rs) /\ u = n
          BY <1>3, <3>1, <4>2 DEF Upto
        <5>2. n \in 1 .. n
          BY <1>1
        <5> HIDE DEF u, n
        <5> QED
          BY <1>3, <5>1, <5>2
      <4> QED
        BY <4>1, <4>2
    <3> HIDE DEF r, u
    <3>5. ASSUME NEW k \in r + 1 .. u - 1
          PROVE  (GatedIn(w, r, k) <=> GatedIn(g, r, k)) /\ w[k] = g[k]
      <4>1. k \in 1 .. Len(g) /\ k \in 0 .. Len(g) /\ r \in 1 .. n
        BY <1>1, <3>2, <3>4
      <4> HIDE DEF n
      <4> QED
        BY <1>1, <4>1
    <3>6. ASSUME GatedIn(w, r, u)
          PROVE  Count(w[u]) - Count(w[r]) >= MinFramesBetweenRows
      <4>1. CASE i < Len(rs)
        <5>1. u \in 1 .. Len(g)
          BY <1>3, <1>4, <3>1, <4>1 DEF Upto, u
        <5>2. u \in 0 .. Len(g) /\ r \in 1 .. n /\ w[u] = g[u]
          BY <1>1, <3>2, <5>1
        <5> HIDE DEF n
        <5>3. GatedIn(g, r, u)
          BY <1>1, <3>6, <5>2
        <5> QED
          BY <3>2, <3>3, <4>1, <5>2, <5>3
      <4>2. CASE ~(i < Len(rs))
        <5>1. i = Len(rs) /\ u = n /\ r = LastRow(rs) /\ rs # <<>> /\ r \in 1 .. n
          BY <1>1, <1>3, <3>1, <3>2, <4>2 DEF Upto, u, r, LastRow
        <5>2. GatedIn(g, r, Len(g)) /\ IsGated(x) /\ w[u] = x
          BY <1>1, <3>6, <5>1
        <5> QED
          BY <3>2, <5>1, <5>2 DEF GatedSince
      <4> QED
        BY <4>1, <4>2
    <3> QED
      BY <3>2, <3>3, <3>4, <3>5, <3>6
  <2> QED
    BY <2>1, <2>2
<1>6. Rate(w, qs)
  BY <1>5 DEF Rate
<1> QED
  BY <1>6 DEF w, qs

LEMMA ChangesWithoutRow ==
  ASSUME NEW g \in Seq(Parsed), NEW rs \in Seq(Nat), RowsIn(g, rs), Changes(g, rs),
         NEW x \in Parsed
  PROVE  Changes(Append(g, x), rs)
<1> DEFINE w == Append(g, x)
           n == Len(g) + 1
<1>1. /\ Len(g) \in Nat /\ \A i \in 1 .. Len(g) : w[i] = g[i]
      /\ \A i \in 1 .. n, j \in 0 .. Len(g) : GatedIn(w, i, j) <=> GatedIn(g, i, j)
  BY GotGrows
<1>2. Len(rs) \in Nat /\ \A i \in 1 .. Len(rs) : rs[i] \in 1 .. Len(g)
  BY LenProperties DEF RowsIn
<1> HIDE DEF w
<1>3. ASSUME FramesPerDemod > Half, NEW i \in 1 .. Len(rs) - 1,
             GatedIn(w, rs[i], rs[i + 1])
      PROVE  FirstChannel(w[rs[i + 1]]) # FirstChannel(w[rs[i]])
  <2>1. i \in 1 .. Len(rs) /\ i + 1 \in 1 .. Len(rs)
    BY <1>2
  <2>2. rs[i] \in 1 .. Len(g) /\ rs[i + 1] \in 1 .. Len(g)
    BY <1>2, <2>1
  <2>3. rs[i] \in 1 .. n /\ rs[i + 1] \in 0 .. Len(g)
    BY <1>1, <2>2
  <2>4. GatedIn(g, rs[i], rs[i + 1])
    BY <1>1, <1>3, <2>3
  <2>5. w[rs[i]] = g[rs[i]] /\ w[rs[i + 1]] = g[rs[i + 1]]
    BY <1>1, <2>2
  <2> QED
    BY <1>3, <2>4, <2>5 DEF Changes
<1>4. Changes(w, rs)
  BY <1>3 DEF Changes
<1> QED
  BY <1>4 DEF w

LEMMA ChangesWithRow ==
  ASSUME NEW g \in Seq(Parsed), NEW rs \in Seq(Nat), RowsIn(g, rs), Changes(g, rs),
         NEW x \in Parsed,
         FramesPerDemod > Half /\ GatedSince(g, rs) /\ IsGated(x)
           => FirstChannel(x) # FirstChannel(g[LastRow(rs)])
  PROVE  Changes(Append(g, x), Append(rs, Len(g) + 1))
<1> DEFINE w == Append(g, x)
           n == Len(g) + 1
           qs == Append(rs, n)
<1>1. /\ Len(g) \in Nat /\ w[n] = x /\ \A i \in 1 .. Len(g) : w[i] = g[i]
      /\ \A i \in 1 .. n : GatedIn(w, i, n) <=> GatedIn(g, i, Len(g)) /\ IsGated(x)
  BY GotGrows
<1>2. n \in Nat
  BY <1>1
<1>3. /\ Len(rs) \in Nat /\ Len(qs) = Len(rs) + 1 /\ qs[Len(rs) + 1] = n
      /\ \A i \in 1 .. Len(rs) : qs[i] = rs[i] /\ rs[i] \in 1 .. Len(g)
  BY <1>2, RowsGrow DEF RowsIn
<1>4. Changes(w, rs)
  BY ChangesWithoutRow
<1> HIDE DEF w, qs
<1>5. ASSUME FramesPerDemod > Half, NEW i \in 1 .. Len(qs) - 1,
             GatedIn(w, qs[i], qs[i + 1])
      PROVE  FirstChannel(w[qs[i + 1]]) # FirstChannel(w[qs[i]])
  <2>1. CASE i \in 1 .. Len(rs) - 1
    <3>1. i \in 1 .. Len(rs) /\ i + 1 \in 1 .. Len(rs)
      BY <1>3, <2>1
    <3>2. qs[i] = rs[i] /\ qs[i + 1] = rs[i + 1]
      BY <1>3, <3>1
    <3> QED
      BY <1>4, <1>5, <2>1, <3>2 DEF Changes
  <2>2. CASE i = Len(rs)
    <3>1. /\ i \in 1 .. Len(rs) /\ qs[i] = LastRow(rs) /\ qs[i + 1] = n
          /\ LastRow(rs) \in 1 .. Len(g) /\ rs # <<>>
      BY <1>3, <1>5, <2>2 DEF LastRow
    <3>2. LastRow(rs) \in 1 .. n /\ w[LastRow(rs)] = g[LastRow(rs)]
      BY <1>1, <3>1
    <3> HIDE DEF n
    <3>3. GatedSince(g, rs) /\ IsGated(x)
      BY <1>1, <1>5, <3>1, <3>2 DEF GatedSince
    <3> QED
      BY <1>1, <1>5, <3>1, <3>2, <3>3
  <2> QED
    BY <1>3, <2>1, <2>2
<1>6. Changes(w, qs)
  BY <1>5 DEF Changes
<1> QED
  BY <1>6 DEF w, qs

LEMMA MustBeRowStays ==
  ASSUME NEW g \in Seq(Parsed), NEW x \in Parsed, NEW k \in 1 .. Len(g)
  PROVE  MustBeRow(Append(g, x), k) <=> MustBeRow(g, k)
<1> DEFINE w == Append(g, x)
           n == Len(g) + 1
<1>1. /\ Len(g) \in Nat /\ \A i \in 1 .. Len(g) : w[i] = g[i]
      /\ \A i \in 1 .. n : Marked(w, i) <=> Marked(g, i)
  BY GotGrows
<1> HIDE DEF w
<1>2. w[k] = g[k] /\ (Marked(w, k) <=> Marked(g, k))
  BY <1>1
<1>3. CASE k = 1
  <2>1. ~Marked(g, k)
    BY <1>3 DEF Marked
  <2> QED
    BY <1>2, <2>1 DEF MustBeRow, w
<1>4. CASE k # 1
  <2>1. k - 1 \in 1 .. Len(g)
    BY <1>1, <1>4
  <2>2. w[k - 1] = g[k - 1]
    BY <1>1, <2>1
  <2> QED
    BY <1>2, <2>2 DEF MustBeRow, w
<1> QED
  BY <1>3, <1>4

LEMMA MarkedWithoutRow ==
  ASSUME NEW g \in Seq(Parsed), NEW rs \in Seq(Nat), RowsIn(g, rs), RowsMarked(g, rs),
         NEW x \in Parsed,
         Marked(g, Len(g) + 1) /\ IsSample(x) => x.demod /\ g[Len(g)].demod
  PROVE  RowsIn(Append(g, x), rs) /\ RowsMarked(Append(g, x), rs)
<1> DEFINE w == Append(g, x)
           n == Len(g) + 1
<1>1. /\ Len(g) \in Nat /\ Len(w) = n /\ w[n] = x /\ \A i \in 1 .. Len(g) : w[i] = g[i]
      /\ \A k \in 1 .. n : Marked(w, k) <=> Marked(g, k)
  BY GotGrows
<1>2. \A i \in 1 .. Len(rs) : rs[i] \in 1 .. Len(g) /\ IsSample(g[rs[i]])
  BY DEF RowsIn
<1>3. \A k \in 1 .. Len(g) : MustBeRow(w, k) <=> MustBeRow(g, k)
  BY MustBeRowStays
<1> HIDE DEF w
<1>4. RowsIn(w, rs)
  <2>1. ASSUME NEW i \in 1 .. Len(rs)
        PROVE  rs[i] \in 1 .. Len(w) /\ IsSample(w[rs[i]])
    <3>1. rs[i] \in 1 .. Len(g) /\ IsSample(g[rs[i]])
      BY <1>2
    <3> QED
      BY <1>1, <3>1
  <2> QED
    BY <2>1 DEF RowsIn
<1>5. ~IsRow(rs, n)
  BY <1>1, <1>2 DEF IsRow
<1>6. ~MustBeRow(w, n)
  <2> SUFFICES ASSUME MustBeRow(w, n) PROVE FALSE
    OBVIOUS
  <2>1. Marked(w, n) /\ IsSample(x) /\ (x.demod => ~w[n - 1].demod)
    BY <1>1 DEF MustBeRow
  <2>2. Marked(g, n) /\ n \in 1 .. n
    BY <1>1, <2>1
  <2>3. PICK j \in 1 .. n - 1 : g[j].type = "ACK"
    BY <2>2 DEF Marked
  <2>4. n - 1 = Len(g) /\ Len(g) \in 1 .. Len(g)
    BY <1>1, <2>3
  <2>5. w[n - 1] = g[Len(g)]
    BY <1>1, <2>4
  <2> QED
    BY <2>1, <2>2, <2>5
<1>7. \A k \in 1 .. n : k = n \/ k \in 1 .. Len(g)
  BY <1>1
<1>8. RowsMarked(w, rs)
  <2>1. ASSUME NEW k \in 1 .. n
        PROVE  (IsRow(rs, k) => Marked(w, k)) /\ (MustBeRow(w, k) => IsRow(rs, k))
    <3>1. CASE k = n
      BY <1>5, <1>6, <3>1
    <3>2. CASE k \in 1 .. Len(g)
      BY <1>1, <1>3, <3>2 DEF RowsMarked
    <3> QED
      BY <1>7, <3>1, <3>2
  <2> QED
    BY <1>1, <2>1 DEF RowsMarked
<1> QED
  BY <1>4, <1>8 DEF w

LEMMA MarkedWithRow ==
  ASSUME NEW g \in Seq(Parsed), NEW rs \in Seq(Nat), RowsIn(g, rs), RowsMarked(g, rs),
         NEW x \in Parsed, IsSample(x), Marked(g, Len(g) + 1)
  PROVE  LET w == Append(g, x)
             qs == Append(rs, Len(g) + 1)
         IN RowsIn(w, qs) /\ RowsMarked(w, qs)
<1> DEFINE w == Append(g, x)
           n == Len(g) + 1
           qs == Append(rs, n)
<1>1. /\ Len(g) \in Nat /\ Len(w) = n /\ w[n] = x /\ \A i \in 1 .. Len(g) : w[i] = g[i]
      /\ \A k \in 1 .. n : Marked(w, k) <=> Marked(g, k)
  BY GotGrows
<1>2. \A i \in 1 .. Len(rs) : rs[i] \in 1 .. Len(g) /\ IsSample(g[rs[i]])
  BY DEF RowsIn
<1>3. \A k \in 1 .. Len(g) : MustBeRow(w, k) <=> MustBeRow(g, k)
  BY MustBeRowStays
<1>4. n \in Nat /\ n \in 1 .. n /\ Marked(w, n)
  BY <1>1
<1>5. /\ Len(rs) \in Nat /\ Len(qs) = Len(rs) + 1 /\ qs[Len(rs) + 1] = n
      /\ \A i \in 1 .. Len(rs) : qs[i] = rs[i]
  BY <1>4, RowsGrow
<1> HIDE DEF w, qs
<1>6. \A i \in 1 .. Len(qs) : i = Len(rs) + 1 \/ i \in 1 .. Len(rs)
  BY <1>5
<1>7. RowsIn(w, qs)
  <2>1. ASSUME NEW i \in 1 .. Len(qs) PROVE qs[i] \in 1 .. Len(w) /\ IsSample(w[qs[i]])
    <3>1. CASE i = Len(rs) + 1
      BY <1>1, <1>4, <1>5, <3>1
    <3>2. CASE i \in 1 .. Len(rs)
      <4>1. qs[i] = rs[i] /\ rs[i] \in 1 .. Len(g) /\ w[rs[i]] = g[rs[i]] /\ IsSample(g[rs[i]])
        BY <1>1, <1>2, <1>5, <3>2
      <4> QED
        BY <1>1, <4>1
    <3> QED
      BY <1>6, <3>1, <3>2
  <2> QED
    BY <2>1 DEF RowsIn
<1>8. IsRow(qs, n)
  <2>1. Len(rs) + 1 \in 1 .. Len(qs)
    BY <1>5
  <2> QED
    BY <1>5, <2>1 DEF IsRow
<1>9. ASSUME NEW k \in 1 .. Len(g) PROVE IsRow(qs, k) <=> IsRow(rs, k)
  <2>1. n # k
    BY <1>1
  <2>2. \A i \in 1 .. Len(rs) : i \in 1 .. Len(qs)
    BY <1>5
  <2> HIDE DEF n
  <2> QED
    BY <1>5, <1>6, <2>1, <2>2 DEF IsRow
<1>10. \A k \in 1 .. n : k = n \/ k \in 1 .. Len(g)
  BY <1>1
<1>11. RowsMarked(w, qs)
  <2>1. ASSUME NEW k \in 1 .. n
        PROVE  (IsRow(qs, k) => Marked(w, k)) /\ (MustBeRow(w, k) => IsRow(qs, k))
    <3>1. CASE k = n
      BY <1>4, <1>8, <3>1
    <3>2. CASE k \in 1 .. Len(g)
      BY <1>1, <1>3, <1>9, <3>2 DEF RowsMarked
    <3> QED
      BY <1>10, <3>1, <3>2
  <2> QED
    BY <1>1, <2>1 DEF RowsMarked
<1> QED
  BY <1>7, <1>11 DEF w, qs

\* Whether the last row is followed by messages for the gate alone.
LEMMA SinceWithoutRow ==
  ASSUME NEW g \in Seq(Parsed), NEW rs \in Seq(Nat), RowsIn(g, rs), NEW x \in Parsed
  PROVE  /\ GatedSince(Append(g, x), rs) <=> GatedSince(g, rs) /\ IsGated(x)
         /\ rs # <<>> => /\ LastRow(rs) \in 1 .. Len(g)
                         /\ Append(g, x)[LastRow(rs)] = g[LastRow(rs)]
         /\ GatedSince(g, rs) /\ NearLast(g, rs)
              /\ Count(x) - Count(g[LastRow(rs)]) < FramesPerDemod
              /\ Count(x) - Count(g[LastRow(rs)]) <= Half
            => NearLast(Append(g, x), rs)
<1> DEFINE w == Append(g, x)
           n == Len(g) + 1
           r == LastRow(rs)
<1>1. /\ Len(g) \in Nat /\ Len(w) = n /\ w[n] = x /\ \A i \in 1 .. Len(g) : w[i] = g[i]
      /\ \A i \in 1 .. n : GatedIn(w, i, n) <=> GatedIn(g, i, Len(g)) /\ IsGated(x)
  BY GotGrows
<1> HIDE DEF w
<1>2. ASSUME rs # <<>> PROVE r \in 1 .. Len(g) /\ r \in 1 .. n /\ w[r] = g[r]
  <2>1. Len(rs) \in Nat \ {0}
    BY <1>2, EmptySeq
  <2>2. Len(rs) \in 1 .. Len(rs)
    BY <2>1
  <2>3. r \in 1 .. Len(g)
    BY <2>2 DEF RowsIn, LastRow
  <2> QED
    BY <1>1, <2>3
<1> HIDE DEF r
<1>3. GatedSince(w, rs) <=> GatedSince(g, rs) /\ IsGated(x)
  BY <1>1, <1>2 DEF GatedSince, r
<1>4. ASSUME GatedSince(g, rs), NearLast(g, rs), Count(x) - Count(g[r]) < FramesPerDemod,
             Count(x) - Count(g[r]) <= Half
      PROVE  NearLast(w, rs)
  <2>1. r \in 1 .. Len(g) /\ w[r] = g[r]
    BY <1>2, <1>4 DEF GatedSince
  <2>2. ASSUME NEW k \in r + 1 .. Len(w)
        PROVE  Count(w[k]) - Count(w[r]) < FramesPerDemod /\ Count(w[k]) - Count(w[r]) <= Half
    <3>1. k = n \/ (k \in r + 1 .. Len(g) /\ w[k] = g[k])
      BY <1>1, <2>1
    <3> QED
      BY <1>1, <1>4, <2>1, <3>1 DEF NearLast, r
  <2> QED
    BY <2>2 DEF NearLast, r
<1> QED
  BY <1>2, <1>3, <1>4 DEF w, r

LEMMA SinceWithRow ==
  ASSUME NEW g \in Seq(Parsed), NEW rs \in Seq(Nat), NEW x \in Parsed, IsSample(x)
  PROVE  LET w == Append(g, x)
             qs == Append(rs, Len(g) + 1)
         IN /\ GatedSince(w, qs) <=> x.demod
            /\ NearLast(w, qs) /\ w[LastRow(qs)] = x
<1> DEFINE w == Append(g, x)
           n == Len(g) + 1
           qs == Append(rs, n)
<1>1. Len(g) \in Nat /\ Len(w) = n /\ w[n] = x
  BY GotGrows
<1>2. n \in Nat
  BY <1>1
<1>3. qs # <<>> /\ LastRow(qs) = n
  BY <1>2, RowsGrow DEF LastRow
<1> HIDE DEF w, qs
<1>4. GatedIn(w, n, n) <=> x.demod
  <2>1. \A k \in n .. n : k = n
    BY <1>2
  <2>2. n \in n .. n
    BY <1>2
  <2> HIDE DEF n
  <2> QED
    BY <1>1, <2>1, <2>2 DEF GatedIn, IsGated
<1>5. \A k \in n + 1 .. Len(w) : FALSE
  BY <1>1
<1> HIDE DEF n
<1>6. NearLast(w, qs)
  BY <1>3, <1>5 DEF NearLast
<1> QED
  BY <1>1, <1>3, <1>4, <1>6 DEF w, qs, n, GatedSince

-----------------------------------------------------------------------------
(* The steps.                                                                *)

LEMMA JoinsShift ==
  ASSUME NEW T, NEW l \in Seq(T), NEW p \in Seq(T), NEW a \in Seq(T), NEW w,
         Joins(w, l \o p, a)
  PROVE  p \o a \in Seq(T) /\ Joins(w, l, p \o a)
<1>1. (l \o p) \o a = l \o (p \o a)
  OBVIOUS
<1>2. p \o a \in Seq(T)
  BY ConcatProperties
<1> QED
  BY <1>1, <1>2 DEF Joins

LEMMA JoinsOnce ==
  ASSUME NEW T, NEW l \in Seq(T), NEW p \in Seq(T), NEW q \in Seq(T), NEW w,
         Joins(w, l, p), Joins(w, l, q)
  PROVE  p = q
<1>1. l \o p = l \o q
  BY DEF Joins
<1> QED
  BY <1>1, ConcatSimplifications

\* What is with the controller is the front of what the server has sent.
LEMMA FrontFollows ==
  ASSUME NEW w \in Seq(Parsed), NEW t \in Seq(Parsed), NEW all, Joins(all, w, t),
         NEW top, FramesOK(all, top), NEW r \in 1 .. Len(w), NEW n \in r + 1 .. Len(w),
         IsSample(w[r]), IsSample(w[n])
  PROVE  Follows(w, r, n)
<1>1. /\ Len(w) \in Nat /\ Len(t) \in Nat /\ Len(all) = Len(w) + Len(t)
      /\ \A i \in 1 .. Len(w) : all[i] = w[i]
  BY FrontOfConcat, LenProperties DEF Joins
<1>2. all[r] = w[r] /\ all[n] = w[n] /\ r \in 1 .. Len(all) /\ n \in r + 1 .. Len(all)
  BY <1>1
<1>3. Follows(all, r, n)
  BY <1>2 DEF FramesOK
<1>4. \A h \in r + 1 .. n - 1 : all[h] = w[h]
  BY <1>1
<1> QED
  BY <1>2, <1>3, <1>4 DEF Follows

LEMMA DeliveredFollows ==
  ASSUME StreamTypeOK, WireInv, FrameInv, inbox # <<>>, IsSample(Head(inbox)),
         NEW r \in 1 .. Len(got), IsSample(got[r])
  PROVE  Follows(Append(got, Head(inbox)), r, Len(got) + 1)
<1>1. PICK past \in Seq(Sendable), ahead \in Seq(Sendable) : Wire(past, ahead)
  BY DEF WireInv
<1>2. PICK ms \in Seq(Sendable) : Joins(sent, <<Line>>, ms) /\ FramesOK(Given(ms), newest)
  BY DEF FrameInv
<1>3. ms = past \o ahead
  <2> DEFINE l == <<Line>>
  <2>1. /\ l \in Seq(AnyMessage) /\ past \in Seq(AnyMessage) /\ ahead \in Seq(AnyMessage)
        /\ ms \in Seq(AnyMessage)
    BY LineBytes, SendableAreAny
  <2>2. Joins(sent, l \o past, ahead) /\ Joins(sent, l, ms)
    BY <1>1, <1>2 DEF Wire
  <2> HIDE DEF l
  <2>3. past \o ahead \in Seq(AnyMessage) /\ Joins(sent, l, past \o ahead)
    BY <2>1, <2>2, JoinsShift
  <2> DEFINE q == past \o ahead
  <2> HIDE DEF q
  <2>4. q \in Seq(AnyMessage) /\ Joins(sent, l, q)
    BY <2>3 DEF q
  <2>5. ms = q
    BY <2>1, <2>2, <2>4, JoinsOnce
  <2> QED
    BY <2>5 DEF q
<1> DEFINE gp == Given(past)
           ga == Given(ahead)
           x == Head(inbox)
           w == Append(got, x)
           rest == Tail(inbox)
           all == Given(ms)
<1>4. gp \in Seq(Parsed) /\ ga \in Seq(Parsed) /\ all = gp \o ga
  BY <1>3, GivenConcat
<1>5. Joins(gp, got, inbox) /\ got \in Seq(Parsed) /\ inbox \in Seq(Parsed)
  BY <1>1 DEF Wire, StreamTypeOK
<1>6. FramesOK(all, newest)
  BY <1>2
<1> HIDE DEF gp, ga, all
<1>7. /\ x \in Parsed /\ rest \in Seq(Parsed) /\ w \in Seq(Parsed) /\ Joins(gp, w, rest)
  BY <1>5, JoinHead
<1>8. /\ Len(got) \in Nat /\ Len(w) = Len(got) + 1 /\ w[Len(got) + 1] = x /\ w[r] = got[r]
  BY <1>5, <1>7, GotGrows
<1> HIDE DEF w, rest, x
<1>9. rest \o ga \in Seq(Parsed) /\ Joins(all, w, rest \o ga)
  <2>1. Joins(gp \o ga, w, rest \o ga)
    BY <1>4, <1>7, JoinLonger
  <2> QED
    BY <1>4, <1>7, <2>1, ConcatProperties
<1>10. r \in 1 .. Len(w) /\ Len(got) + 1 \in r + 1 .. Len(w)
  BY <1>8
<1>11. IsSample(w[r]) /\ IsSample(w[Len(got) + 1])
  BY <1>8 DEF x
<1> DEFINE n == Len(got) + 1
           t == rest \o ga
<1> HIDE DEF n, t
<1>12. n \in r + 1 .. Len(w) /\ IsSample(w[n]) /\ t \in Seq(Parsed) /\ Joins(all, w, t)
  BY <1>9, <1>10, <1>11 DEF n, t
<1>13. Follows(w, r, n)
  BY <1>6, <1>7, <1>10, <1>11, <1>12, FrontFollows
<1> QED
  BY <1>13 DEF w, n, x

\* Where the steps fit, how far a sample for the gate is from the last row, if none
\* but such have come since.
LEMMA DeliveredNear ==
  ASSUME StreamTypeOK, WireInv, FrameInv, GateInv, RateInv, StepsFit, inbox # <<>>,
         IsGated(Head(inbox)), GatedSince(got, rows)
  PROVE  LET a == Count(Head(inbox))
             c == Count(got[LastRow(rows)])
         IN a \in Int /\ c \in Int /\ a - c <= Half /\ (a < c => c - a < Half)
<1> DEFINE x == Head(inbox)
           w == Append(got, x)
           n == Len(got) + 1
           r == LastRow(rows)
<1>1. got \in Seq(Parsed) /\ rows \in Seq(Nat) /\ x \in Parsed
  BY HeadTailProperties DEF StreamTypeOK
<1>2. RowsIn(got, rows) /\ NearLast(got, rows) /\ rows # <<>>
  BY StepsFit DEF GateInv, RateInv, GatedSince
<1>3. r \in 1 .. Len(got)
  BY <1>1, <1>2, SinceWithoutRow
<1>4. /\ Len(got) \in Nat /\ w \in Seq(Parsed) /\ Len(w) = n /\ w[n] = x
      /\ \A i \in 1 .. Len(got) : w[i] = got[i]
  BY <1>1, GotGrows
<1>5. IsSample(x) /\ \A k \in r .. Len(got) : IsSample(got[k])
  BY DEF IsGated, GatedSince, GatedIn
<1>6. IsSample(got[r])
  BY <1>3, <1>4, <1>5
<1>7. Follows(w, r, n)
  BY <1>3, <1>5, <1>6, DeliveredFollows
<1>8. \A k \in r + 1 .. Len(got) : /\ Count(got[k]) - Count(got[r]) < FramesPerDemod
                                    /\ Count(got[k]) - Count(got[r]) <= Half
  BY <1>2 DEF NearLast
<1> HIDE DEF w, x, r
<1>9. r \in 1 .. Len(w) /\ n \in r + 1 .. Len(w) /\ w[r] = got[r]
  BY <1>3, <1>4
<1>10. \A k \in r .. n : IsSample(w[k])
  BY <1>3, <1>4, <1>5
<1>11. \A k \in r + 1 .. n - 1 : /\ Count(w[k]) - Count(w[r]) < FramesPerDemod
                                 /\ Count(w[k]) - Count(w[r]) <= Half
  BY <1>3, <1>4, <1>8
<1> HIDE DEF n
<1>12. LET a == Count(w[n])
           c == Count(w[r])
       IN a \in Int /\ c \in Int /\ a - c <= Half /\ (a < c => c - a < Half)
  BY <1>4, <1>7, <1>9, <1>10, <1>11, StepsFit, NearRow
<1> QED
  BY <1>4, <1>9, <1>12 DEF x, r

\* A sample while the log is open.
LEMMA WriteKeepsGate ==
  ASSUME StreamTypeOK, WireInv, FrameInv, GateInv, RateInv, inbox # <<>>, IsSample(Head(inbox)),
         got' = Append(got, Head(inbox)), logging, logging' = logging,
         WriteSample(Head(inbox))
  PROVE  /\ GateInv' /\ RateInv' /\ rows' \in Seq(Nat)
         /\ gate' \in [have : BOOLEAN, cnt : Nat, ch1 : 0 .. 1]
<1> DEFINE x == Head(inbox)
           n == Len(got) + 1
           cnt == Count(x) % Modulus
           ch1 == x.frames[1].ch1
           row == ~x.demod \/ GatePasses(cnt, ch1)
           w == Append(got, x)
           qs == Append(rows, n)
<1>1. /\ got \in Seq(Parsed) /\ rows \in Seq(Nat) /\ x \in Parsed
      /\ gate \in [have : BOOLEAN, cnt : Nat, ch1 : 0 .. 1]
  BY HeadTailProperties DEF StreamTypeOK
<1>2. /\ rows' = IF row THEN qs ELSE rows
      /\ gate' = IF ~x.demod THEN [gate EXCEPT !.have = FALSE]
                 ELSE IF row THEN [have |-> TRUE, cnt |-> cnt, ch1 |-> ch1] ELSE gate
      /\ got' = w
  BY DEF WriteSample, Count
<1>3. Count(x) \in Int /\ ch1 \in 0 .. 1 /\ x.demod \in BOOLEAN
  BY <1>1, CountType DEF StreamFrames, Parsed, Sendable
<1>4. cnt \in Nat
  <2>1. Modulus \in Nat \ {0}
    BY SizesAssumption
  <2>2. Count(x) % Modulus \in 0 .. Modulus - 1
    BY <1>3, <2>1, DivisionIs
  <2> QED
    BY <2>1, <2>2
<1>5. /\ Marked(got, n) /\ RowsIn(got, rows) /\ RowsMarked(got, rows) /\ Changes(got, rows)
      /\ gate.have <=> GatedSince(got, rows)
      /\ gate.have => /\ gate.cnt = Count(got[LastRow(rows)]) % Modulus
                      /\ gate.ch1 = FirstChannel(got[LastRow(rows)])
      /\ StepsFit => Rate(got, rows) /\ (gate.have => NearLast(got, rows))
  BY DEF GateInv, RateInv
<1>6. ASSUME StepsFit, IsGated(x), GatedSince(got, rows)
      PROVE  LET c == Count(got[LastRow(rows)])
             IN /\ Count(x) - c <= Half
                /\ GatePasses(cnt, ch1) => Count(x) - c >= MinFramesBetweenRows
                /\ ~GatePasses(cnt, ch1) => Count(x) - c < FramesPerDemod
  <2> DEFINE a == Count(x)
             c == Count(got[LastRow(rows)])
  <2>1. a \in Int /\ c \in Int /\ a - c <= Half /\ (a < c => c - a < Half)
    BY <1>6, DeliveredNear
  <2>2. gate.have /\ gate.cnt = c % Modulus
    BY <1>5, <1>6
  <2> HIDE DEF a, c
  <2>3. /\ GatePasses(a % Modulus, ch1) => a - c >= MinFramesBetweenRows
        /\ ~GatePasses(a % Modulus, ch1) => a - c < FramesPerDemod
    BY <2>1, <2>2, GateDecides
  <2> QED
    BY <2>1, <2>3 DEF a, c
<1>7. /\ Len(got) \in Nat /\ Len(w) = n /\ (Marked(w, n + 1) <=> Marked(got, n) \/ x.type = "ACK")
  BY <1>1, GotGrows
<1>8. logging' <=> Marked(got', Len(got') + 1)
  BY <1>2, <1>5, <1>7
<1>9. IsSample(x) /\ (IsGated(x) <=> x.demod)
  BY DEF IsGated
<1>10. ASSUME FramesPerDemod > Half, IsGated(x), GatedSince(got, rows), row
       PROVE  FirstChannel(x) # FirstChannel(got[LastRow(rows)])
  <2> DEFINE d == Since(cnt)
  <2>1. gate.have /\ gate.ch1 = FirstChannel(got[LastRow(rows)])
    BY <1>5, <1>10
  <2>2. d \in MinFramesBetweenRows .. Half /\ (ch1 # gate.ch1 \/ d >= FramesPerDemod)
    BY <1>9, <1>10, <2>1 DEF GatePasses
  <2> HIDE DEF d
  <2>3. ~(d >= FramesPerDemod)
    BY <1>10, <2>2, PeriodIs, HalfIs
  <2> QED
    BY <2>1, <2>2, <2>3 DEF FirstChannel
<1>11. ch1 = FirstChannel(x)
  BY DEF FirstChannel
<1> HIDE DEF x, cnt, ch1, w, qs
<1>12. CASE row
  <2>1. rows' = qs
    BY <1>2, <1>12
  <2>2. ASSUME StepsFit PROVE Rate(w, qs)
    <3>1. GatedSince(got, rows) /\ IsGated(x)
            => Count(x) - Count(got[LastRow(rows)]) >= MinFramesBetweenRows
      BY <1>6, <1>9, <1>12, <2>2
    <3> QED
      BY <1>1, <1>5, <2>2, <3>1, RateWithRow DEF w, qs
  <2>3. RowsIn(w, qs) /\ RowsMarked(w, qs)
    BY <1>1, <1>5, <1>9, MarkedWithRow DEF w, qs
  <2>8. Changes(w, qs)
    BY <1>1, <1>5, <1>12, <1>10, ChangesWithRow DEF w, qs
  <2>4. (GatedSince(w, qs) <=> x.demod) /\ NearLast(w, qs) /\ w[LastRow(qs)] = x
    BY <1>1, <1>9, SinceWithRow DEF w, qs
  <2>5. qs \in Seq(Nat)
    <3>1. n \in Nat
      BY <1>7
    <3> QED
      BY <1>1, <3>1, RowsGrow DEF qs
  <2>6. CASE ~x.demod
    <3>1. gate' = [gate EXCEPT !.have = FALSE]
      BY <1>2, <2>6
    <3>2. gate'.have = FALSE /\ gate' \in [have : BOOLEAN, cnt : Nat, ch1 : 0 .. 1]
      BY <1>1, <3>1
    <3> QED
      BY <1>2, <1>8, <2>1, <2>2, <2>3, <2>4, <2>5, <2>6, <2>8, <3>2 DEF GateInv, RateInv
  <2>7. CASE x.demod
    <3>1. gate' = [have |-> TRUE, cnt |-> cnt, ch1 |-> ch1]
      BY <1>2, <1>12, <2>7
    <3>2. /\ gate'.have = TRUE /\ gate'.cnt = cnt /\ gate'.ch1 = ch1
          /\ gate' \in [have : BOOLEAN, cnt : Nat, ch1 : 0 .. 1]
      BY <1>3, <1>4, <3>1
    <3>3. /\ gate'.cnt = Count(w[LastRow(qs)]) % Modulus
          /\ gate'.ch1 = FirstChannel(w[LastRow(qs)])
      BY <1>11, <2>4, <3>2 DEF cnt
    <3> QED
      BY <1>2, <1>8, <2>1, <2>2, <2>3, <2>4, <2>5, <2>7, <2>8, <3>2, <3>3
         DEF GateInv, RateInv
  <2> QED
    BY <1>3, <2>6, <2>7
<1>13. CASE ~row
  <2>1. rows' = rows /\ gate' = gate /\ x.demod /\ ~GatePasses(cnt, ch1)
    BY <1>2, <1>3, <1>13
  <2>2. gate.have
    BY <2>1 DEF GatePasses
  <2>3. GatedSince(got, rows) /\ IsGated(x)
    BY <1>5, <1>9, <2>1, <2>2
  <2>4. ASSUME StepsFit
        PROVE  /\ Count(x) - Count(got[LastRow(rows)]) <= Half
               /\ Count(x) - Count(got[LastRow(rows)]) < FramesPerDemod
    BY <1>6, <2>1, <2>3, <2>4
  <2>5. ASSUME StepsFit PROVE Rate(w, rows)
    BY <1>1, <1>5, <2>4, <2>5, RateWithoutRow DEF w
  <2>6. /\ GatedSince(w, rows) /\ LastRow(rows) \in 1 .. Len(got)
        /\ w[LastRow(rows)] = got[LastRow(rows)]
    <3>1. rows # <<>>
      BY <2>3 DEF GatedSince
    <3> QED
      BY <1>1, <1>5, <2>3, <3>1, SinceWithoutRow DEF w
  <2>8. ASSUME StepsFit PROVE NearLast(w, rows)
    BY <1>1, <1>5, <2>2, <2>3, <2>4, <2>8, SinceWithoutRow DEF w
  <2>9. Changes(w, rows)
    BY <1>1, <1>5, ChangesWithoutRow DEF w
  <2>7. RowsIn(w, rows) /\ RowsMarked(w, rows)
    <3>1. got[Len(got)].demod
      <4>1. Len(got) \in LastRow(rows) .. Len(got)
        BY <1>7, <2>6
      <4> QED
        BY <2>3, <4>1 DEF GatedSince, GatedIn, IsGated
    <3> QED
      BY <1>1, <1>5, <2>1, <3>1, MarkedWithoutRow DEF w
  <2> QED
    BY <1>1, <1>2, <1>5, <1>8, <2>1, <2>2, <2>5, <2>6, <2>7, <2>8, <2>9 DEF GateInv, RateInv
<1> QED
  BY <1>12, <1>13

\* A message that gives no row: a sample while no log is open, or the marker.
LEMMA QuietKeepsGate ==
  ASSUME StreamTypeOK, GateInv, RateInv, NEW x \in Parsed, got' = Append(got, x), rows' = rows,
         \/ ~logging /\ IsSample(x) /\ logging' = logging /\ gate' = gate
         \/ x.type = "ACK" /\ logging' = TRUE
              /\ gate' = [have |-> FALSE, cnt |-> 0, ch1 |-> 0]
  PROVE  GateInv' /\ RateInv' /\ gate' \in [have : BOOLEAN, cnt : Nat, ch1 : 0 .. 1]
<1> DEFINE n == Len(got) + 1
           w == Append(got, x)
<1>1. /\ got \in Seq(Parsed) /\ rows \in Seq(Nat)
      /\ gate \in [have : BOOLEAN, cnt : Nat, ch1 : 0 .. 1] /\ logging \in BOOLEAN
  BY DEF StreamTypeOK
<1>2. /\ (logging <=> Marked(got, n)) /\ RowsIn(got, rows) /\ Changes(got, rows)
      /\ RowsMarked(got, rows) /\ (gate.have <=> GatedSince(got, rows))
      /\ StepsFit => Rate(got, rows)
  BY DEF GateInv, RateInv
<1>3. /\ Len(got) \in Nat /\ Len(w) = n /\ (Marked(w, n + 1) <=> Marked(got, n) \/ x.type = "ACK")
  BY <1>1, GotGrows
<1>4. ASSUME ~logging PROVE ~GatedSince(got, rows)
  <2> SUFFICES ASSUME rows # <<>> PROVE FALSE
    BY DEF GatedSince
  <2>1. 1 \in 1 .. Len(rows)
    BY <1>1, EmptySeq
  <2>2. rows[1] \in 1 .. Len(got) /\ IsRow(rows, rows[1])
    BY <1>2, <2>1 DEF RowsIn, IsRow
  <2>3. Marked(got, rows[1])
    BY <1>2, <2>2 DEF RowsMarked
  <2>4. PICK j \in 1 .. rows[1] - 1 : got[j].type = "ACK"
    BY <2>3 DEF Marked
  <2>5. j \in 1 .. n - 1
    BY <1>3, <2>2
  <2>6. Marked(got, n)
    BY <2>4, <2>5 DEF Marked
  <2> QED
    BY <1>2, <1>4, <2>6
<1> HIDE DEF w
<1>5. ~(GatedSince(got, rows) /\ IsGated(x)) /\ ~(Marked(got, n) /\ IsSample(x))
  BY <1>2, <1>4 DEF IsGated, IsSample
<1>6. (StepsFit => Rate(w, rows)) /\ Changes(w, rows)
  BY <1>1, <1>2, <1>5, RateWithoutRow, ChangesWithoutRow DEF w
<1>7. RowsIn(w, rows) /\ RowsMarked(w, rows)
  BY <1>1, <1>2, <1>5, MarkedWithoutRow DEF w
<1>8. ~GatedSince(w, rows)
  BY <1>1, <1>2, <1>5, SinceWithoutRow DEF w
<1>9. gate'.have = FALSE /\ gate' \in [have : BOOLEAN, cnt : Nat, ch1 : 0 .. 1]
  <2>1. CASE ~logging /\ gate' = gate
    <3>1. ~gate.have /\ gate.have \in BOOLEAN
      BY <1>1, <1>2, <1>4, <2>1
    <3> QED
      BY <1>1, <2>1, <3>1
  <2>2. CASE gate' = [have |-> FALSE, cnt |-> 0, ch1 |-> 0]
    BY <2>2
  <2> QED
    BY <2>1, <2>2
<1>10. logging' <=> Marked(w, n + 1)
  BY <1>2, <1>3 DEF IsSample
<1>11. got' = w
  BY DEF w
<1> QED
  BY <1>3, <1>6, <1>7, <1>8, <1>9, <1>10, <1>11 DEF GateInv, RateInv

LEMMA HandleSampleKeepsGate ==
  ASSUME StreamTypeOK, WireInv, FrameInv, GateInv, RateInv, HandleSample
  PROVE  /\ GateInv' /\ RateInv' /\ rows' \in Seq(Nat)
         /\ gate' \in [have : BOOLEAN, cnt : Nat, ch1 : 0 .. 1]
<1>1. /\ inbox # <<>> /\ Head(inbox) \in Parsed /\ got' = Append(got, Head(inbox))
  BY DeliverKeepsWire DEF HandleSample, Deliver
<1>2. IsSample(Head(inbox)) /\ logging' = logging
  BY DEF HandleSample, IsSample
<1>3. CASE logging
  <2>1. WriteSample(Head(inbox))
    BY <1>3 DEF HandleSample
  <2> QED
    BY <1>1, <1>2, <1>3, <2>1, WriteKeepsGate
<1>4. CASE ~logging
  <2>1. gate' = gate /\ rows' = rows
    BY <1>4 DEF HandleSample
  <2>2. GateInv' /\ RateInv' /\ gate' \in [have : BOOLEAN, cnt : Nat, ch1 : 0 .. 1]
    BY <1>1, <1>2, <1>4, <2>1, QuietKeepsGate
  <2> QED
    BY <2>1, <2>2 DEF StreamTypeOK
<1> QED
  BY <1>3, <1>4

LEMMA HandleMarkKeepsGate ==
  ASSUME StreamTypeOK, WireInv, GateInv, RateInv, HandleMark
  PROVE  GateInv' /\ RateInv' /\ gate' \in [have : BOOLEAN, cnt : Nat, ch1 : 0 .. 1]
<1>1. /\ Head(inbox) \in Parsed /\ got' = Append(got, Head(inbox))
  BY DeliverKeepsWire DEF HandleMark
<1>2. /\ Head(inbox).type = "ACK" /\ logging' = TRUE /\ rows' = rows
      /\ gate' = [have |-> FALSE, cnt |-> 0, ch1 |-> 0]
  BY DEF HandleMark
<1> QED
  BY <1>1, <1>2, QuietKeepsGate

\* What the invariant says of the rows is what the properties say.
LEMMA GateShows ==
  ASSUME GateInv
  PROVE  RowsAfterMarker /\ SteadyChannelStops
<1>1. \A i, j : Gated(i, j) <=> GatedIn(got, i, j)
  BY DEF Gated, GatedIn, IsGated, IsSample
<1>2. \A i : Ch1(i) = FirstChannel(got[i])
  BY DEF Ch1, FirstChannel
<1>3. SteadyChannelStops
  BY <1>1, <1>2 DEF GateInv, Changes, SteadyChannelStops
<1>4. RowsAfterMarker
  BY DEF GateInv, RowsMarked, RowsAfterMarker, IsRow, Marked, MustBeRow, IsSample
<1> QED
  BY <1>3, <1>4

LEMMA RateShows ==
  ASSUME StreamTypeOK, RateInv, StepsFit
  PROVE  RowsAtDemodRate
<1>1. \A i, j : Gated(i, j) <=> GatedIn(got, i, j)
  BY DEF Gated, GatedIn, IsGated, IsSample
<1>2. \A i : At(i) = Count(got[i])
  BY DEF At, Count
<1>3. \A i : NextRow(i) = Upto(got, rows, i)
  BY DEF NextRow, Upto
<1>4. Rate(got, rows) /\ Len(rows) \in Nat
  BY StepsFit, LenProperties DEF RateInv, StreamTypeOK
<1>5. PeriodGivesRow
  BY <1>1, <1>2, <1>3, <1>4 DEF PeriodGivesRow, Rate
<1>6. ASSUME NEW i \in 1 .. Len(rows) - 1, Gated(rows[i], rows[i + 1])
      PROVE  At(rows[i + 1]) - At(rows[i]) >= MinFramesBetweenRows
  <2>1. i \in 1 .. Len(rows) /\ i < Len(rows)
    BY <1>4
  <2>2. Upto(got, rows, i) = rows[i + 1]
    BY <2>1 DEF Upto
  <2> QED
    BY <1>1, <1>2, <1>4, <1>6, <2>1, <2>2 DEF Rate
<1> QED
  BY <1>5, <1>6 DEF RowsAtDemodRate

\* The inductive invariant: what is on the wire, the counts sent, the rows.
StreamIInv == StreamTypeOK /\ WireInv /\ FrameInv /\ GateInv /\ RateInv

LEMMA StreamInitInv ==
  StreamInit => StreamIInv
<1> SUFFICES ASSUME StreamInit PROVE StreamIInv
  OBVIOUS
<1> DEFINE l == <<Line>>
           b == Bytes(Line)
<1>1. /\ sent = l /\ marked = FALSE /\ frames = 0 /\ newest = FirstFrame /\ net = b
      /\ line = <<>> /\ ready = FALSE /\ buffer = <<>> /\ inbox = <<>> /\ got = <<>>
      /\ logging = FALSE /\ gate = [have |-> FALSE, cnt |-> 0, ch1 |-> 0] /\ rows = <<>>
  BY DEF StreamInit
<1>2. b \in Seq(StreamBytes) /\ l \in Seq(AnyMessage) /\ Line \in AnyMessage
  BY LineBytes DEF AnyMessage
<1>3. BytesOf(<<>>) = <<>>
  BY <1>2, BytesOfOne
<1>4. Given(<<>>) = <<>>
  <2>1. <<>> = [i \in DOMAIN <<>> |-> Expand(<<>>[i])]
    OBVIOUS
  <2> QED
    BY <2>1, FlattenEmpty DEF Given
<1> HIDE DEF l, b
<1>5. l \o <<>> = l /\ b \o <<>> = b /\ <<>> \o b = b
  BY <1>2
<1>6. <<>> \in Seq(Sendable) /\ <<>> \o <<>> = <<>> /\ <<>> \in Seq(Parsed)
      /\ <<>> \in Seq(StreamBytes) /\ <<>> \in Seq(Nat) /\ Len(<<>>) = 0
  BY EmptySeq
<1>7. StreamTypeOK
  <2>1. FirstFrame \in Int
    BY SizesAssumption
  <2>2. gate \in [have : BOOLEAN, cnt : Nat, ch1 : 0 .. 1]
    BY <1>1
  <2>3. marked \in BOOLEAN /\ frames \in Nat /\ newest \in Int
    BY <1>1, <2>1
  <2>4. net \in Seq(StreamBytes) /\ line \in Seq(StreamBytes) /\ buffer \in Seq(StreamBytes)
    BY <1>1, <1>2, <1>6
  <2>5. inbox \in Seq(Parsed) /\ got \in Seq(Parsed) /\ rows \in Seq(Nat)
    BY <1>1, <1>6
  <2> QED
    BY <1>1, <2>2, <2>3, <2>4, <2>5 DEF StreamTypeOK
<1>8. WireInv
  <2>1. Joins(sent, l \o <<>>, <<>>)
    BY <1>1, <1>5 DEF Joins
  <2>2. Joins(Given(<<>>), got, inbox)
    BY <1>1, <1>4, <1>6 DEF Joins
  <2>3. Joins(b \o BytesOf(<<>>), line, net)
    BY <1>1, <1>3, <1>5 DEF Joins
  <2>4. Wire(<<>>, <<>>)
    BY <1>1, <2>1, <2>2, <2>3 DEF Wire, l, b
  <2> QED
    BY <1>6, <2>4 DEF WireInv
<1>9. FrameInv
  <2>1. Joins(sent, l, <<>>)
    BY <1>1, <1>5 DEF Joins
  <2>2. FramesOK(<<>>, newest)
    BY <1>6 DEF FramesOK
  <2> QED
    BY <1>4, <1>6, <2>1, <2>2 DEF FrameInv, l
<1>10. GateInv /\ RateInv
  <2>1. ~Marked(<<>>, 1) /\ RowsIn(<<>>, <<>>) /\ Rate(<<>>, <<>>)
        /\ RowsMarked(<<>>, <<>>) /\ ~GatedSince(<<>>, <<>>)
    BY <1>6 DEF Marked, RowsIn, Rate, RowsMarked, GatedSince
  <2>2. Changes(<<>>, <<>>)
    BY <1>6 DEF Changes
  <2> QED
    BY <1>1, <1>6, <2>1, <2>2 DEF GateInv, RateInv
<1> QED
  BY <1>7, <1>8, <1>9, <1>10 DEF StreamIInv

\* A message that is sent leaves the client's part alone.
LEMMA SendKeepsInv ==
  ASSUME StreamIInv, SendSample \/ SendBulk \/ SendMark
  PROVE  StreamIInv'
<1>1. StreamTypeOK /\ WireInv /\ FrameInv /\ GateInv /\ RateInv
  BY DEF StreamIInv
<1>2. PICK m \in Sendable : Send(m)
  <2>1. CASE SendSample
    BY <1>1, <2>1, SampleSent
  <2>2. CASE SendBulk
    BY <1>1, <2>2, BulkSent
  <2>3. CASE SendMark
    BY <2>3, MarkSent
  <2> QED
    BY <2>1, <2>2, <2>3
<1>3. WireInv' /\ net' \in Seq(StreamBytes)
  BY <1>1, <1>2, SendKeepsWire
<1>4. FrameInv' /\ newest' \in Int
  BY <1>1, SendKeepsFrames
<1>5. UNCHANGED <<line, ready, buffer, inbox, got, logging, gate, rows>>
  BY <1>2 DEF Send, client, log
<1>6. frames' \in Nat
  <2>1. Len(m.frames) \in Nat
    BY LenProperties DEF Sendable
  <2> QED
    BY <1>1, <1>2, <2>1 DEF Send, StreamTypeOK
<1>7. marked' \in BOOLEAN
  BY <1>1 DEF SendSample, SendBulk, SendMark, StreamTypeOK
<1>8. StreamTypeOK'
  BY <1>1, <1>3, <1>4, <1>5, <1>6, <1>7 DEF StreamTypeOK
<1>9. GateInv' /\ RateInv'
  BY <1>1, <1>5 DEF GateInv, RateInv
<1> QED
  BY <1>3, <1>4, <1>8, <1>9 DEF StreamIInv

LEMMA WorkerKeepsInv ==
  ASSUME StreamIInv, RecvLine \/ Recv \/ Feed
  PROVE  StreamIInv'
<1>1. StreamTypeOK /\ WireInv /\ FrameInv /\ GateInv /\ RateInv
  BY DEF StreamIInv
<1>2. UNCHANGED <<sent, marked, frames, newest, got, logging, gate, rows>>
  BY DEF RecvLine, Recv, Feed, stream, log
<1>3. WireInv' /\ StreamTypeOK'
  <2>1. CASE RecvLine
    <3>1. UNCHANGED inbox
      BY <2>1 DEF RecvLine
    <3> QED
      BY <1>1, <1>2, <2>1, <3>1, RecvLineKeepsWire DEF StreamTypeOK
  <2>2. CASE Recv
    <3>1. UNCHANGED <<line, ready, inbox>>
      BY <2>2 DEF Recv
    <3> QED
      BY <1>1, <1>2, <2>2, <3>1, RecvKeepsWire DEF StreamTypeOK
  <2>3. CASE Feed
    <3>1. UNCHANGED <<net, line, ready>>
      BY <2>3 DEF Feed
    <3> QED
      BY <1>1, <1>2, <2>3, <3>1, FeedKeepsWire DEF StreamTypeOK
  <2> QED
    BY <2>1, <2>2, <2>3
<1>4. FrameInv' /\ GateInv' /\ RateInv'
  BY <1>1, <1>2 DEF FrameInv, GateInv, RateInv
<1> QED
  BY <1>3, <1>4 DEF StreamIInv

LEMMA HandleKeepsInv ==
  ASSUME StreamIInv, HandleSample \/ HandleMark
  PROVE  StreamIInv'
<1>1. StreamTypeOK /\ WireInv /\ FrameInv /\ GateInv /\ RateInv
  BY DEF StreamIInv
<1>2. Deliver
  BY DEF HandleSample, HandleMark
<1>3. UNCHANGED <<sent, marked, frames, newest, net, line, ready, buffer>>
  BY <1>2 DEF Deliver, stream
<1>4. WireInv' /\ inbox' \in Seq(Parsed) /\ got' \in Seq(Parsed)
  BY <1>1, <1>2, DeliverKeepsWire
<1>5. FrameInv'
  BY <1>1, <1>3 DEF FrameInv
<1>6. /\ GateInv' /\ RateInv' /\ rows' \in Seq(Nat) /\ logging' \in BOOLEAN
      /\ gate' \in [have : BOOLEAN, cnt : Nat, ch1 : 0 .. 1]
  <2>1. CASE HandleSample
    <3>1. logging' = logging
      BY <2>1 DEF HandleSample
    <3> QED
      BY <1>1, <2>1, <3>1, HandleSampleKeepsGate DEF StreamTypeOK
  <2>2. CASE HandleMark
    <3>1. logging' = TRUE /\ rows' = rows
      BY <2>2 DEF HandleMark
    <3> QED
      BY <1>1, <2>2, <3>1, HandleMarkKeepsGate DEF StreamTypeOK
  <2> QED
    BY <2>1, <2>2
<1>7. StreamTypeOK'
  BY <1>1, <1>3, <1>4, <1>6 DEF StreamTypeOK
<1> QED
  BY <1>4, <1>5, <1>6, <1>7 DEF StreamIInv

LEMMA StreamNextKeeps ==
  StreamIInv /\ [StreamNext]_streamVars => StreamIInv'
<1> SUFFICES ASSUME StreamIInv, [StreamNext]_streamVars PROVE StreamIInv'
  OBVIOUS
<1>1. CASE SendSample \/ SendBulk \/ SendMark
  BY <1>1, SendKeepsInv
<1>2. CASE RecvLine \/ Recv \/ Feed
  BY <1>2, WorkerKeepsInv
<1>3. CASE HandleSample \/ HandleMark
  BY <1>3, HandleKeepsInv
<1>4. CASE UNCHANGED streamVars
  <2>1. /\ UNCHANGED <<sent, marked, frames, newest, net>>
        /\ UNCHANGED <<line, ready, buffer, inbox, got, logging, gate, rows>>
    BY <1>4 DEF streamVars, stream, client, log
  <2>2. StreamTypeOK'
    BY <2>1 DEF StreamIInv, StreamTypeOK
  <2>3. WireInv' /\ FrameInv'
    BY <2>1 DEF StreamIInv, WireInv, Wire, FrameInv
  <2>4. GateInv' /\ RateInv'
    BY <2>1 DEF StreamIInv, GateInv, RateInv
  <2> QED
    BY <2>2, <2>3, <2>4 DEF StreamIInv
<1> QED
  BY <1>1, <1>2, <1>3, <1>4 DEF StreamNext

\* What is on its way, what is buffered and what the controller has is always
\* what the server has sent, the gate's state is that of the rows written, and where
\* the steps fit the counts keep close enough for the gate to tell them apart modulo
\* the counter's range.
THEOREM StreamInvariance ==
  StreamSpec => []StreamIInv
<1> QED
  BY StreamInitInv, StreamNextKeeps, PTL DEF StreamSpec

\* Whatever pieces recv returns, MessageStreamBuffer hands the controller exactly
\* the messages whose last byte has arrived, in order and with their own counts.
THEOREM MessagesArriveAsSent ==
  StreamSpec => []MessagesAsSent
<1>1. StreamIInv => MessagesAsSent
  BY WireShows DEF StreamIInv
<1> QED
  BY <1>1, StreamInvariance, PTL

\* The gate of SampleCsvLogger writes the rows of a gated stretch at the
\* demodulation rate if the period and the steps of the counter fit in half its
\* range.
THEOREM RowsComeAtDemodRate ==
  ASSUME StepsFit
  PROVE  StreamSpec => []RowsAtDemodRate
<1>1. StreamIInv => RowsAtDemodRate
  BY StepsFit, RateShows DEF StreamIInv
<1> QED
  BY <1>1, StreamInvariance, PTL

\* If the period is more than half the counter's range, no row of a gated stretch
\* comes because a period has passed: with a steady CH1 there is no second row,
\* however far apart the frames are.
THEOREM LongPeriodNeedsChange ==
  StreamSpec => []SteadyChannelStops
<1>1. StreamIInv => SteadyChannelStops
  BY GateShows DEF StreamIInv
<1> QED
  BY <1>1, StreamInvariance, PTL

\* The client's log holds no sample from before the answer to its marker, and
\* after it every one the gate does not apply to and the first it applies to.
THEOREM RowsComeAfterMarker ==
  StreamSpec => []RowsAfterMarker
<1>1. StreamIInv => RowsAfterMarker
  BY GateShows DEF StreamIInv
<1> QED
  BY <1>1, StreamInvariance, PTL
===============================================================================
