------------------------------ MODULE ClientStream ------------------------------
(***************************************************************************)
(* What the client reads from its socket: CapabilityLineBuffer and         *)
(* MessageStreamBuffer (protocol.py) take a capability line and messages   *)
(* out of whatever pieces recv returns, the controller hands the samples   *)
(* to the open CSV file, and SampleCsvLogger gates them to the demodulation*)
(* rate (csv_logger.py; the gate of the server's csv_logger.c makes the    *)
(* same test, of which docs/feats/server-protocol.md says something else:  *)
(* see ChangesAreRows).                                                    *)
(*                                                                         *)
(* A byte is the message it belongs to and its place in it; the sizes are  *)
(* scaled down.  A frame carries its true count `at', of which the client  *)
(* sees at % Modulus.                                                      *)
(***************************************************************************)
EXTENDS Integers, Sequences, SequencesExt

CONSTANTS HeaderSize,   \* MESSAGE_SIZE
          FrameSize,    \* BULK_FRAME_SIZE
          LineSize,     \* the capability line with its newline
          Modulus,      \* FRAME_COUNTER_MODULUS
          ExtclkDiv, ModDiv,
          ClocksPerSample,  \* ADS1278_CLOCKS_PER_SAMPLE
          Slack,        \* 10: the share of a period by which a row may be early
          FirstFrame,   \* count of the first frame sent
          Steps,        \* steps of the frame counter from the newest frame to a newer one
          Again,        \* how far behind the newest one a frame sent again may be
          MaxBulk,      \* frames in one bulk message
          MaxFrames,    \* frames sent
          MaxAhead      \* bytes on their way when the server sends another message

Half == Modulus \div 2

\* units.py, frames_per_demod
FramesPerDemod ==
  LET denominator == ExtclkDiv * ClocksPerSample
      frames == (ModDiv + denominator \div 2) \div denominator
  IN IF ModDiv < 2 \/ frames < 1 THEN 1 ELSE frames

MinFramesBetweenRows == FramesPerDemod - FramesPerDemod \div Slack

ASSUME SizesAssumption ==
  /\ {HeaderSize, FrameSize, LineSize, Modulus, ExtclkDiv, ClocksPerSample, Slack}
       \subseteq Nat \ {0}
  /\ ModDiv \in Nat /\ FirstFrame \in Int
  /\ {MaxBulk, MaxFrames, MaxAhead} \subseteq Nat
  /\ Steps \subseteq Nat \ {0} /\ Again \subseteq Nat

\* A step and what it may come on top of, a frame sent again or one just short
\* of the period, fit in half the counter's range.  The controls allow more:
\* the slowest modulation at the smallest divider has a period of six times the range.
StepsFit ==
  /\ \A b \in Again : b < Half
  /\ \A d \in Steps : /\ FramesPerDemod - 1 + d <= Half
                       /\ \A b \in Again : b + d <= Half

VARIABLES
  sent,     \* messages the server has sent
  marked,   \* whether a MARK_CAPTURE answer is among them
  frames,   \* frames among them
  newest,   \* the highest count sent
  net,      \* bytes on their way
  line,     \* CapabilityLineBuffer
  ready,    \* whether the capability line is read
  buffer,   \* MessageStreamBuffer
  inbox,    \* messages feed has found in it
  got,      \* messages handed to the controller
  logging,  \* whether the CSV file is open
  gate,     \* the gate's last row
  rows      \* places in `got' of the samples written

stream == <<sent, marked, frames, newest>>
log == <<logging, gate, rows>>
client == <<line, ready, buffer, inbox, got, log>>
streamVars == <<stream, net, client>>

-----------------------------------------------------------------------------
(* Messages.                                                                 *)

Line == [type |-> "LINE", demod |-> FALSE, frames |-> <<>>]
Garbage == [type |-> "UNKNOWN", demod |-> FALSE, frames |-> <<>>]

Size(m) == CASE m.type = "LINE" -> LineSize
             [] m.type = "BULK" -> HeaderSize + FrameSize * Len(m.frames)
             [] OTHER -> HeaderSize

\* build_message, build_bulk_message
Bytes(m) == [i \in 1..Size(m) |-> [of |-> m, part |-> i]]

\* parse_message: the header's bytes, unless they are not one header.
Header(bytes) ==
  IF \A i \in 1..HeaderSize : bytes[i] = [of |-> bytes[1].of, part |-> i]
    THEN bytes[1].of ELSE Garbage

\* parse_bulk_samples: a SAMPLE for every frame of the payload, with the
\* control word of the header.
BulkSamples(m, payload) ==
  [k \in 1..Len(m.frames) |->
     LET first == payload[(k - 1) * FrameSize + 1]
     IN [type |-> "SAMPLE", demod |-> m.demod,
         frames |-> <<first.of.frames[(first.part - HeaderSize - 1) \div FrameSize + 1]>>]]

-----------------------------------------------------------------------------
(* The server.                                                               *)

Send(m) ==
  /\ Len(net) < MaxAhead
  /\ sent' = Append(sent, m)
  /\ net' = net \o Bytes(m)
  /\ frames' = frames + Len(m.frames)
  /\ frames' <= MaxFrames
  /\ UNCHANGED client

\* Frames follow one another; one may also be sent again.
NextAt(top) == {top + d : d \in Steps} \cup {top - b : b \in Again}

SendSample ==
  /\ \E at \in NextAt(newest), ch1 \in 0..1, demod \in BOOLEAN :
       /\ Send([type |-> "SAMPLE", demod |-> demod,
                frames |-> <<[at |-> at, ch1 |-> ch1]>>])
       /\ newest' = IF at > newest THEN at ELSE newest
  /\ UNCHANGED marked

\* The records of a DMA buffer, of which the last may be an old one.
SendBulk ==
  /\ \E n \in 1..MaxBulk, step \in Steps, ch1 \in 0..1, demod \in BOOLEAN :
       LET top == newest + (n - 1) * step
       IN \E at \in NextAt(top) :
            /\ Send([type |-> "BULK", demod |-> demod,
                     frames |-> [k \in 1..n |->
                       [at |-> IF k < n THEN newest + k * step ELSE at,
                        ch1 |-> (ch1 + k) % 2]]])
            /\ newest' = IF at > top THEN at ELSE top
  /\ UNCHANGED marked

\* The answer to MARK_CAPTURE, at which the client's log begins.
SendMark ==
  /\ ~marked /\ marked' = TRUE
  /\ Send([type |-> "ACK", demod |-> FALSE, frames |-> <<>>])
  /\ UNCHANGED newest

-----------------------------------------------------------------------------
(* The gate.                                                                 *)

\* mutant: a counter that has wrapped counts as a step back.
SinceUnwrapped(cnt) == cnt - gate.cnt

\* Frames since the last row, modulo the counter's range.
Since(cnt) == (cnt - gate.cnt) % Modulus

\* _should_write_sample, for a sample the gate applies to.
GatePasses(cnt, ch1) ==
  \/ ~gate.have
  \/ /\ Since(cnt) \in MinFramesBetweenRows..Half /\ Since(cnt) # 0
     /\ ch1 # gate.ch1 \/ Since(cnt) >= FramesPerDemod

\* mutant: the gate's last row outlives a stretch without the gate.
WriteSampleKeepsGate(m) ==
  LET cnt == m.frames[1].at % Modulus
      ch1 == m.frames[1].ch1
      row == ~m.demod \/ GatePasses(cnt, ch1)
  IN /\ rows' = IF row THEN Append(rows, Len(got) + 1) ELSE rows
     /\ gate' = IF m.demod /\ row
                  THEN [have |-> TRUE, cnt |-> cnt, ch1 |-> ch1] ELSE gate

\* write_sample, with _demod_gate_active and the gate's state.
WriteSample(m) ==
  LET cnt == m.frames[1].at % Modulus
      ch1 == m.frames[1].ch1
      row == ~m.demod \/ GatePasses(cnt, ch1)
  IN /\ rows' = IF row THEN Append(rows, Len(got) + 1) ELSE rows
     /\ gate' = IF ~m.demod THEN [gate EXCEPT !.have = FALSE]
                ELSE IF row THEN [have |-> TRUE, cnt |-> cnt, ch1 |-> ch1]
                ELSE gate

-----------------------------------------------------------------------------
(* The worker.                                                               *)

\* The number of bytes the next message takes, once its header is there.
Needed == IF Header(buffer).type = "BULK"
            THEN HeaderSize + FrameSize * Len(Header(buffer).frames)
            ELSE HeaderSize

\* The loop of MessageStreamBuffer.feed goes on.
Complete == Len(buffer) >= HeaderSize /\ Len(buffer) >= Needed

Rest(s, n) == SubSeq(s, n + 1, Len(s))

\* mutant: what came with the capability line is dropped.
RecvLineOnly ==
  /\ ~ready
  /\ \E n \in 1..Len(net) :
       LET bytes == line \o SubSeq(net, 1, n)
       IN /\ net' = Rest(net, n)
          /\ ready' = (Len(bytes) >= LineSize)
          /\ line' = IF ready' THEN <<>> ELSE bytes
  /\ UNCHANGED <<stream, buffer, inbox, got, log>>

\* CapabilityLineBuffer.feed, and the remainder it leaves.
RecvLine ==
  /\ ~ready
  /\ \E n \in 1..Len(net) :
       LET bytes == line \o SubSeq(net, 1, n)
           read == Len(bytes) >= LineSize
       IN /\ net' = Rest(net, n)
          /\ ready' = read
          /\ line' = IF read THEN <<>> ELSE bytes
          /\ buffer' = IF read THEN Rest(bytes, LineSize) ELSE buffer
  /\ UNCHANGED <<stream, inbox, got, log>>

\* recv is called when the messages of the last piece are handled.
Recv ==
  /\ ready /\ ~Complete /\ inbox = <<>>
  /\ \E n \in 1..Len(net) :
       /\ net' = Rest(net, n)
       /\ buffer' = buffer \o SubSeq(net, 1, n)
  /\ UNCHANGED <<stream, line, ready, inbox, got, log>>

\* A turn of the loop of MessageStreamBuffer.feed.
Feed ==
  /\ ready /\ Complete
  /\ LET m == Header(buffer)
     IN inbox' = inbox \o (IF m.type = "BULK"
                            THEN BulkSamples(m, SubSeq(buffer, HeaderSize + 1, Needed))
                            ELSE <<m>>)
  /\ buffer' = Rest(buffer, Needed)
  /\ UNCHANGED <<stream, net, line, ready, got, log>>

\* The worker hands the messages feed has returned to _handle_message ...
Deliver ==
  /\ ~Complete /\ inbox # <<>>
  /\ got' = Append(got, Head(inbox)) /\ inbox' = Tail(inbox)
  /\ UNCHANGED <<stream, net, line, ready, buffer>>

\* ... where a sample goes to the log that is open ...
HandleSample ==
  /\ Deliver /\ Head(inbox).type = "SAMPLE"
  /\ IF logging THEN WriteSample(Head(inbox)) ELSE UNCHANGED <<gate, rows>>
  /\ UNCHANGED logging

\* ... and the marker's answer opens it.
HandleMark ==
  /\ Deliver /\ Head(inbox).type = "ACK"
  /\ logging' = TRUE
  /\ gate' = [have |-> FALSE, cnt |-> 0, ch1 |-> 0]
  /\ UNCHANGED rows

-----------------------------------------------------------------------------

StreamInit ==
  /\ sent = <<Line>> /\ marked = FALSE /\ frames = 0 /\ newest = FirstFrame
  /\ net = Bytes(Line)
  /\ line = <<>> /\ ready = FALSE /\ buffer = <<>>
  /\ inbox = <<>> /\ got = <<>>
  /\ logging = FALSE /\ gate = [have |-> FALSE, cnt |-> 0, ch1 |-> 0]
  /\ rows = <<>>

StreamNext ==
  \/ SendSample \/ SendBulk \/ SendMark
  \/ RecvLine \/ Recv \/ Feed
  \/ HandleSample \/ HandleMark

StreamSpec == StreamInit /\ [][StreamNext]_streamVars

-----------------------------------------------------------------------------

\* What a message is to the controller.
Expand(m) ==
  IF m.type = "BULK"
    THEN [k \in 1..Len(m.frames) |->
            [type |-> "SAMPLE", demod |-> m.demod, frames |-> <<m.frames[k]>>]]
    ELSE <<m>>

BytesOf(ms) == FlattenSeq([i \in DOMAIN ms |-> Bytes(ms[i])])
Arrived == Len(BytesOf(sent)) - Len(net)

\* The pieces do not matter: whatever recv returned, the controller is handed
\* exactly the messages whose last byte has arrived, every frame of a bulk
\* message as a sample of its own, in order and with its own count.
MessagesAsSent ==
  (ready /\ ~Complete) =>
    \E k \in 1..Len(sent) :
      /\ Len(BytesOf(SubSeq(sent, 1, k))) <= Arrived
      /\ k < Len(sent) => Len(BytesOf(SubSeq(sent, 1, k + 1))) > Arrived
      /\ got \o inbox = FlattenSeq([i \in 1..k - 1 |-> Expand(sent[i + 1])])

At(i) == got[i].frames[1].at
Ch1(i) == got[i].frames[1].ch1
Gated(i, j) == \A k \in i..j : got[k].type = "SAMPLE" /\ got[k].demod

\* The place after the last message that row i is the last row for.
NextRow(i) == IF i < Len(rows) THEN rows[i + 1] ELSE Len(got) + 1

\* docs/feats/client.md:44: the logger writes "a row after the full demod frame
\* interval": no frame of a gated stretch a whole period after the last row is left
\* out.  The code keeps this for periods that fit in half the counter's range.
PeriodGivesRow ==
  \A i \in 1..Len(rows) :
    \A k \in rows[i] + 1..NextRow(i) - 1 :
      Gated(rows[i], k) => At(k) - At(rows[i]) < FramesPerDemod

\* Where the period and the steps fit in half the counter's range (StepsFit), rows
\* of a gated stretch come at the demodulation rate: no two of them nearer than the
\* period less its slack, a frame sent again never a row of its own, and no frame a
\* whole period after the last row left out, with the counter wrapping in between
\* or not.
RowsAtDemodRate ==
  /\ \A i \in 1..Len(rows) - 1 :
       Gated(rows[i], rows[i + 1]) => At(rows[i + 1]) - At(rows[i]) >= MinFramesBetweenRows
  /\ PeriodGivesRow

\* The log begins at the marker: no row before it, and after it a row for every
\* sample the gate does not apply to and for the first of those it applies to,
\* however often demodulation is switched on again.
RowsAfterMarker ==
  \A k \in 1..Len(got) :
    LET isRow == \E i \in 1..Len(rows) : rows[i] = k
        marker == \E j \in 1..k - 1 : got[j].type = "ACK"
    IN /\ isRow => marker
       /\ (marker /\ got[k].type = "SAMPLE"
             /\ (got[k].demod => ~got[k - 1].demod)) => isRow

\* A period of more than half the counter's range never elapses for the gate, which
\* takes every count that far ahead for a step back: from one row of a gated stretch
\* to the next CH1 has changed, and where it is steady there is no next one.
SteadyChannelStops ==
  FramesPerDemod > Half =>
    \A i \in 1..Len(rows) - 1 :
      Gated(rows[i], rows[i + 1]) => Ch1(rows[i + 1]) # Ch1(rows[i])

-----------------------------------------------------------------------------
(* What docs/feats promises of the gate and the code does not keep.          *)

\* server-protocol.md:62: "It writes the first row, any later row where CH1 changes,
\* or a row after `max(1, round(mod_div / (extclk_div * 512)))` ADC frames".  A later
\* frame of a gated stretch that is not a row has the CH1 of the last row.  Both
\* gates drop a change that comes sooner than 90% of the period.
ChangesAreRows ==
  \A i \in 1..Len(rows) :
    \A k \in rows[i] + 1..NextRow(i) - 1 :
      (Gated(rows[i], k) /\ At(k) > At(rows[i])) => Ch1(k) = Ch1(rows[i])

=============================================================================
