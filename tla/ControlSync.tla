------------------------------ MODULE ControlSync ------------------------------
(***************************************************************************)
(* The acquisition controls of the client's window and the registers of    *)
(* the server they stand for: the divider box, the MOD check box and       *)
(* frequency box and the demodulation check box of MainWindow, the 50 ms   *)
(* refresh that copies the registers out of the latest message into the    *)
(* controls, and the path of a command and of its answer between them.     *)
(*                                                                         *)
(* A control is both an input and a display.  A refresh leaves it alone    *)
(* while it is `dirty', that is from an edit until a message shows the     *)
(* edited value; a message may be older than the edit.  The modulation is  *)
(* edited as a frequency and kept as a divider, and the conversion rounds  *)
(* both ways.                                                              *)
(***************************************************************************)
EXTENDS Integers, Sequences

CONSTANTS Clock,        \* MODULATION_CLOCK_HZ / 2
          MinModDiv,    \* MIN_MOD_DIV
          Frequencies,  \* what the user may type into the frequency box
          MinFrequency, MaxFrequency,  \* and its range
          Dividers,     \* what the user may type into the divider box
          MinDivider, MaxDivider,  \* and its range (MIN_EXTCLK_DIV)
          DefaultFrequency, DefaultDivider,  \* what the boxes start with
          Registers,    \* the registers the server may be found with
          MaxActs,      \* edits, commands and calls of connect
          MaxAhead      \* messages sent and not yet read

ASSUME ValuesAssumption ==
  /\ Clock \in Nat \ {0} /\ MinModDiv \in Nat \ {0}
  /\ MinFrequency \in Nat \ {0} /\ MaxFrequency \in Nat
  /\ MinDivider \in Nat \ {0} /\ MaxDivider \in Nat
  /\ Frequencies \subseteq MinFrequency..MaxFrequency
  /\ Dividers \subseteq MinDivider..MaxDivider
  /\ DefaultFrequency \in Frequencies /\ DefaultDivider \in Dividers
  /\ Registers \subseteq [div : Nat, mod : {0} \cup {d \in Nat : d >= MinModDiv},
                          demod : 0..1]
ASSUME BoundsAssumption == MaxActs \in Nat /\ MaxAhead \in Nat

VARIABLES
  controls,  \* what the controls show
  dirty,     \* the _..._settings_dirty flags that are set
  unsent,    \* what the user edited and neither sent nor lost to a refresh since
  focus,     \* whether the frequency box has the keyboard focus
  enabled,   \* whether the last refresh found a connection and enabled the buttons
  latest,    \* _latest_message
  link,      \* the transport thread and its connection
  draining,  \* whether a thread that is done is in the last loop of _finish
  queue,     \* _command_queue
  wire,      \* commands sent and not yet read by the server
  messages,  \* messages sent and not yet handled by the client
  server,    \* the registers of the server
  wanted,    \* what the user last commanded on this connection
  acts       \* what the user did so far

window == <<controls, dirty, unsent, focus, enabled>>
network == <<link, draining, queue, wire, messages>>
vars == <<window, latest, network, server, wanted, acts>>

Items == {"div", "mod", "demod"}
NoMessage == <<>>
NotCommanded == [i \in Items |-> NoMessage]

-----------------------------------------------------------------------------
(* The conversions of protocol.py and of the two number boxes.               *)

Rounded(a, b) == (2 * a + b) \div (2 * b)
Within(x, low, high) == IF x < low THEN low ELSE IF x > high THEN high ELSE x

ToDivider(f) == LET d == Rounded(Clock, f) IN IF d < MinModDiv THEN MinModDiv ELSE d
ToFrequency(d) == Within(Rounded(Clock, d), MinFrequency, MaxFrequency)

\* The divider set_modulation sends for what the controls show.
ModCommand(c) == IF c.on THEN ToDivider(c.freq) ELSE 0

DividerMatches(c, r) == r.div = c.div
ModMatches(c, r) == r.mod = ModCommand(c)
DemodMatches(c, r) == r.demod = c.demod

-----------------------------------------------------------------------------
(* The user.                                                                 *)

Connected == link = "up"

\* send_command only queues; nothing is refused here.
Command(item, value) ==
  /\ queue' = Append(queue, [item |-> item, value |-> value])
  /\ wanted' = [wanted EXCEPT ![item] = <<value>>]

NoCommand == UNCHANGED <<queue, wanted>>

Act == acts < MaxActs /\ acts' = acts + 1

Edit == Act /\ UNCHANGED <<enabled, latest, link, draining, wire, messages, server>>

EditDivider(d) ==
  /\ Edit
  /\ d # controls.div
  /\ controls' = [controls EXCEPT !.div = d]
  /\ dirty' = dirty \cup {"div"}
  /\ unsent' = unsent \cup {"div"}
  /\ NoCommand
  /\ UNCHANGED focus

SendDividerCommand ==
  /\ Edit /\ enabled
  /\ dirty' = dirty \cup {"div"}
  /\ unsent' = unsent \ {"div"}
  /\ Command("div", controls.div)
  /\ UNCHANGED <<controls, focus>>

\* The check box is never disabled; it disables the frequency box, which then
\* loses the focus.
ToggleModEnable ==
  /\ Edit
  /\ controls' = [controls EXCEPT !.on = ~@]
  /\ focus' = (focus /\ controls'.on)
  /\ dirty' = dirty \cup {"mod"}
  /\ IF Connected
       THEN Command("mod", ModCommand(controls')) /\ unsent' = unsent \ {"mod"}
       ELSE NoCommand /\ unsent' = unsent \cup {"mod"}

EditFrequency(f) ==
  /\ Edit /\ controls.on
  /\ f # controls.freq
  /\ controls' = [controls EXCEPT !.freq = f]
  /\ focus' = TRUE
  /\ dirty' = dirty \cup {"mod"}
  /\ unsent' = unsent \cup {"mod"}
  /\ NoCommand

\* Unlike "Set divider", "Set MOD" leaves the dirty flag as it is.
SendModulationCommand ==
  /\ Edit /\ enabled
  /\ unsent' = unsent \ {"mod"}
  /\ Command("mod", ModCommand(controls))
  /\ UNCHANGED <<controls, focus, dirty>>

ToggleDemodEnable ==
  /\ Edit /\ enabled
  /\ controls' = [controls EXCEPT !.demod = 1 - @]
  /\ dirty' = dirty \cup {"demod"}
  /\ IF Connected
       THEN Command("demod", controls'.demod) /\ unsent' = unsent \ {"demod"}
       ELSE NoCommand /\ unsent' = unsent \cup {"demod"}
  /\ UNCHANGED focus

LeaveFrequency ==
  /\ focus
  /\ focus' = FALSE
  /\ UNCHANGED <<controls, dirty, unsent, enabled, latest, network, server, wanted, acts>>

-----------------------------------------------------------------------------
(* The refresh.  An item whose message agrees with its control is no longer  *)
(* dirty, and one that is not dirty takes the value of the message.          *)

Agreed(r) == {i \in Items : CASE i = "div" -> DividerMatches(controls, r)
                              [] i = "mod" -> ModMatches(controls, r)
                              [] i = "demod" -> DemodMatches(controls, r)}

\* The frequency the refresh shows: it stays while the box has the focus or
\* the output is off.
ShownFrequency(r) == IF r.mod # 0 /\ ~focus THEN ToFrequency(r.mod) ELSE controls.freq

\* Mutant: the divider box takes the register as it is.
SyncDividerUnclipped(r, kept) == IF kept THEN controls.div ELSE r.div

SyncDivider(r, kept) ==
  IF kept THEN controls.div ELSE Within(r.div, MinDivider, MaxDivider)

SyncModEnable(r, kept) == IF kept THEN controls.on ELSE r.mod # 0

SyncFrequency(r, kept) == IF kept THEN controls.freq ELSE ShownFrequency(r)

SyncDemod(r, kept) == IF kept THEN controls.demod ELSE r.demod

\* Mutant: the copy of the divider emits its signal.
DirtiedToo(c) == (IF c.freq # controls.freq THEN {"mod"} ELSE {})
                   \cup (IF c.div # controls.div THEN {"div"} ELSE {})

\* setValue of the frequency box is the one whose signal is not blocked: when
\* it changes the box, _on_mod_frequency_changed marks the settings dirty.
Dirtied(c) == IF c.freq # controls.freq THEN {"mod"} ELSE {}

\* Mutant: the copy of the MOD check box emits its signal.
RefreshSendsIfToggled(c) ==
  /\ queue' = IF c.on = controls.on THEN queue
              ELSE Append(queue, [item |-> "mod", value |-> ModCommand(c)])
  /\ UNCHANGED wanted

\* No copy made by a refresh sends a command: the signals of the check boxes
\* are blocked.
RefreshSends(c) == NoCommand

Overwritten(c) == {i \in Items : CASE i = "div" -> c.div # controls.div
                                    [] i = "mod" -> <<c.on, c.freq>> # <<controls.on, controls.freq>>
                                    [] i = "demod" -> c.demod # controls.demod}

SyncControls(r) ==
  LET left == dirty \ Agreed(r)
      Kept(i) == ~Connected \/ i \in left
      shown == [div |-> SyncDivider(r, Kept("div")),
                on |-> SyncModEnable(r, Kept("mod")),
                freq |-> SyncFrequency(r, Kept("mod")),
                demod |-> SyncDemod(r, Kept("demod"))]
  IN /\ controls' = shown
     /\ dirty' = left \cup Dirtied(shown)
     /\ focus' = (focus /\ shown.on)
     /\ unsent' = unsent \ Overwritten(shown)
     /\ RefreshSends(shown)

Refresh ==
  /\ IF latest = NoMessage
       THEN UNCHANGED <<controls, dirty, focus, unsent>> /\ NoCommand
       ELSE SyncControls(latest[1])
  /\ enabled' = Connected
  /\ UNCHANGED <<latest, link, draining, wire, messages, server, acts>>

-----------------------------------------------------------------------------
(* The connection.                                                           *)

\* _toggle_connection without a connection: connect refuses while the worker of
\* the last one is still there, and the flags are cleared once it accepts.
Connect ==
  /\ link = "down"
  /\ Act
  /\ link' = "opening"
  /\ dirty' = {} /\ unsent' = {}
  /\ UNCHANGED <<controls, focus, enabled, latest, draining, queue, wire, messages,
                 server, wanted>>

\* The server takes the client once it has read all of the last one.
Handshake ==
  /\ link = "opening" /\ wire = <<>>
  /\ link' = "up"
  /\ UNCHANGED <<window, latest, draining, queue, wire, messages, server, wanted, acts>>

\* The worker leaves its loop: no handshake, an error, or the server closes.
\* What the client sent may still reach the server, what it did not read is gone.
Hangup ==
  /\ link \in {"opening", "up"}
  /\ link' = "closing"
  /\ latest' = NoMessage
  /\ messages' = <<>>
  /\ wire' \in {wire, <<>>}
  /\ wanted' = NotCommanded
  /\ UNCHANGED <<window, draining, queue, server, acts>>

\* _finish: from here on the next connect may start a thread ...
Finish ==
  /\ link = "closing" /\ ~draining
  /\ link' = "down" /\ draining' = TRUE
  /\ UNCHANGED <<window, latest, queue, wire, messages, server, wanted, acts>>

\* ... while this one drops what it finds in the queue, whosever it is.
Drain ==
  /\ draining
  /\ IF queue = <<>>
       THEN draining' = FALSE /\ UNCHANGED <<queue, unsent, wanted>>
       ELSE LET item == Head(queue).item
                lost == \A i \in 2..Len(queue) : queue[i].item # item
            IN /\ queue' = Tail(queue)
               /\ unsent' = IF lost THEN unsent \cup {item} ELSE unsent
               /\ wanted' = IF lost THEN [wanted EXCEPT ![item] = NoMessage] ELSE wanted
               /\ UNCHANGED draining
  /\ UNCHANGED <<controls, dirty, focus, enabled, latest, link, wire, messages,
                 server, acts>>

\* _toggle_connection with a connection: disconnect waits for the worker to end.
Disconnect ==
  /\ link = "up"
  /\ link' = "down"
  /\ latest' = NoMessage
  /\ messages' = <<>> /\ queue' = <<>>
  /\ wire' \in {wire, <<>>}
  /\ wanted' = NotCommanded
  /\ UNCHANGED <<window, draining, server, acts>>

FlushOutbound ==
  /\ Connected /\ queue # <<>>
  /\ wire' = wire \o queue
  /\ queue' = <<>>
  /\ UNCHANGED <<window, latest, link, draining, messages, server, wanted, acts>>

HandleMessage ==
  /\ Connected /\ messages # <<>>
  /\ latest' = <<Head(messages)>>
  /\ messages' = Tail(messages)
  /\ UNCHANGED <<window, link, draining, queue, wire, server, wanted, acts>>

-----------------------------------------------------------------------------
(* The server: every message carries a snapshot of the registers.            *)

Apply(r, command) == [r EXCEPT ![command.item] = command.value]

\* A command is applied and its answer, the registers after it, is sent.
Serve ==
  /\ wire # <<>>
  /\ Len(messages) < MaxAhead
  /\ server' = Apply(server, Head(wire))
  /\ wire' = Tail(wire)
  /\ messages' = IF Connected THEN Append(messages, server') ELSE messages
  /\ UNCHANGED <<window, latest, link, draining, queue, wanted, acts>>

\* A sample, or the answer to a command that changes none of these registers
\* (one place is left for the answer to a command that does).
SendSample ==
  /\ Connected
  /\ Len(messages) + 1 < MaxAhead
  /\ messages' = Append(messages, server)
  /\ UNCHANGED <<window, latest, link, draining, queue, wire, server, wanted, acts>>

-----------------------------------------------------------------------------
Init ==
  /\ controls = [div |-> DefaultDivider, on |-> TRUE, freq |-> DefaultFrequency,
                 demod |-> 0]
  /\ dirty = {} /\ unsent = {}
  /\ focus = FALSE /\ enabled = FALSE
  /\ latest = NoMessage
  /\ link = "down" /\ draining = FALSE
  /\ queue = <<>> /\ wire = <<>> /\ messages = <<>>
  /\ server \in Registers
  /\ wanted = NotCommanded
  /\ acts = 0

Next ==
  \/ \E d \in Dividers : EditDivider(d)
  \/ SendDividerCommand
  \/ ToggleModEnable
  \/ \E f \in Frequencies : EditFrequency(f)
  \/ SendModulationCommand
  \/ ToggleDemodEnable
  \/ LeaveFrequency
  \/ Refresh
  \/ Connect \/ Handshake \/ Hangup \/ Finish \/ Drain \/ Disconnect
  \/ FlushOutbound \/ HandleMessage
  \/ Serve \/ SendSample

\* The refresh timer, the worker's loop and the server's loop run on.
Fairness ==
  /\ WF_vars(Refresh)
  /\ WF_vars(FlushOutbound)
  /\ WF_vars(HandleMessage)
  /\ WF_vars(Serve)

Spec == Init /\ [][Next]_vars /\ Fairness

-----------------------------------------------------------------------------
(* Properties.                                                               *)

Commands == [item : Items, value : Nat]
Snapshots == [div : Nat, mod : Nat, demod : 0..1]

\* The state is well typed: the boxes never leave their ranges, whatever the
\* server reports, and the frequency box keeps the focus only while it is
\* enabled.
TypeOK ==
  /\ controls \in [div : MinDivider..MaxDivider, on : BOOLEAN,
                   freq : MinFrequency..MaxFrequency, demod : 0..1]
  /\ dirty \subseteq Items /\ unsent \subseteq Items
  /\ focus \in BOOLEAN /\ enabled \in BOOLEAN
  /\ focus => controls.on
  /\ latest = NoMessage \/ latest[1] \in Snapshots
  /\ link \in {"down", "opening", "up", "closing"} /\ draining \in BOOLEAN
  /\ queue \in Seq(Commands) /\ wire \in Seq(Commands)
  /\ messages \in Seq(Snapshots) /\ Len(messages) <= MaxAhead
  /\ server \in Snapshots
  /\ \A i \in Items : wanted[i] = NoMessage \/ wanted[i][1] \in Nat
  /\ acts \in 0..MaxActs

\* Once everything sent on a connection has been served, the server's registers
\* are what the user last asked for on it, unless the thread of the last connection
\* dropped the command on its way out: commands overtake each other nowhere,
\* and copying an old message into the controls sends nothing back (the signals
\* blocked around setValue and setChecked in _refresh).
ServerDoesAsCommanded ==
  Connected /\ queue = <<>> /\ wire = <<>>
    => \A i \in Items : wanted[i] # NoMessage => server[i] = wanted[i][1]

\* The controls stand for the registers, the frequency to its rounding.
DividerAgrees == controls.div = Within(server.div, MinDivider, MaxDivider)
DemodAgrees == controls.demod = server.demod
ModAgrees ==
  /\ controls.on = (server.mod # 0)
  /\ controls.on => \/ controls.freq = ToFrequency(server.mod)
                    \/ ToDivider(controls.freq) = server.mod

\* The controls only have to follow while messages arrive, no edit waits to be
\* sent and the user is not in the frequency box.
Following == Connected /\ latest # NoMessage /\ unsent \cap dirty = {} /\ ~focus

\* While a connection lasts, the divider and the demodulation control end up
\* showing the server's registers, with every flag that held them back cleared,
\* and so does the modulation unless its flag is set.
ControlsConverge ==
  <>[](Following => /\ DividerAgrees /\ DemodAgrees
                    /\ ModAgrees \/ "mod" \in dirty)

\* The modulation controls end up showing the server's registers too.  They do
\* not: a refresh that copies a frequency marks it as edited, and when the answer
\* to a "Set MOD" that was under way comes next, nothing clears the mark.
ModulationConverges == <>[](Following => ModAgrees)

\* A refresh does not overwrite a divider the user edited and has not sent.  It
\* does: a message older than the edit that happens to show the edited value clears
\* the flag, and the answer to an earlier command then replaces the edit.  A command
\* that the thread of the last connection dropped is overwritten the same way.
DividerEditSurvives ==
  [][Refresh /\ "div" \in unsent => controls'.div = controls.div]_vars
=============================================================================
