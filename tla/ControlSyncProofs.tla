--------------------------- MODULE ControlSyncProofs ---------------------------
(***************************************************************************)
(* The controls and the commands for all registers, values and bounds: the *)
(* boxes stay in their ranges whatever the server reports, and the         *)
(* registers are what the user last asked for on the connection.           *)
(*                                                                         *)
(* The second is not inductive: while commands are under way the registers *)
(* are older than the wish.  What holds in every state is that the wish is *)
(* the last command of its item on the way, queue behind wire, and the     *)
(* register itself when there is none.                                     *)
(***************************************************************************)
EXTENDS ControlSync, SequenceTheorems, TLAPS

\* The values a command for an item can have, and the user's wishes.
ValidCommands == {c \in Commands : c.item = "demod" => c.value \in 0..1}
Wishes == [Items -> {NoMessage} \cup {<<v>> : v \in Nat}]

TypeInv ==
  /\ controls \in [div : MinDivider..MaxDivider, on : BOOLEAN,
                   freq : MinFrequency..MaxFrequency, demod : 0..1]
  /\ dirty \subseteq Items /\ unsent \subseteq Items
  /\ focus \in BOOLEAN /\ enabled \in BOOLEAN
  /\ focus => controls.on
  /\ latest = NoMessage \/ latest \in {<<r>> : r \in Snapshots}
  /\ link \in {"down", "opening", "up", "closing"} /\ draining \in BOOLEAN
  /\ queue \in Seq(ValidCommands) /\ wire \in Seq(ValidCommands)
  /\ messages \in Seq(Snapshots) /\ Len(messages) <= MaxAhead
  /\ server \in Snapshots
  /\ wanted \in Wishes
  /\ acts \in 0..MaxActs

\* No command of s is for item i; the last one that is for i has the value v.
Without(s, i) == \A k \in 1..Len(s) : s[k].item # i
LastIs(s, i, v) ==
  \E k \in 1..Len(s) :
    /\ s[k].item = i /\ s[k].value = v
    /\ \A j \in 1..Len(s) : j > k => s[j].item # i

\* The register of i will be v once the commands of w and then of q are served.
Heading(q, w, r, i, v) ==
  \/ LastIs(q, i, v)
  \/ Without(q, i) /\ LastIs(w, i, v)
  \/ Without(q, i) /\ Without(w, i) /\ r[i] = v

WishInv ==
  \A i \in Items : wanted[i] # NoMessage => Heading(queue, wire, server, i, wanted[i][1])

IInv == TypeInv /\ WishInv

-----------------------------------------------------------------------------
(* The conversions. *)

LEMMA RoundedType ==
  ASSUME NEW a \in Nat, NEW b \in Nat \ {0}
  PROVE  Rounded(a, b) \in Int
BY DEF Rounded

LEMMA ToDividerType ==
  ASSUME NEW f \in MinFrequency..MaxFrequency
  PROVE  ToDivider(f) \in Nat
<1>1. f \in Nat \ {0} /\ Clock \in Nat /\ MinModDiv \in Nat
  BY ValuesAssumption
<1>2. Rounded(Clock, f) \in Int
  BY <1>1, RoundedType
<1> QED
  BY <1>1, <1>2 DEF ToDivider

\* Setting a box clips the value to the range of the box.
LEMMA WithinType ==
  ASSUME NEW x \in Int, NEW low \in Int, NEW high \in Int, low <= high
  PROVE  Within(x, low, high) \in low..high
BY DEF Within

LEMMA Ranges ==
  /\ MinFrequency \in Nat \ {0} /\ MaxFrequency \in Int /\ MinFrequency <= MaxFrequency
  /\ MinDivider \in Nat \ {0} /\ MaxDivider \in Int /\ MinDivider <= MaxDivider
BY ValuesAssumption

LEMMA ToFrequencyType ==
  ASSUME NEW d \in Nat, d # 0
  PROVE  ToFrequency(d) \in MinFrequency..MaxFrequency
<1>1. Rounded(Clock, d) \in Int
  BY RoundedType, ValuesAssumption
<1>2. MinFrequency \in Int /\ MaxFrequency \in Int /\ MinFrequency <= MaxFrequency
  BY Ranges
<1>3. Within(Rounded(Clock, d), MinFrequency, MaxFrequency) \in MinFrequency..MaxFrequency
  BY <1>1, <1>2, WithinType
<1> QED
  BY <1>3 DEF ToFrequency

-----------------------------------------------------------------------------
(* Where the last command for an item is, as commands move. *)

\* One more command at the end is the last one for its item.
LEMMA AppendLast ==
  ASSUME NEW s \in Seq(Commands), NEW c \in Commands, NEW i, NEW v
  PROVE  /\ c.item = i => LastIs(Append(s, c), i, c.value)
         /\ c.item # i => /\ LastIs(s, i, v) => LastIs(Append(s, c), i, v)
                          /\ Without(s, i) => Without(Append(s, c), i)
<1> DEFINE t == Append(s, c)
<1>1. /\ Len(s) \in Nat /\ Len(t) = Len(s) + 1
      /\ \A k \in 1..Len(s) : t[k] = s[k]
      /\ t[Len(s) + 1] = c
  BY AppendProperties, LenProperties
<1> HIDE DEF t
<1>2. ASSUME c.item = i PROVE LastIs(t, i, c.value)
  <2>1. Len(s) + 1 \in 1..Len(t)
    BY <1>1
  <2>2. \A j \in 1..Len(t) : ~(j > Len(s) + 1)
    BY <1>1
  <2> QED
    BY <1>1, <1>2, <2>1, <2>2 DEF LastIs
<1>3. ASSUME c.item # i, LastIs(s, i, v) PROVE LastIs(t, i, v)
  <2>1. PICK k \in 1..Len(s) : /\ s[k].item = i /\ s[k].value = v
                               /\ \A j \in 1..Len(s) : j > k => s[j].item # i
    BY <1>3 DEF LastIs
  <2>2. k \in 1..Len(t) /\ t[k] = s[k]
    BY <1>1
  <2>3. ASSUME NEW j \in 1..Len(t), j > k PROVE t[j].item # i
    <3>1. CASE j \in 1..Len(s)
      BY <1>1, <2>1, <2>3, <3>1
    <3>2. CASE j = Len(s) + 1
      BY <1>1, <1>3, <3>2
    <3> QED
      BY <1>1, <3>1, <3>2
  <2> QED
    BY <2>1, <2>2, <2>3 DEF LastIs
<1>4. ASSUME c.item # i, Without(s, i) PROVE Without(t, i)
  <2>1. ASSUME NEW k \in 1..Len(t) PROVE t[k].item # i
    <3>1. CASE k \in 1..Len(s)
      BY <1>1, <1>4, <3>1 DEF Without
    <3>2. CASE k = Len(s) + 1
      BY <1>1, <1>4, <3>2
    <3> QED
      BY <1>1, <3>1, <3>2
  <2> QED
    BY <2>1 DEF Without
<1> QED
  BY <1>2, <1>3, <1>4 DEF t

\* The first command goes: it was the last for its item, or it was not.
LEMMA TailLast ==
  ASSUME NEW s \in Seq(Commands), s # <<>>, NEW i, NEW v
  PROVE  /\ LastIs(s, i, v) =>
              \/ LastIs(Tail(s), i, v)
              \/ Without(Tail(s), i) /\ Head(s).item = i /\ Head(s).value = v
         /\ Without(s, i) => Without(Tail(s), i) /\ Head(s).item # i
<1> DEFINE t == Tail(s)
<1>1. /\ Len(s) \in Nat \ {0} /\ Len(t) = Len(s) - 1
      /\ \A k \in 1..Len(t) : t[k] = s[k + 1]
      /\ Head(s) = s[1]
  BY EmptySeq, LenProperties, HeadTailProperties
<1> HIDE DEF t
<1>2. ASSUME LastIs(s, i, v)
      PROVE  \/ LastIs(t, i, v)
             \/ Without(t, i) /\ Head(s).item = i /\ Head(s).value = v
  <2>1. PICK k \in 1..Len(s) : /\ s[k].item = i /\ s[k].value = v
                               /\ \A j \in 1..Len(s) : j > k => s[j].item # i
    BY <1>2 DEF LastIs
  <2>2. ASSUME NEW j \in 1..Len(t), j + 1 > k PROVE t[j].item # i
    <3>1. j + 1 \in 1..Len(s)
      BY <1>1
    <3> QED
      BY <1>1, <2>1, <2>2, <3>1
  <2>3. CASE k = 1
    <3>1. \A j \in 1..Len(t) : j + 1 > k
      BY <1>1, <2>3
    <3> QED
      BY <1>1, <2>1, <2>2, <2>3, <3>1 DEF Without
  <2>4. CASE k > 1
    <3>1. k - 1 \in 1..Len(t) /\ (k - 1) + 1 = k
      BY <1>1, <2>4
    <3>2. t[k - 1] = s[k]
      BY <1>1, <3>1
    <3>3. \A j \in 1..Len(t) : j > k - 1 => j + 1 > k
      BY <1>1
    <3> QED
      BY <2>1, <2>2, <3>1, <3>2, <3>3 DEF LastIs
  <2> QED
    BY <1>1, <2>3, <2>4
<1>3. ASSUME Without(s, i) PROVE Without(t, i) /\ Head(s).item # i
  <2>1. ASSUME NEW k \in 1..Len(t) PROVE t[k].item # i
    <3>1. k + 1 \in 1..Len(s)
      BY <1>1
    <3> QED
      BY <1>1, <1>3, <3>1 DEF Without
  <2>2. 1 \in 1..Len(s)
    BY <1>1
  <2> QED
    BY <1>1, <1>3, <2>1, <2>2 DEF Without
<1> QED
  BY <1>2, <1>3 DEF t

\* The queue is appended to the wire.
LEMMA ConcatLast ==
  ASSUME NEW w \in Seq(Commands), NEW q \in Seq(Commands), NEW i, NEW v
  PROVE  /\ LastIs(q, i, v) => LastIs(w \o q, i, v)
         /\ Without(q, i) /\ LastIs(w, i, v) => LastIs(w \o q, i, v)
         /\ Without(q, i) /\ Without(w, i) => Without(w \o q, i)
<1> DEFINE t == w \o q
<1>1. /\ Len(w) \in Nat /\ Len(q) \in Nat /\ Len(t) = Len(w) + Len(q)
      /\ \A k \in 1..Len(t) : t[k] = IF k <= Len(w) THEN w[k] ELSE q[k - Len(w)]
  BY ConcatProperties, LenProperties
<1> HIDE DEF t
<1>2. ASSUME NEW k \in 1..Len(t)
      PROVE  \/ k \in 1..Len(w) /\ t[k] = w[k]
             \/ k - Len(w) \in 1..Len(q) /\ t[k] = q[k - Len(w)]
  BY <1>1
<1>3. ASSUME LastIs(q, i, v) PROVE LastIs(t, i, v)
  <2>1. PICK k \in 1..Len(q) : /\ q[k].item = i /\ q[k].value = v
                               /\ \A j \in 1..Len(q) : j > k => q[j].item # i
    BY <1>3 DEF LastIs
  <2> DEFINE n == Len(w) + k
  <2>2. n \in 1..Len(t) /\ ~(n <= Len(w)) /\ n - Len(w) = k
    BY <1>1
  <2>3. t[n] = q[k]
    BY <1>1, <2>2
  <2>4. ASSUME NEW j \in 1..Len(t), j > n PROVE t[j].item # i
    <3>1. j - Len(w) \in 1..Len(q) /\ t[j] = q[j - Len(w)] /\ j - Len(w) > k
      BY <1>1, <2>4
    <3> QED
      BY <2>1, <3>1
  <2> QED
    BY <2>1, <2>2, <2>3, <2>4 DEF LastIs
<1>4. ASSUME Without(q, i), LastIs(w, i, v) PROVE LastIs(t, i, v)
  <2>1. PICK k \in 1..Len(w) : /\ w[k].item = i /\ w[k].value = v
                               /\ \A j \in 1..Len(w) : j > k => w[j].item # i
    BY <1>4 DEF LastIs
  <2>2. k \in 1..Len(t) /\ t[k] = w[k]
    BY <1>1
  <2>3. \A j \in 1..Len(t) : j > k => t[j].item # i
    BY <1>2, <1>4, <2>1 DEF Without
  <2> QED
    BY <2>1, <2>2, <2>3 DEF LastIs
<1>5. ASSUME Without(q, i), Without(w, i) PROVE Without(t, i)
  BY <1>2, <1>5 DEF Without
<1> QED
  BY <1>3, <1>4, <1>5 DEF t

-----------------------------------------------------------------------------
(* What the steps do to the types. *)

LEMMA InitType == Init => TypeInv
<1> SUFFICES ASSUME Init PROVE TypeInv
  OBVIOUS
<1>1. controls \in [div : MinDivider..MaxDivider, on : BOOLEAN,
                    freq : MinFrequency..MaxFrequency, demod : 0..1]
  BY ValuesAssumption DEF Init
<1>2. queue \in Seq(ValidCommands) /\ wire \in Seq(ValidCommands)
  BY EmptySeq DEF Init
<1>3. messages \in Seq(Snapshots) /\ Len(messages) <= MaxAhead
  BY EmptySeq, BoundsAssumption DEF Init
<1>4. server \in Snapshots
  BY ValuesAssumption DEF Init, Snapshots
<1>5. wanted \in Wishes
  BY DEF Init, NotCommanded, Wishes
<1>6. focus \in BOOLEAN /\ enabled \in BOOLEAN /\ draining \in BOOLEAN /\ ~focus
  BY DEF Init
<1>7. acts \in 0..MaxActs
  BY BoundsAssumption DEF Init
<1> QED
  BY <1>1, <1>2, <1>3, <1>4, <1>5, <1>6, <1>7 DEF Init, TypeInv

\* What a command puts in the queue and among the wishes.
LEMMA CommandType ==
  ASSUME TypeInv, NEW i \in Items, NEW v \in Nat, i = "demod" => v \in 0..1, Command(i, v)
  PROVE  queue' \in Seq(ValidCommands) /\ wanted' \in Wishes
<1>1. [item |-> i, value |-> v] \in ValidCommands
  BY DEF ValidCommands, Commands
<1>2. queue' \in Seq(ValidCommands)
  BY <1>1, AppendProperties DEF TypeInv, Command
<1>3. wanted' \in Wishes
  BY DEF TypeInv, Command, Wishes
<1> QED
  BY <1>2, <1>3

LEMMA ModCommandType ==
  ASSUME NEW c, c.freq \in MinFrequency..MaxFrequency
  PROVE  ModCommand(c) \in Nat
BY ToDividerType DEF ModCommand

\* An edit, with or without its command.
LEMMA EditType ==
  ASSUME TypeInv, Edit,
         controls' \in [div : MinDivider..MaxDivider, on : BOOLEAN,
                        freq : MinFrequency..MaxFrequency, demod : 0..1],
         dirty' \subseteq Items, unsent' \subseteq Items,
         focus' \in BOOLEAN, focus' => controls'.on,
         \/ NoCommand
         \/ \E i \in Items : \E v \in Nat : (i = "demod" => v \in 0..1) /\ Command(i, v)
  PROVE  TypeInv'
<1>1. acts' \in 0..MaxActs
  BY BoundsAssumption DEF TypeInv, Edit, Act
<1>2. queue' \in Seq(ValidCommands) /\ wanted' \in Wishes
  BY CommandType DEF NoCommand, TypeInv
<1> QED
  BY <1>1, <1>2 DEF TypeInv, Edit

LEMMA EditsKeepTypes ==
  ASSUME TypeInv,
         \/ \E d \in Dividers : EditDivider(d)
         \/ SendDividerCommand
         \/ ToggleModEnable
         \/ \E f \in Frequencies : EditFrequency(f)
         \/ SendModulationCommand
         \/ ToggleDemodEnable
  PROVE  TypeInv'
<1> DEFINE Controls == [div : MinDivider..MaxDivider, on : BOOLEAN,
                        freq : MinFrequency..MaxFrequency, demod : 0..1]
<1>1. /\ controls \in Controls /\ dirty \subseteq Items /\ unsent \subseteq Items
      /\ focus \in BOOLEAN /\ (focus => controls.on)
  BY DEF TypeInv
<1>2. ASSUME NEW d \in Dividers, EditDivider(d) PROVE TypeInv'
  <2>1. controls' \in Controls /\ controls'.on = controls.on
    BY <1>1, <1>2, ValuesAssumption DEF EditDivider
  <2>2. dirty' \subseteq Items /\ unsent' \subseteq Items
    BY <1>1, <1>2 DEF EditDivider, Items
  <2> QED
    BY <1>1, <1>2, <2>1, <2>2, EditType DEF EditDivider
<1>3. CASE SendDividerCommand
  <2>1. controls.div \in Nat /\ "div" \in Items
    BY <1>1, Ranges DEF Items
  <2>2. dirty' \subseteq Items /\ unsent' \subseteq Items
    BY <1>1, <1>3 DEF SendDividerCommand, Items
  <2> QED
    BY <1>1, <1>3, <2>1, <2>2, EditType DEF SendDividerCommand
<1>4. CASE ToggleModEnable
  <2>1. controls' \in Controls
    BY <1>1, <1>4 DEF ToggleModEnable
  <2>2. dirty' \subseteq Items /\ unsent' \subseteq Items
    BY <1>1, <1>4 DEF ToggleModEnable, Items
  <2>3. focus' \in BOOLEAN /\ (focus' => controls'.on)
    BY <1>1, <1>4, <2>1 DEF ToggleModEnable
  <2>4. ModCommand(controls') \in Nat /\ "mod" \in Items
    BY <2>1, ModCommandType DEF Items
  <2> QED
    BY <1>4, <2>1, <2>2, <2>3, <2>4, EditType DEF ToggleModEnable
<1>5. ASSUME NEW f \in Frequencies, EditFrequency(f) PROVE TypeInv'
  <2>1. controls' \in Controls /\ controls'.on
    BY <1>1, <1>5, ValuesAssumption DEF EditFrequency
  <2>2. dirty' \subseteq Items /\ unsent' \subseteq Items /\ focus' \in BOOLEAN
    BY <1>1, <1>5 DEF EditFrequency, Items
  <2> QED
    BY <1>5, <2>1, <2>2, EditType DEF EditFrequency
<1>6. CASE SendModulationCommand
  <2>1. ModCommand(controls) \in Nat /\ "mod" \in Items
    BY <1>1, ModCommandType DEF Items
  <2>2. dirty' \subseteq Items /\ unsent' \subseteq Items
    BY <1>1, <1>6 DEF SendModulationCommand
  <2> QED
    BY <1>1, <1>6, <2>1, <2>2, EditType DEF SendModulationCommand
<1>7. CASE ToggleDemodEnable
  <2>1. controls' \in Controls /\ controls'.on = controls.on
    BY <1>1, <1>7 DEF ToggleDemodEnable
  <2>2. dirty' \subseteq Items /\ unsent' \subseteq Items
    BY <1>1, <1>7 DEF ToggleDemodEnable, Items
  <2>3. controls'.demod \in 0..1 /\ controls'.demod \in Nat /\ "demod" \in Items
    BY <2>1 DEF Items
  <2> QED
    BY <1>1, <1>7, <2>1, <2>2, <2>3, EditType DEF ToggleDemodEnable
<1> QED
  BY <1>2, <1>3, <1>4, <1>5, <1>6, <1>7

\* A refresh clips the divider and the frequency to their boxes.
LEMMA SyncType ==
  ASSUME TypeInv, NEW r \in Snapshots, SyncControls(r)
  PROVE  /\ controls' \in [div : MinDivider..MaxDivider, on : BOOLEAN,
                            freq : MinFrequency..MaxFrequency, demod : 0..1]
         /\ dirty' \subseteq Items /\ unsent' \subseteq Items
         /\ focus' \in BOOLEAN /\ (focus' => controls'.on)
<1>1. /\ r.div \in Nat /\ r.mod \in Nat /\ r.demod \in 0..1
      /\ controls.div \in MinDivider..MaxDivider /\ controls.on \in BOOLEAN
      /\ controls.freq \in MinFrequency..MaxFrequency /\ controls.demod \in 0..1
  BY DEF TypeInv, Snapshots
<1>2. \A kept \in BOOLEAN : SyncDivider(r, kept) \in MinDivider..MaxDivider
  <2>1. Within(r.div, MinDivider, MaxDivider) \in MinDivider..MaxDivider
    <3>1. r.div \in Int /\ MinDivider \in Int /\ MaxDivider \in Int /\ MinDivider <= MaxDivider
      BY <1>1, Ranges
    <3> QED
      BY <3>1, WithinType
  <2> QED
    BY <1>1, <2>1 DEF SyncDivider
<1>3. \A kept \in BOOLEAN : SyncModEnable(r, kept) \in BOOLEAN
  BY <1>1 DEF SyncModEnable
<1>4. \A kept \in BOOLEAN : SyncFrequency(r, kept) \in MinFrequency..MaxFrequency
  BY <1>1, ToFrequencyType DEF SyncFrequency, ShownFrequency
<1>5. \A kept \in BOOLEAN : SyncDemod(r, kept) \in 0..1
  BY <1>1 DEF SyncDemod
<1>6. /\ dirty \ Agreed(r) \subseteq Items /\ unsent \subseteq Items /\ focus \in BOOLEAN
      /\ \A c : Dirtied(c) \subseteq Items
  BY DEF TypeInv, Items, Dirtied
<1>7. controls' \in [div : MinDivider..MaxDivider, on : BOOLEAN,
                     freq : MinFrequency..MaxFrequency, demod : 0..1]
  BY <1>2, <1>3, <1>4, <1>5 DEF SyncControls
<1>8. focus' = (focus /\ controls'.on)
  BY DEF SyncControls
<1>9. dirty' \subseteq Items /\ unsent' \subseteq Items
  BY <1>6 DEF SyncControls
<1> QED
  BY <1>6, <1>7, <1>8, <1>9

LEMMA RefreshType == TypeInv /\ Refresh => TypeInv'
<1> SUFFICES ASSUME TypeInv, Refresh PROVE TypeInv'
  OBVIOUS
<1>1. UNCHANGED <<queue, wanted>>
  BY DEF Refresh, SyncControls, RefreshSends, NoCommand
<1>2. enabled' \in BOOLEAN
  BY DEF Refresh, Connected
<1>3. CASE latest = NoMessage
  BY <1>1, <1>2, <1>3 DEF TypeInv, Refresh
<1>4. CASE latest # NoMessage
  <2>1. latest[1] \in Snapshots
    BY <1>4 DEF TypeInv
  <2>2. SyncControls(latest[1])
    BY <1>4 DEF Refresh
  <2> QED
    BY <1>1, <1>2, <2>1, <2>2, SyncType DEF TypeInv, Refresh
<1> QED
  BY <1>3, <1>4

\* A command applied to the registers.
LEMMA ApplyType ==
  ASSUME NEW r \in Snapshots, NEW c \in ValidCommands
  PROVE  /\ Apply(r, c) \in Snapshots
         /\ Apply(r, c)[c.item] = c.value
         /\ \A i \in Items : i # c.item => Apply(r, c)[i] = r[i]
BY DEF Apply, Snapshots, ValidCommands, Commands, Items

LEMMA NetworkType ==
  ASSUME TypeInv,
         \/ LeaveFrequency \/ Connect \/ Handshake \/ Hangup \/ Finish \/ Drain \/ Disconnect
         \/ FlushOutbound \/ HandleMessage \/ Serve \/ SendSample
  PROVE  TypeInv'
<1> USE DEF TypeInv, window, network
<1>1. CASE LeaveFrequency
  BY <1>1 DEF LeaveFrequency
<1>2. CASE Connect
  <2>1. acts' \in 0..MaxActs
    BY <1>2, BoundsAssumption DEF Connect, Act
  <2> QED
    BY <1>2, <2>1 DEF Connect
<1>3. CASE Handshake
  BY <1>3 DEF Handshake
<1>4. CASE Hangup \/ Disconnect
  <2>1. messages' \in Seq(Snapshots) /\ Len(messages') <= MaxAhead
    <3>1. messages' = <<>>
      BY <1>4 DEF Hangup, Disconnect
    <3> QED
      BY <3>1, EmptySeq, BoundsAssumption
  <2>2. wire' \in {wire, <<>>} /\ queue' \in {queue, <<>>}
    BY <1>4 DEF Hangup, Disconnect
  <2>3. wire' \in Seq(ValidCommands) /\ queue' \in Seq(ValidCommands)
    BY <2>2, EmptySeq
  <2>4. wanted' \in Wishes
    BY <1>4 DEF Hangup, Disconnect, NotCommanded, Wishes
  <2> QED
    BY <1>4, <2>1, <2>3, <2>4 DEF Hangup, Disconnect
<1>5. CASE Finish
  <2>1. draining' \in BOOLEAN
    BY <1>5 DEF Finish
  <2> QED
    BY <1>5, <2>1 DEF Finish
<1>6. CASE Drain
  <2>1. CASE queue = <<>>
    <3>1. draining' \in BOOLEAN
      BY <1>6, <2>1 DEF Drain
    <3> QED
      BY <1>6, <2>1, <3>1 DEF Drain
  <2>2. CASE queue # <<>>
    <3>1. queue' = Tail(queue) /\ Head(queue) \in ValidCommands
      BY <1>6, <2>2, HeadTailProperties DEF Drain
    <3>2. queue' \in Seq(ValidCommands) /\ Head(queue).item \in Items
      BY <2>2, <3>1, HeadTailProperties DEF ValidCommands, Commands
    <3>3. /\ unsent' \in {unsent, unsent \cup {Head(queue).item}}
          /\ wanted' \in {wanted, [wanted EXCEPT ![Head(queue).item] = NoMessage]}
      BY <1>6, <2>2 DEF Drain
    <3>4. wanted' \in Wishes
      BY <3>3 DEF Wishes
    <3> QED
      BY <1>6, <2>2, <3>2, <3>3, <3>4 DEF Drain
  <2> QED
    BY <2>1, <2>2
<1>7. CASE FlushOutbound
  <2>1. queue' \in Seq(ValidCommands) /\ wire' \in Seq(ValidCommands)
    BY <1>7, EmptySeq, ConcatProperties DEF FlushOutbound
  <2> QED
    BY <1>7, <2>1 DEF FlushOutbound
<1>8. CASE HandleMessage
  <2>1. /\ Head(messages) \in Snapshots /\ messages' \in Seq(Snapshots)
        /\ Len(messages') = Len(messages) - 1
    BY <1>8, HeadTailProperties DEF HandleMessage
  <2>2. Len(messages') <= MaxAhead
    BY <2>1, LenProperties, BoundsAssumption
  <2>3. latest' \in {<<r>> : r \in Snapshots}
    BY <1>8, <2>1 DEF HandleMessage
  <2> QED
    BY <1>8, <2>1, <2>2, <2>3 DEF HandleMessage
<1>9. CASE Serve
  <2>1. Head(wire) \in ValidCommands /\ wire' \in Seq(ValidCommands)
    BY <1>9, HeadTailProperties DEF Serve
  <2>2. server' \in Snapshots
    BY <1>9, <2>1, ApplyType DEF Serve
  <2>3. messages' \in Seq(Snapshots) /\ Len(messages') <= MaxAhead
    <3>1. CASE messages' = messages
      BY <3>1
    <3>2. CASE messages' = Append(messages, server')
      BY <1>9, <2>2, <3>2, AppendProperties, LenProperties, BoundsAssumption DEF Serve
    <3> QED
      BY <1>9, <3>1, <3>2 DEF Serve
  <2> QED
    BY <1>9, <2>1, <2>2, <2>3 DEF Serve
<1>10. CASE SendSample
  <2>1. messages' \in Seq(Snapshots) /\ Len(messages') <= MaxAhead
    BY <1>10, AppendProperties, LenProperties, BoundsAssumption DEF SendSample
  <2> QED
    BY <1>10, <2>1 DEF SendSample
<1> QED
  BY <1>1, <1>2, <1>3, <1>4, <1>5, <1>6, <1>7, <1>8, <1>9, <1>10

LEMMA TypeStep == TypeInv /\ [Next]_vars => TypeInv'
<1> SUFFICES ASSUME TypeInv, [Next]_vars PROVE TypeInv'
  OBVIOUS
<1>1. CASE UNCHANGED vars
  BY <1>1 DEF TypeInv, vars, window, network
<1>2. CASE Next
  BY <1>2, EditsKeepTypes, RefreshType, NetworkType DEF Next
<1> QED
  BY <1>1, <1>2

-----------------------------------------------------------------------------
(* What the steps do to the commands on the way. *)

LEMMA ValidAreCommands ==
  ASSUME TypeInv
  PROVE  queue \in Seq(Commands) /\ wire \in Seq(Commands)
<1>1. ValidCommands \subseteq Commands
  BY DEF ValidCommands
<1> QED
  BY <1>1, SeqMonotonic DEF TypeInv

\* A command makes its value the wish, and is the last one for its item.
LEMMA CommandKeepsWishes ==
  ASSUME IInv, NEW i \in Items, NEW v \in Nat, Command(i, v), UNCHANGED <<wire, server>>
  PROVE  WishInv'
<1> SUFFICES ASSUME NEW k \in Items, wanted'[k] # NoMessage
             PROVE  Heading(queue', wire', server', k, wanted'[k][1])
  BY DEF WishInv
<1> DEFINE c == [item |-> i, value |-> v]
<1>1. c \in Commands /\ c.item = i /\ c.value = v
  BY DEF Commands
<1>2. queue' = Append(queue, c) /\ queue \in Seq(Commands)
  BY ValidAreCommands DEF IInv, Command
<1> HIDE DEF c
<1>3. CASE k = i
  <2>1. wanted'[k][1] = v
    BY <1>3 DEF Command, IInv, TypeInv, Wishes
  <2>2. LastIs(queue', k, v)
    BY <1>1, <1>2, <1>3, AppendLast
  <2> QED
    BY <2>1, <2>2 DEF Heading
<1>4. CASE k # i
  <2>1. wanted'[k] = wanted[k]
    BY <1>4 DEF Command, IInv, TypeInv, Wishes
  <2>2. Heading(queue, wire, server, k, wanted[k][1])
    BY <2>1 DEF IInv, WishInv
  <2>3. /\ LastIs(queue, k, wanted[k][1]) => LastIs(queue', k, wanted[k][1])
        /\ Without(queue, k) => Without(queue', k)
    BY <1>1, <1>2, <1>4, AppendLast
  <2> QED
    BY <2>1, <2>2, <2>3 DEF Heading
<1> QED
  BY <1>3, <1>4

\* The thread that is done drops a command: the wish goes with it if it was the
\* last one of its item.
LEMMA DrainKeepsWishes == IInv /\ Drain => WishInv'
<1> SUFFICES ASSUME IInv, Drain PROVE WishInv'
  OBVIOUS
<1>1. CASE queue = <<>>
  BY <1>1 DEF Drain, IInv, WishInv, Heading, Without, LastIs
<1>2. CASE queue # <<>>
  <2> DEFINE item == Head(queue).item
             lost == \A i \in 2..Len(queue) : queue[i].item # item
  <2>1. /\ queue' = Tail(queue) /\ UNCHANGED <<wire, server>>
        /\ wanted' = IF lost THEN [wanted EXCEPT ![item] = NoMessage] ELSE wanted
    BY <1>2 DEF Drain
  <2>2. /\ queue \in Seq(Commands) /\ Len(queue) \in Nat \ {0}
        /\ Len(Tail(queue)) = Len(queue) - 1
        /\ \A k \in 1..Len(queue) - 1 : Tail(queue)[k] = queue[k + 1]
    BY <1>2, ValidAreCommands, EmptySeq, LenProperties, HeadTailProperties DEF IInv
  <2>3. ~lost => ~Without(Tail(queue), item)
    <3> SUFFICES ASSUME NEW k \in 2..Len(queue), queue[k].item = item
                 PROVE  ~Without(Tail(queue), item)
      OBVIOUS
    <3>1. k - 1 \in 1..Len(Tail(queue)) /\ Tail(queue)[k - 1] = queue[(k - 1) + 1]
      BY <2>2
    <3>2. Tail(queue)[k - 1].item = item
      BY <2>2, <3>1
    <3> QED
      BY <3>1, <3>2 DEF Without
  <2> HIDE DEF item, lost
  <2> SUFFICES ASSUME NEW i \in Items, wanted'[i] # NoMessage
               PROVE  Heading(queue', wire', server', i, wanted'[i][1])
    BY DEF WishInv
  <2>4. wanted'[i] = wanted[i] /\ (i = item => ~lost)
    BY <2>1 DEF IInv, TypeInv, Wishes
  <2> DEFINE v == wanted[i][1]
  <2>5. Heading(queue, wire, server, i, v)
    BY <2>4 DEF IInv, WishInv
  <2> HIDE DEF v
  <2>6. /\ LastIs(queue, i, v) =>
              \/ LastIs(Tail(queue), i, v)
              \/ Without(Tail(queue), i) /\ item = i
        /\ Without(queue, i) => Without(Tail(queue), i)
    BY <1>2, <2>2, TailLast DEF item
  <2>7. Heading(queue', wire', server', i, v)
    BY <2>1, <2>3, <2>4, <2>5, <2>6 DEF Heading
  <2> QED
    BY <2>4, <2>7 DEF v
<1> QED
  BY <1>1, <1>2

\* What is flushed follows what is on the wire.
LEMMA FlushKeepsWishes == IInv /\ FlushOutbound => WishInv'
<1> SUFFICES ASSUME IInv, FlushOutbound,
                    NEW i \in Items, wanted'[i] # NoMessage
             PROVE  Heading(queue', wire', server', i, wanted'[i][1])
  BY DEF WishInv
<1>1. /\ wire' = wire \o queue /\ queue' = <<>> /\ UNCHANGED <<server, wanted>>
      /\ queue \in Seq(Commands) /\ wire \in Seq(Commands)
  BY ValidAreCommands DEF IInv, FlushOutbound
<1> DEFINE v == wanted[i][1]
<1>2. Heading(queue, wire, server, i, v)
  BY <1>1 DEF IInv, WishInv
<1>3. Without(queue', i)
  BY <1>1, EmptySeq DEF Without
<1> HIDE DEF v
<1>4. /\ LastIs(queue, i, v) => LastIs(wire', i, v)
      /\ Without(queue, i) /\ LastIs(wire, i, v) => LastIs(wire', i, v)
      /\ Without(queue, i) /\ Without(wire, i) => Without(wire', i)
  BY <1>1, ConcatLast
<1>5. Heading(queue', wire', server', i, v)
  BY <1>1, <1>2, <1>3, <1>4 DEF Heading
<1> QED
  BY <1>1, <1>5 DEF v

\* A command that is served leaves the wire for the register.
LEMMA ServeKeepsWishes == IInv /\ Serve => WishInv'
<1> SUFFICES ASSUME IInv, Serve, NEW i \in Items, wanted'[i] # NoMessage
             PROVE  Heading(queue', wire', server', i, wanted'[i][1])
  BY DEF WishInv
<1>1. /\ wire # <<>> /\ wire' = Tail(wire) /\ UNCHANGED <<queue, wanted>>
      /\ server' = Apply(server, Head(wire))
      /\ wire \in Seq(Commands) /\ Head(wire) \in ValidCommands /\ server \in Snapshots
  BY ValidAreCommands, HeadTailProperties DEF IInv, TypeInv, Serve
<1> DEFINE v == wanted[i][1]
<1>2. Heading(queue, wire, server, i, v)
  BY <1>1 DEF IInv, WishInv
<1> HIDE DEF v
<1>3. /\ LastIs(wire, i, v) =>
            \/ LastIs(wire', i, v)
            \/ Without(wire', i) /\ Head(wire).item = i /\ Head(wire).value = v
      /\ Without(wire, i) => Without(wire', i) /\ Head(wire).item # i
  BY <1>1, TailLast
<1>4. /\ Head(wire).item = i /\ Head(wire).value = v => server'[i] = v
      /\ Head(wire).item # i => server'[i] = server[i]
  BY <1>1, ApplyType
<1>5. Heading(queue', wire', server', i, v)
  BY <1>1, <1>2, <1>3, <1>4 DEF Heading
<1> QED
  BY <1>1, <1>5 DEF v

LEMMA WishStep == IInv /\ [Next]_vars => WishInv'
<1> SUFFICES ASSUME IInv, [Next]_vars PROVE WishInv'
  OBVIOUS
<1> USE DEF window, network
<1>1. CASE UNCHANGED <<queue, wire, server, wanted>>
  BY <1>1 DEF IInv, WishInv
<1>2. CASE wanted' = NotCommanded
  BY <1>2 DEF WishInv, NotCommanded
<1>3. ASSUME NEW d \in Dividers, EditDivider(d) PROVE WishInv'
  BY <1>1, <1>3 DEF EditDivider, Edit, NoCommand
<1>4. CASE SendDividerCommand
  <2>1. controls.div \in Nat /\ "div" \in Items
    BY Ranges DEF IInv, TypeInv, Items
  <2> QED
    BY <1>4, <2>1, CommandKeepsWishes DEF SendDividerCommand, Edit
<1>5. CASE ToggleModEnable
  <2>1. controls'.freq \in MinFrequency..MaxFrequency
    BY <1>5 DEF ToggleModEnable, IInv, TypeInv
  <2>2. ModCommand(controls') \in Nat /\ "mod" \in Items
    BY <2>1, ModCommandType DEF Items
  <2> QED
    BY <1>1, <1>5, <2>2, CommandKeepsWishes DEF ToggleModEnable, Edit, NoCommand
<1>6. ASSUME NEW f \in Frequencies, EditFrequency(f) PROVE WishInv'
  BY <1>1, <1>6 DEF EditFrequency, Edit, NoCommand
<1>7. CASE SendModulationCommand
  <2>1. ModCommand(controls) \in Nat /\ "mod" \in Items
    BY ModCommandType DEF IInv, TypeInv, Items
  <2> QED
    BY <1>7, <2>1, CommandKeepsWishes DEF SendModulationCommand, Edit
<1>8. CASE ToggleDemodEnable
  <2>1. controls'.demod \in Nat /\ "demod" \in Items
    BY <1>8 DEF ToggleDemodEnable, IInv, TypeInv, Items
  <2> QED
    BY <1>1, <1>8, <2>1, CommandKeepsWishes DEF ToggleDemodEnable, Edit, NoCommand
<1>9. CASE LeaveFrequency \/ Connect \/ Handshake \/ Finish \/ HandleMessage \/ SendSample
  BY <1>1, <1>9 DEF LeaveFrequency, Connect, Handshake, Finish, HandleMessage, SendSample
<1>10. CASE Refresh
  BY <1>1, <1>10 DEF Refresh, SyncControls, RefreshSends, NoCommand
<1>11. CASE Hangup \/ Disconnect
  BY <1>2, <1>11 DEF Hangup, Disconnect
<1>12. CASE Drain \/ FlushOutbound \/ Serve
  BY <1>12, DrainKeepsWishes, FlushKeepsWishes, ServeKeepsWishes
<1>13. CASE UNCHANGED vars
  BY <1>1, <1>13 DEF vars
<1> QED
  BY <1>3, <1>4, <1>5, <1>6, <1>7, <1>8, <1>9, <1>10, <1>11, <1>12, <1>13 DEF Next

-----------------------------------------------------------------------------
(* The theorems. *)

THEOREM Invariance == Spec => []IInv
<1>1. Init => IInv
  BY InitType DEF Init, IInv, WishInv, NotCommanded
<1>2. IInv /\ [Next]_vars => IInv'
  BY TypeStep, WishStep DEF IInv
<1> QED
  BY <1>1, <1>2, PTL DEF Spec

\* Every variable holds a value of its kind; the boxes never leave their ranges,
\* whatever the server reports, and the frequency box keeps the keyboard focus
\* only while it is enabled.
THEOREM TypeCorrect == Spec => []TypeOK
<1>1. IInv => TypeOK
  <2> SUFFICES ASSUME IInv PROVE TypeOK
    OBVIOUS
  <2>1. queue \in Seq(Commands) /\ wire \in Seq(Commands)
    BY ValidAreCommands DEF IInv
  <2>2. latest = NoMessage \/ latest[1] \in Snapshots
    BY DEF IInv, TypeInv
  <2>3. \A i \in Items : wanted[i] = NoMessage \/ wanted[i][1] \in Nat
    BY DEF IInv, TypeInv, Wishes
  <2> QED
    BY <2>1, <2>2, <2>3 DEF IInv, TypeInv, TypeOK
<1> QED
  BY <1>1, Invariance, PTL

\* When nothing is under way on a connection, the registers are what the user
\* last asked for on it, unless the thread of the last connection dropped it:
\* commands overtake each other nowhere, and a refresh sends none.
THEOREM CommandsAreDone == Spec => []ServerDoesAsCommanded
<1>1. IInv => ServerDoesAsCommanded
  <2> SUFFICES ASSUME IInv, queue = <<>>, wire = <<>>,
                      NEW i \in Items, wanted[i] # NoMessage
               PROVE  server[i] = wanted[i][1]
    BY DEF ServerDoesAsCommanded
  <2>1. Heading(queue, wire, server, i, wanted[i][1])
    BY DEF IInv, WishInv
  <2>2. ~LastIs(queue, i, wanted[i][1]) /\ ~LastIs(wire, i, wanted[i][1])
    BY EmptySeq DEF LastIs
  <2> QED
    BY <2>1, <2>2 DEF Heading
<1> QED
  BY <1>1, Invariance, PTL
===============================================================================
