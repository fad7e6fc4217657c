---------------------------- MODULE PlotViewProofs ----------------------------
(***************************************************************************)
(* For any number of channels, terms, operations and computations: what    *)
(* the window shows is what it keeps, and the spectrum that appears is     *)
(* that of the last request.                                               *)
(*                                                                         *)
(* The second needs the account of the one computation that may be under   *)
(* way: what is queued or being computed is the last request and           *)
(* _asd_future is its Future, so a refresh that finds the Future done or   *)
(* gone finds nothing queued, and the request it then makes is the only    *)
(* one.  A result between the end of its computation and its handing over  *)
(* belongs to no Future; its revision tells whether it is old.             *)
(***************************************************************************)
EXTENDS PlotView, SequenceTheorems, TLAPS

ChannelSets == (SUBSET Channels) \ {{}}

\* The requests of the ASD worker, and so all results but None.
Requests == [rev : 1..MaxRevision, epoch : 1..MaxEpoch, channels : ChannelSets, ok : BOOLEAN]

\* What the window shows and what it keeps.
WindowInv ==
  /\ selected \in ChannelSets /\ demodRate \in BOOLEAN
  /\ view \in {"Time", "ASD"} /\ layout \in {"Separate", "Overlay"}
  /\ traces \in Seq(Traces)
  /\ stored \in [channels : ChannelSets, traces : Seq(Traces),
                 view : {"Time", "ASD"}, layout : {"Separate", "Overlay"}]
  /\ stored.traces = traces
  /\ plots = Rebuilt(view, layout, traces, selected)
  /\ demodRate => selected = {1}

\* The dialog edits a trace of the list, or the one after it.
DialogInv ==
  dialog = NoDialog \/ dialog \in [trace : 1..(Len(traces) + 1), terms : TermLists]

Computing == worker.at = "computing"

AsdTypes ==
  /\ enough \in BOOLEAN /\ epoch \in 1..MaxEpoch
  /\ revision \in 0..MaxRevision /\ future \in 0..revision
  /\ jobs \in Seq(Requests)
  /\ worker = Idle \/ worker \in [job : Requests, at : {"computing", "done"}]
  /\ pending \in Results /\ results \in Results

\* One computation is under way at most; it is the last request, and the Future
\* that is kept is its own.
FlightInv ==
  /\ jobs # <<>> => /\ Len(jobs) = 1 /\ ~Computing
                    /\ jobs[1].rev = revision /\ future = revision
  /\ Computing => worker.job.rev = revision /\ future = revision
  /\ worker.at = "done" => worker.job.rev <= revision
  /\ pending # None => pending.rev <= revision

IInv == WindowInv /\ DialogInv /\ AsdTypes /\ FlightInv /\ ops \in 0..MaxOps

-----------------------------------------------------------------------------
(* Traces, terms and requests. *)

LEMMA TermListIs ==
  ASSUME NEW s
  PROVE  s \in TermLists <=> s \in Seq(Terms) /\ Len(s) \in 1 .. MaxTerms
<1>1. MaxTerms \in Nat
  BY BoundsAssumption
<1>2. ASSUME s \in TermLists PROVE s \in Seq(Terms) /\ Len(s) \in 1 .. MaxTerms
  <2>1. PICK n \in 1 .. MaxTerms : s \in [1 .. n -> Terms]
    BY <1>2, Zenon DEF TermLists
  <2> QED
    BY <1>1, <2>1
<1>3. ASSUME s \in Seq(Terms), Len(s) \in 1 .. MaxTerms PROVE s \in TermLists
  <2>1. s \in [1 .. Len(s) -> Terms]
    BY <1>3
  <2> QED
    BY <1>3, <2>1, Zenon DEF TermLists
<1> QED
  BY <1>2, <1>3

LEMMA RemovedAt ==
  ASSUME NEW S, NEW s \in Seq(S), NEW i \in 1 .. Len(s)
  PROVE  RemoveAt(s, i) \in Seq(S) /\ Len(RemoveAt(s, i)) = Len(s) - 1
<1> DEFINE before == SubSeq(s, 1, i - 1)
           after == SubSeq(s, i + 1, Len(s))
<1>1. Len(s) \in Nat /\ i \in 1 .. Len(s)
  BY LenProperties
<1>2. before \in Seq(S) /\ Len(before) = i - 1
  BY <1>1, SubSeqProperties
<1>3. after \in Seq(S) /\ Len(after) = Len(s) - i
  BY <1>1, SubSeqProperties
<1> HIDE DEF before, after
<1>4. before \o after \in Seq(S) /\ Len(before \o after) = Len(before) + Len(after)
  BY <1>2, <1>3, ConcatProperties, Zenon
<1>5. RemoveAt(s, i) = before \o after
  BY DEF RemoveAt, before, after
<1> QED
  BY <1>1, <1>2, <1>3, <1>4, <1>5

LEMMA SeqUpdated ==
  ASSUME NEW S, NEW s \in Seq(S), NEW i \in 1 .. Len(s), NEW x \in S
  PROVE  [s EXCEPT ![i] = x] \in Seq(S) /\ Len([s EXCEPT ![i] = x]) = Len(s)
OBVIOUS

LEMMA TraceTerms ==
  ASSUME NEW ts \in Seq(Traces), NEW i \in DOMAIN ts
  PROVE  ts[i] \in Traces /\ ts[i].terms \in TermLists
<1>1. ts[i] \in Traces
  OBVIOUS
<1> QED
  BY <1>1 DEF Traces

LEMMA ResultsAre == Results = {None} \cup Requests /\ None \notin Requests
<1>1. Results = {None} \cup Requests
  BY DEF Results, Requests, ChannelSets
<1>2. \A r \in Requests : r.rev # 0
  BY DEF Requests
<1>3. None.rev = 0
  BY DEF None
<1> QED
  BY <1>1, <1>2, <1>3

-----------------------------------------------------------------------------
(* The window and the dialog. *)

LEMMA InitInv == Init => IInv
<1> SUFFICES ASSUME Init PROVE IInv
  OBVIOUS
<1>1. Channels \in ChannelSets
  BY ChannelAssumption DEF ChannelSets, Channels
<1>2. WindowInv
  <2>1. demodRate \in BOOLEAN /\ ~demodRate
    BY DEF Init
  <2>2. <<>> \in Seq(Traces)
    OBVIOUS
  <2>3. /\ selected = Channels /\ view = "Time" /\ layout = "Separate" /\ traces = <<>>
        /\ plots = Rebuilt(view, layout, traces, selected)
        /\ stored = [channels |-> Channels, traces |-> <<>>, view |-> view, layout |-> layout]
    BY DEF Init
  <2> QED
    BY <1>1, <2>1, <2>2, <2>3 DEF WindowInv
<1>3. DialogInv
  BY DEF Init, DialogInv
<1>4. /\ revision = 0 /\ future = 0 /\ jobs = <<>> /\ worker = Idle /\ epoch = 1
      /\ pending = None /\ results = None /\ enough = FALSE /\ ops = 0
  BY DEF Init
<1>5. AsdTypes
  <2>1. None \in Results /\ jobs \in Seq(Requests)
    BY <1>4, ResultsAre
  <2>2. enough \in BOOLEAN
    BY <1>4
  <2> QED
    BY <1>4, <2>1, <2>2, BoundsAssumption DEF AsdTypes
<1>6. FlightInv
  BY <1>4 DEF FlightInv, Computing, Idle
<1> QED
  BY <1>2, <1>3, <1>4, <1>5, <1>6, BoundsAssumption DEF IInv

LEMMA Replaced ==
  ASSUME WindowInv, NEW ts \in Seq(Traces), Replace(ts)
  PROVE  WindowInv'
<1>1. /\ traces' = ts /\ stored' = [stored EXCEPT !.traces = ts]
      /\ UNCHANGED <<selected, demodRate, view, layout>>
      /\ plots' = Rebuilt(view', layout', traces', selected')
  BY DEF Replace, Rebuild, chosen
<1>2. /\ stored' \in [channels : ChannelSets, traces : Seq(Traces),
                      view : {"Time", "ASD"}, layout : {"Separate", "Overlay"}]
      /\ stored'.traces = ts
  BY <1>1 DEF WindowInv
<1> QED
  BY <1>1, <1>2 DEF WindowInv

\* A channel's box.
LEMMA ChannelToggled ==
  ASSUME WindowInv, NEW c \in Channels, ToggleChannel(c)
  PROVE  WindowInv'
<1> DEFINE next == IF c \in selected THEN selected \ {c} ELSE selected \cup {c}
<1>1. UNCHANGED <<view, layout, traces>>
  BY DEF ToggleChannel, math
<1>2. CASE next = {}
  BY <1>1, <1>2 DEF ToggleChannel, WindowInv
<1>3. CASE next # {}
  <2>1. next \in ChannelSets
    BY <1>3 DEF WindowInv, ChannelSets
  <2>2. /\ selected' = next /\ stored' = [stored EXCEPT !.channels = next]
        /\ plots' = [plots EXCEPT !.shown = next]
        /\ demodRate' = (demodRate /\ next = {1})
    BY <1>3 DEF ToggleChannel, SyncDemodRate
  <2> HIDE DEF next
  <2>3. plots' = Rebuilt(view', layout', traces', selected')
    BY <1>1, <2>2 DEF WindowInv, Rebuilt
  <2>4. /\ stored' \in [channels : ChannelSets, traces : Seq(Traces),
                        view : {"Time", "ASD"}, layout : {"Separate", "Overlay"}]
        /\ stored'.traces = traces
    BY <2>1, <2>2 DEF WindowInv
  <2>5. demodRate' \in BOOLEAN /\ (demodRate' => selected' = {1})
    BY <2>2
  <2> QED
    BY <1>1, <2>1, <2>2, <2>3, <2>4, <2>5 DEF WindowInv
<1> QED
  BY <1>2, <1>3

\* The traces a program started now would find are those of the list.
LEMMA TracesSurvive == ASSUME WindowInv PROVE LoadedTraces = traces
<1>1. stored.traces = traces /\ traces \in Seq(Traces)
  BY DEF WindowInv
<1>2. \A i \in DOMAIN traces : traces[i].terms \in TermLists
  BY <1>1, TraceTerms
<1> QED
  BY <1>1, <1>2 DEF LoadedTraces

LEMMA Restarted ==
  ASSUME WindowInv, Restart
  PROVE  WindowInv'
<1>1. /\ selected' = LoadedChannels /\ demodRate' = FALSE /\ view' = stored.view
      /\ layout' = stored.layout /\ traces' = LoadedTraces /\ stored' = stored
      /\ plots' = Rebuilt(view', layout', traces', selected')
  BY DEF Restart, Rebuild
<1>2. LoadedTraces = traces
  BY TracesSurvive
<1>3. LoadedChannels \in ChannelSets
  <2>1. Channels \in ChannelSets
    BY ChannelAssumption DEF ChannelSets, Channels
  <2>2. stored.channels \in ChannelSets
    BY DEF WindowInv
  <2> QED
    BY <2>1, <2>2 DEF LoadedChannels
<1>4. demodRate' \in BOOLEAN /\ ~demodRate'
  BY <1>1
<1> QED
  BY <1>1, <1>2, <1>3, <1>4 DEF WindowInv

\* Accepting the dialog keeps every trace well formed.
LEMMA Accepted ==
  ASSUME WindowInv, DialogInv, Accept
  PROVE  WindowInv' /\ DialogInv'
<1> DEFINE i == dialog.trace
           ts == IF i > Len(traces)
                 THEN Append(traces, [enabled |-> TRUE, terms |-> dialog.terms])
                 ELSE [traces EXCEPT ![i].terms = dialog.terms]
<1>1. /\ i \in 1..(Len(traces) + 1) /\ dialog.terms \in TermLists
      /\ traces \in Seq(Traces) /\ Len(traces) \in Nat
  BY LenProperties DEF Accept, DialogInv, WindowInv
<1>2. ts \in Seq(Traces)
  <2>1. CASE i > Len(traces)
    <3>1. [enabled |-> TRUE, terms |-> dialog.terms] \in Traces
      BY <1>1 DEF Traces
    <3> QED
      BY <1>1, <2>1, <3>1, AppendProperties
  <2>2. CASE i <= Len(traces)
    <3>1. i \in 1 .. Len(traces) /\ traces[i] \in Traces
      BY <1>1, <2>2
    <3>2. [traces[i] EXCEPT !.terms = dialog.terms] \in Traces
      BY <1>1, <3>1 DEF Traces
    <3>3. ts = [traces EXCEPT ![i] = [traces[i] EXCEPT !.terms = dialog.terms]]
      BY <1>1, <2>2
    <3> QED
      BY <1>1, <3>1, <3>2, <3>3, SeqUpdated
  <2> QED
    BY <1>1, <2>1, <2>2
<1>3. Replace(ts) /\ dialog' = NoDialog
  BY DEF Accept
<1> HIDE DEF ts
<1> QED
  BY <1>2, <1>3, Replaced DEF DialogInv

LEMMA TraceChanged ==
  ASSUME WindowInv, NEW i \in DOMAIN traces, RemoveTrace(i) \/ ToggleTrace(i)
  PROVE  WindowInv' /\ dialog' = NoDialog
<1>1. traces \in Seq(Traces) /\ i \in 1 .. Len(traces) /\ traces[i] \in Traces
  BY DEF WindowInv
<1>2. dialog' = NoDialog
  BY DEF RemoveTrace, ToggleTrace, Operation
<1>3. CASE RemoveTrace(i)
  <2>1. RemoveAt(traces, i) \in Seq(Traces)
    BY <1>1, RemovedAt
  <2> QED
    BY <1>2, <1>3, <2>1, Replaced DEF RemoveTrace
<1>4. CASE ToggleTrace(i)
  <2> DEFINE t == [traces[i] EXCEPT !.enabled = ~@]
             ts == [traces EXCEPT ![i] = t]
  <2>1. t \in Traces
    <3>1. (~traces[i].enabled) \in BOOLEAN
      OBVIOUS
    <3> QED
      BY <1>1, <3>1 DEF Traces
  <2>2. ts \in Seq(Traces)
    BY <1>1, <2>1, SeqUpdated
  <2>3. Replace(ts)
    BY <1>4 DEF ToggleTrace
  <2> HIDE DEF ts
  <2> QED
    BY <1>2, <2>2, <2>3, Replaced
<1> QED
  BY <1>3, <1>4

\* The rows of the dialog: never none, never too many.
LEMMA TermsEdited ==
  ASSUME WindowInv, DialogInv,
         \/ AddTerm
         \/ \E i \in DOMAIN dialog.terms :
              RemoveTerm(i) \/ \E term \in Terms : ChangeTerm(i, term)
  PROVE  DialogInv'
<1> DEFINE terms == dialog.terms
<1>1. dialog # NoDialog
  BY DEF AddTerm, RemoveTerm, ChangeTerm, InDialog
<1>2. /\ dialog \in [trace : 1..(Len(traces) + 1), terms : TermLists]
      /\ terms \in Seq(Terms) /\ Len(terms) \in 1 .. MaxTerms /\ MaxTerms \in Nat
  BY <1>1, TermListIs, BoundsAssumption DEF DialogInv
<1>3. traces' = traces
  BY DEF AddTerm, RemoveTerm, ChangeTerm
<1>4. SUFFICES ASSUME NEW new \in TermLists, dialog' = [dialog EXCEPT !.terms = new]
               PROVE  DialogInv'
  <2>1. CASE AddTerm
    <3>1. <<1, "+">> \in Terms
      BY ChannelAssumption DEF Terms, Channels
    <3> DEFINE new == Append(terms, <<1, "+">>)
    <3>2. new \in Seq(Terms) /\ Len(new) = Len(terms) + 1
      BY <1>2, <3>1, AppendProperties
    <3>3. Len(terms) < MaxTerms /\ dialog' = [dialog EXCEPT !.terms = new]
      BY <2>1 DEF AddTerm
    <3> HIDE DEF new
    <3>4. Len(new) \in 1 .. MaxTerms
      BY <1>2, <3>2, <3>3
    <3>5. new \in TermLists
      BY <3>2, <3>4, TermListIs, Zenon
    <3> QED
      BY <1>4, <3>3, <3>5
  <2>2. ASSUME NEW i \in DOMAIN dialog.terms, RemoveTerm(i) PROVE DialogInv'
    <3>1. RemoveAt(terms, i) \in Seq(Terms) /\ Len(RemoveAt(terms, i)) = Len(terms) - 1
      BY <1>2, RemovedAt
    <3>2. Len(terms) > 1
      BY <2>2 DEF RemoveTerm
    <3>3. RemoveAt(terms, i) \in TermLists
      BY <1>2, <3>1, <3>2, TermListIs
    <3> QED
      BY <1>4, <2>2, <3>3 DEF RemoveTerm
  <2>3. ASSUME NEW i \in DOMAIN dialog.terms, NEW term \in Terms, ChangeTerm(i, term)
        PROVE  DialogInv'
    <3> DEFINE new == [terms EXCEPT ![i] = term]
    <3>1. new \in Seq(Terms) /\ Len(new) = Len(terms)
      BY <1>2, SeqUpdated
    <3>2. new \in TermLists
      BY <1>2, <3>1, TermListIs
    <3>3. dialog' = [dialog EXCEPT !.terms = new]
      BY <1>2, <2>3 DEF ChangeTerm
    <3> QED
      BY <1>4, <3>2, <3>3
  <2> QED
    BY <2>1, <2>2, <2>3
<1> QED
  BY <1>2, <1>3, <1>4 DEF DialogInv

\* Opening the dialog.
LEMMA DialogOpened ==
  ASSUME WindowInv, AddTrace \/ \E i \in DOMAIN traces : EditTrace(i)
  PROVE  DialogInv'
<1>1. traces \in Seq(Traces) /\ Len(traces) \in Nat /\ DOMAIN traces = 1 .. Len(traces)
  BY LenProperties DEF WindowInv
<1>2. traces' = traces
  BY DEF AddTrace, EditTrace
<1>3. CASE AddTrace
  <2> DEFINE sum == <<<<1, "+">>, <<2, "+">>>>
  <2>1. sum \in Seq(Terms) /\ Len(sum) = 2
    BY ChannelAssumption DEF Terms, Channels
  <2>2. dialog' = [trace |-> Len(traces) + 1, terms |-> sum]
    BY <1>3 DEF AddTrace, OpenDialog
  <2> HIDE DEF sum
  <2>3. sum \in TermLists
    <3>1. Len(sum) \in 1 .. MaxTerms
      BY <2>1, BoundsAssumption
    <3> QED
      BY <2>1, <3>1, TermListIs, Zenon
  <2> QED
    BY <1>1, <1>2, <2>2, <2>3 DEF DialogInv
<1>4. ASSUME NEW i \in DOMAIN traces, EditTrace(i) PROVE DialogInv'
  <2>1. traces[i].terms \in TermLists
    BY <1>1, TraceTerms
  <2>2. dialog' = [trace |-> i, terms |-> traces[i].terms]
    BY <1>4 DEF EditTrace, OpenDialog
  <2> QED
    BY <1>1, <1>2, <2>1, <2>2 DEF DialogInv
<1> QED
  BY <1>3, <1>4

\* What none of the actions of the spectra touches.
LEMMA WindowAside ==
  ASSUME WindowInv, DialogInv, UNCHANGED <<chosen, math, plots, stored>>
  PROVE  WindowInv' /\ DialogInv'
BY DEF WindowInv, DialogInv, chosen, math

LEMMA WindowStep ==
  ASSUME WindowInv, DialogInv, [Next]_vars
  PROVE  WindowInv' /\ DialogInv'
<1>1. ASSUME NEW c \in Channels, ToggleChannel(c) PROVE WindowInv' /\ DialogInv'
  <2>1. UNCHANGED math
    BY <1>1 DEF ToggleChannel
  <2> QED
    BY <1>1, <2>1, ChannelToggled DEF DialogInv, math
<1>2. CASE ToggleDemodRate
  <2>1. /\ selected = {1} /\ demodRate' = ~demodRate
        /\ UNCHANGED <<selected, view, layout, math, plots, stored>>
    BY <1>2 DEF ToggleDemodRate
  <2>2. demodRate' \in BOOLEAN
    BY <2>1
  <2> QED
    BY <2>1, <2>2 DEF WindowInv, DialogInv, math
<1>3. CASE AddTrace \/ \E i \in DOMAIN traces : EditTrace(i)
  <2>1. UNCHANGED <<chosen, traces, plots, stored>>
    BY <1>3 DEF AddTrace, EditTrace
  <2> QED
    BY <1>3, <2>1, DialogOpened DEF WindowInv, chosen
<1>4. ASSUME NEW i \in DOMAIN traces, RemoveTrace(i) \/ ToggleTrace(i)
      PROVE  WindowInv' /\ DialogInv'
  BY <1>4, TraceChanged DEF DialogInv
<1>5. CASE \/ AddTerm
           \/ \E i \in DOMAIN dialog.terms :
                RemoveTerm(i) \/ \E term \in Terms : ChangeTerm(i, term)
  <2>1. UNCHANGED <<chosen, traces, plots, stored>>
    BY <1>5 DEF AddTerm, RemoveTerm, ChangeTerm, InDialog
  <2> QED
    BY <1>5, <2>1, TermsEdited DEF WindowInv, chosen
<1>6. CASE Accept
  BY <1>6, Accepted
<1>7. CASE Cancel
  BY <1>7 DEF Cancel, InDialog, WindowInv, DialogInv, chosen
<1>8. ASSUME NEW l \in {"Separate", "Overlay"}, ChangeLayout(l)
      PROVE  WindowInv' /\ DialogInv'
  <2>1. /\ layout' = l /\ stored' = [stored EXCEPT !.layout = l]
        /\ UNCHANGED <<selected, demodRate, view, math>>
        /\ plots' = Rebuilt(view', layout', traces', selected')
    BY <1>8 DEF ChangeLayout, Rebuild
  <2>2. /\ stored' \in [channels : ChannelSets, traces : Seq(Traces),
                        view : {"Time", "ASD"}, layout : {"Separate", "Overlay"}]
        /\ stored'.traces = traces
    BY <2>1 DEF WindowInv
  <2> QED
    BY <2>1, <2>2 DEF WindowInv, DialogInv, math
<1>9. ASSUME NEW v \in {"Time", "ASD"}, ChangeView(v)
      PROVE  WindowInv' /\ DialogInv'
  <2>1. /\ view' = v /\ stored' = [stored EXCEPT !.view = v]
        /\ UNCHANGED <<selected, demodRate, layout, math>>
        /\ plots' = Rebuilt(view', layout', traces', selected')
    BY <1>9 DEF ChangeView, Rebuild
  <2>2. /\ stored' \in [channels : ChannelSets, traces : Seq(Traces),
                        view : {"Time", "ASD"}, layout : {"Separate", "Overlay"}]
        /\ stored'.traces = traces
    BY <2>1 DEF WindowInv
  <2> QED
    BY <2>1, <2>2 DEF WindowInv, DialogInv, math
<1>10. CASE Restart
  <2>1. dialog' = NoDialog
    BY <1>10 DEF Restart, Operation
  <2> QED
    BY <1>10, <2>1, Restarted DEF DialogInv
<1>11. CASE \/ ChangeAsdSettings \/ SamplesArrive \/ SamplesCleared
            \/ WorkerStarts \/ WorkerDone \/ HandOver \/ Refresh \/ UNCHANGED vars
  <2>1. UNCHANGED <<chosen, math, plots, stored>>
    BY <1>11 DEF ChangeAsdSettings, SamplesArrive, SamplesCleared, WorkerStarts, WorkerDone,
       HandOver, Refresh, vars
  <2> QED
    BY <2>1, WindowAside
<1> QED
  BY <1>1, <1>2, <1>3, <1>4, <1>5, <1>6, <1>7, <1>8, <1>9, <1>10, <1>11 DEF Next

LEMMA OpsStep ==
  ASSUME ops \in 0..MaxOps, [Next]_vars
  PROVE  ops' \in 0..MaxOps
<1>1. MaxOps \in Nat
  BY BoundsAssumption
<1>2. ops' = ops \/ (ops < MaxOps /\ ops' = ops + 1)
  BY DEF Next, Operation, ToggleChannel, ToggleDemodRate, AddTrace, EditTrace, RemoveTrace,
     ToggleTrace, AddTerm, RemoveTerm, ChangeTerm, Accept, Cancel, ChangeLayout, ChangeView,
     ChangeAsdSettings, SamplesArrive, SamplesCleared, WorkerStarts, WorkerDone, HandOver,
     Refresh, Restart, vars
<1> QED
  BY <1>1, <1>2

-----------------------------------------------------------------------------
(* The spectra. *)

\* The property's step, without its temporal box.
LastRequestStep ==
  /\ Len(jobs') + (IF worker'.at = "computing" THEN 1 ELSE 0) <= 1
  /\ results' \notin {results, None} => results'.rev = revision

\* A Future that is gone or done leaves nothing under way.
LEMMA NothingUnderWay ==
  ASSUME AsdTypes, FlightInv, ~InFlight
  PROVE  jobs = <<>> /\ ~Computing
<1>1. /\ revision \in Nat /\ jobs \in Seq(Requests)
      /\ worker = Idle \/ worker \in [job : Requests, at : {"computing", "done"}]
  BY BoundsAssumption DEF AsdTypes
<1>2. jobs = <<>>
  <2> SUFFICES ASSUME jobs # <<>> PROVE FALSE
    OBVIOUS
  <2>1. jobs[1].rev = revision /\ future = revision /\ 1 \in DOMAIN jobs
    BY <1>1 DEF FlightInv
  <2>2. ~FutureDone
    BY <2>1 DEF FutureDone
  <2>3. jobs[1] \in Requests
    BY <1>1, <2>1
  <2>4. future # 0
    BY <2>1, <2>3 DEF Requests
  <2> QED
    BY <2>2, <2>4 DEF InFlight
<1>3. ~Computing
  <2> SUFFICES ASSUME Computing PROVE FALSE
    OBVIOUS
  <2>1. worker.job.rev = revision /\ future = revision
    BY DEF FlightInv
  <2>2. ~FutureDone
    BY <2>1 DEF FutureDone, Computing
  <2>3. worker.job \in Requests
    BY <1>1 DEF Computing, Idle
  <2>4. future # 0
    BY <2>1, <2>3 DEF Requests
  <2> QED
    BY <2>2, <2>4 DEF InFlight
<1> QED
  BY <1>2, <1>3

\* What a refresh shows is a result, and a new one is of the last request.
LEMMA ConsumedIs ==
  ASSUME AsdTypes, FlightInv
  PROVE  /\ Consumed \in Results
         /\ Consumed # results => Consumed.rev = revision
<1>1. /\ pending \in Results /\ results \in Results /\ revision \in Nat
      /\ pending # None => pending.rev <= revision
  BY BoundsAssumption DEF AsdTypes, FlightInv
<1>2. CASE pending # None /\ Newest(pending) /\ pending.ok
  <2>1. Consumed = pending /\ pending.rev >= revision
    BY <1>2 DEF Consumed, Newest
  <2>2. pending.rev \in Nat
    BY <1>1, <1>2, ResultsAre DEF Requests
  <2> QED
    BY <1>1, <1>2, <2>1, <2>2
<1>3. CASE ~(pending # None /\ Newest(pending) /\ pending.ok)
  BY <1>1, <1>3 DEF Consumed
<1> QED
  BY <1>2, <1>3

LEMMA FutureAfterIs ==
  ASSUME AsdTypes, FlightInv
  PROVE  /\ FutureAfter \in 0..revision
         /\ jobs # <<>> \/ Computing => FutureAfter = future
<1>1. revision \in Nat /\ future \in 0..revision
  BY BoundsAssumption DEF AsdTypes
<1>2. FutureDone => ~InFlight
  BY DEF InFlight
<1>3. FutureDone => jobs = <<>> /\ ~Computing
  BY <1>2, NothingUnderWay
<1> QED
  BY <1>1, <1>3 DEF FutureAfter

LEMMA Refreshed ==
  ASSUME AsdTypes, FlightInv, WindowInv, Refresh
  PROVE  AsdTypes' /\ FlightInv' /\ (results' \notin {results, None} => results'.rev = revision)
<1>1. /\ enough \in BOOLEAN /\ epoch \in 1..MaxEpoch
      /\ revision \in 0..MaxRevision /\ future \in 0..revision /\ MaxRevision \in Nat
      /\ jobs \in Seq(Requests) /\ results \in Results
      /\ worker = Idle \/ worker \in [job : Requests, at : {"computing", "done"}]
  BY BoundsAssumption DEF AsdTypes
<1>2. UNCHANGED <<enough, epoch, worker>> /\ pending' = None
  BY DEF Refresh
<1>3. None \in Results /\ Consumed \in Results
  BY ConsumedIs, ResultsAre
<1>4. results' \in {None, Consumed}
  BY DEF Refresh, RequestCompute, NoRequest
<1>5. results' \in Results /\ (results' \notin {results, None} => results'.rev = revision)
  BY <1>3, <1>4, ConsumedIs
<1>6. CASE RequestCompute(Consumed)
  <2> DEFINE job == [rev |-> revision + 1, epoch |-> epoch, channels |-> selected, ok |-> TRUE]
  <2>1. /\ revision' = revision + 1 /\ future' = revision + 1 /\ revision < MaxRevision
        /\ jobs' = Append(jobs, job)
    BY <1>6 DEF RequestCompute
  <2>2. jobs = <<>> /\ ~Computing
    BY <1>6, NothingUnderWay DEF RequestCompute
  <2>3. job \in Requests
    BY <1>1, <2>1 DEF Requests, WindowInv
  <2>4. job.rev = revision + 1
    OBVIOUS
  <2> HIDE DEF job
  <2>5. jobs' = <<job>>
    BY <2>1, <2>2
  <2>6. jobs' \in Seq(Requests) /\ Len(jobs') = 1 /\ jobs'[1] = job
    BY <2>3, <2>5
  <2>7. AsdTypes'
    BY <1>1, <1>2, <1>3, <1>5, <2>1, <2>6 DEF AsdTypes
  <2>8. ~Computing'
    BY <1>2, <2>2 DEF Computing
  <2>9. worker'.at = "done" => worker'.job.rev <= revision'
    <3>1. worker.at = "done" => worker.job.rev <= revision /\ worker.job \in Requests
      BY <1>1 DEF FlightInv, Idle
    <3> QED
      BY <1>1, <1>2, <2>1, <3>1 DEF Requests
  <2> QED
    BY <1>2, <1>5, <2>1, <2>4, <2>6, <2>7, <2>8, <2>9 DEF FlightInv
<1>7. CASE ~RequestCompute(Consumed)
  <2>1. UNCHANGED <<revision, jobs>> /\ future' = FutureAfter
    BY <1>7 DEF Refresh, NoRequest
  <2>2. AsdTypes'
    BY <1>1, <1>2, <1>3, <1>5, <2>1, FutureAfterIs DEF AsdTypes
  <2>3. /\ jobs # <<>> => future' = future
        /\ Computing => future' = future
    BY <2>1, FutureAfterIs
  <2> QED
    BY <1>2, <1>5, <2>1, <2>2, <2>3 DEF FlightInv, Computing
<1> QED
  BY <1>6, <1>7

LEMMA Worked ==
  ASSUME AsdTypes, FlightInv, WorkerStarts \/ WorkerDone \/ HandOver
  PROVE  AsdTypes' /\ FlightInv' /\ results' = results
<1>1. /\ revision \in 0..MaxRevision /\ future \in 0..revision /\ MaxRevision \in Nat
      /\ jobs \in Seq(Requests)
      /\ worker = Idle \/ worker \in [job : Requests, at : {"computing", "done"}]
  BY BoundsAssumption DEF AsdTypes
<1>2. UNCHANGED <<enough, epoch, revision, future, results>>
  BY DEF WorkerStarts, WorkerDone, HandOver
<1>3. CASE WorkerStarts
  <2>1. /\ jobs # <<>> /\ worker' = [job |-> Head(jobs), at |-> "computing"]
        /\ jobs' = Tail(jobs) /\ pending' = pending
    BY <1>3 DEF WorkerStarts
  <2>2. Len(jobs) = 1 /\ jobs[1].rev = revision /\ future = revision
    BY <2>1 DEF FlightInv
  <2>3. Head(jobs) = jobs[1] /\ Head(jobs) \in Requests /\ jobs' = <<>>
    BY <1>1, <2>1, <2>2
  <2>4. jobs' \in Seq(Requests)
    BY <2>3
  <2>5. AsdTypes'
    BY <1>2, <2>1, <2>3, <2>4 DEF AsdTypes
  <2>6. worker'.at = "computing" /\ worker'.job.rev = revision
    BY <2>1, <2>2, <2>3
  <2> QED
    BY <1>2, <2>1, <2>2, <2>3, <2>5, <2>6 DEF FlightInv
<1>4. CASE WorkerDone
  <2>1. worker.at = "computing" /\ UNCHANGED <<jobs, pending>>
    BY <1>4 DEF WorkerDone
  <2>2. PICK ok \in BOOLEAN : worker' = [job |-> [worker.job EXCEPT !.ok = ok], at |-> "done"]
    BY <1>4 DEF WorkerDone
  <2>3. worker.job \in Requests
    BY <1>1, <2>1 DEF Idle
  <2>4. /\ [worker.job EXCEPT !.ok = ok] \in Requests
        /\ [worker.job EXCEPT !.ok = ok].rev = worker.job.rev
    BY <2>3 DEF Requests
  <2>5. AsdTypes'
    BY <1>2, <2>1, <2>2, <2>4 DEF AsdTypes
  <2>6. jobs = <<>> /\ worker.job.rev = revision
    BY <2>1 DEF FlightInv, Computing
  <2>7. worker'.at = "done" /\ worker'.job.rev = revision /\ jobs' = <<>>
    BY <2>1, <2>2, <2>4, <2>6
  <2>8. revision <= revision
    BY <1>1
  <2>9. pending' # None => pending'.rev <= revision'
    BY <1>2, <2>1 DEF FlightInv
  <2> QED
    BY <1>2, <2>5, <2>7, <2>8, <2>9 DEF FlightInv, Computing
<1>5. CASE HandOver
  <2>1. /\ worker.at = "done" /\ pending' = worker.job /\ worker' = Idle /\ jobs' = jobs
    BY <1>5 DEF HandOver
  <2>2. worker.job \in Requests /\ worker.job.rev <= revision
    BY <1>1, <2>1 DEF Idle, FlightInv
  <2>3. AsdTypes'
    BY <1>2, <2>1, <2>2, ResultsAre DEF AsdTypes
  <2>4. worker'.at = "idle"
    BY <2>1 DEF Idle
  <2> QED
    BY <1>2, <2>1, <2>2, <2>3, <2>4 DEF FlightInv, Computing
<1> QED
  BY <1>2, <1>3, <1>4, <1>5

\* Whatever replaces the samples or the settings leaves the computation alone.
LEMMA ResultsGo ==
  ASSUME AsdTypes, FlightInv, UNCHANGED <<revision, future, jobs, worker, pending>>,
         results' \in {results, None}, enough' \in BOOLEAN, epoch' \in 1..MaxEpoch
  PROVE  AsdTypes' /\ FlightInv' /\ (results' \notin {results, None} => results'.rev = revision)
<1>1. results' \in Results
  BY ResultsAre DEF AsdTypes
<1> QED
  BY <1>1 DEF AsdTypes, FlightInv, Computing

LEMMA AsdStep ==
  ASSUME WindowInv, AsdTypes, FlightInv, [Next]_vars
  PROVE  AsdTypes' /\ FlightInv' /\ (results' \notin {results, None} => results'.rev = revision)
<1>1. /\ enough \in BOOLEAN /\ epoch \in 1..MaxEpoch /\ MaxEpoch \in Nat \ {0}
  BY BoundsAssumption DEF AsdTypes
<1>2. CASE Refresh
  BY <1>2, Refreshed
<1>3. CASE WorkerStarts \/ WorkerDone \/ HandOver
  BY <1>3, Worked
<1>4. CASE \/ \E v \in {"Time", "ASD"} : ChangeView(v)
           \/ ChangeAsdSettings \/ SamplesArrive \/ SamplesCleared
  <2>1. /\ UNCHANGED <<revision, future, jobs, worker, pending>>
        /\ results' \in {results, None}
        /\ enough' \in {enough, TRUE, FALSE}
        /\ epoch' = epoch \/ (epoch < MaxEpoch /\ epoch' = epoch + 1)
    BY <1>4 DEF ChangeView, ChangeAsdSettings, SamplesArrive, SamplesCleared
  <2>2. enough' \in BOOLEAN
    BY <1>1, <2>1
  <2>3. epoch' \in 1..MaxEpoch
    BY <1>1, <2>1
  <2> QED
    BY <2>1, <2>2, <2>3, ResultsGo
<1>5. CASE Restart
  <2>1. /\ enough' = FALSE /\ epoch' = epoch /\ revision' = 0 /\ future' = 0 /\ jobs' = <<>>
        /\ worker' = Idle /\ pending' = None /\ results' = None
    BY <1>5 DEF Restart
  <2>2. enough' \in BOOLEAN
    BY <2>1
  <2>3. <<>> \in Seq(Requests) /\ None \in Results
    BY ResultsAre
  <2>4. AsdTypes'
    BY <1>1, <2>1, <2>2, <2>3, BoundsAssumption DEF AsdTypes
  <2>5. worker'.at = "idle"
    BY <2>1 DEF Idle
  <2> QED
    BY <2>1, <2>4, <2>5 DEF FlightInv, Computing
<1>6. CASE \/ \E c \in Channels : ToggleChannel(c)
           \/ ToggleDemodRate \/ AddTrace \/ AddTerm \/ Accept \/ Cancel
           \/ \E i \in DOMAIN traces : EditTrace(i) \/ RemoveTrace(i) \/ ToggleTrace(i)
           \/ \E i \in DOMAIN dialog.terms :
                RemoveTerm(i) \/ \E term \in Terms : ChangeTerm(i, term)
           \/ \E l \in {"Separate", "Overlay"} : ChangeLayout(l)
           \/ UNCHANGED vars
  <2>1. UNCHANGED asd
    BY <1>6 DEF ToggleChannel, ToggleDemodRate, AddTrace, AddTerm, Accept, Cancel, EditTrace,
       RemoveTrace, ToggleTrace, RemoveTerm, ChangeTerm, ChangeLayout, InDialog, Replace, vars
  <2> QED
    BY <1>1, <2>1, ResultsGo DEF asd
<1> QED
  BY <1>2, <1>3, <1>4, <1>5, <1>6 DEF Next

-----------------------------------------------------------------------------

LEMMA StepInv == IInv /\ [Next]_vars => IInv' /\ LastRequestStep
<1> SUFFICES ASSUME IInv, [Next]_vars PROVE IInv' /\ LastRequestStep
  OBVIOUS
<1>1. WindowInv' /\ DialogInv'
  BY WindowStep DEF IInv
<1>2. AsdTypes' /\ FlightInv' /\ (results' \notin {results, None} => results'.rev = revision)
  BY AsdStep DEF IInv
<1>3. ops' \in 0..MaxOps
  BY OpsStep DEF IInv
<1>4. Len(jobs') + (IF worker'.at = "computing" THEN 1 ELSE 0) <= 1
  <2>1. jobs' = <<>> => Len(jobs') = 0
    OBVIOUS
  <2>2. jobs' # <<>> => Len(jobs') = 1 /\ worker'.at # "computing"
    BY <1>2 DEF FlightInv, Computing
  <2> DEFINE n == Len(jobs')
             at == worker'.at
  <2>3. /\ n = 0 \/ n = 1
        /\ n = 0 \/ at # "computing"
    BY <2>1, <2>2
  <2> HIDE DEF n, at
  <2>4. n + (IF at = "computing" THEN 1 ELSE 0) <= 1
    BY <2>3
  <2> QED
    BY <2>4 DEF n, at
<1> QED
  BY <1>1, <1>2, <1>3, <1>4 DEF IInv, LastRequestStep

\* The window, its settings and the account of the computation under way keep
\* the invariant, restarts included.
THEOREM Invariance == Spec => []IInv
BY InitInv, StepInv, PTL DEF Spec

\* Every variable of the window and of the worker keeps its type.
THEOREM TypeCorrect == Spec => []TypeOK
<1>1. ASSUME IInv PROVE TypeOK
  <2>1. /\ worker.job \in Results /\ worker.at \in {"idle", "computing", "done"}
    <3>1. worker = Idle \/ worker \in [job : Requests, at : {"computing", "done"}]
      BY <1>1 DEF IInv, AsdTypes
    <3>2. Idle.job \in Results /\ Idle.at = "idle"
      BY ResultsAre DEF Idle
    <3>3. worker \in [job : Requests, at : {"computing", "done"}]
            => worker.job \in Results /\ worker.at \in {"computing", "done"}
      BY ResultsAre
    <3> QED
      BY <3>1, <3>2, <3>3
  <2>2. jobs \in Seq(Results \ {None})
    <3>1. Results \ {None} = Requests
      BY ResultsAre
    <3> QED
      BY <1>1, <3>1 DEF IInv, AsdTypes
  <2>3. dialog # NoDialog => /\ dialog.trace \in 1..(Len(traces) + 1)
                             /\ dialog.terms \in TermLists
    BY <1>1 DEF IInv, DialogInv
  <2> QED
    BY <1>1, <2>1, <2>2, <2>3 DEF IInv, WindowInv, AsdTypes, TypeOK, ChannelSets
<1> QED
  BY <1>1, Invariance, PTL

\* Whatever the user does, in whatever order, the plots are those of the settings
\* of now, a program started now would find the same traces, and demodulated rows
\* are asked for channel 1 alone.
THEOREM WindowConsistent == Spec => []WindowIsConsistent
<1>1. ASSUME IInv PROVE WindowIsConsistent
  BY <1>1, TracesSurvive DEF IInv, WindowInv, WindowIsConsistent
<1> QED
  BY <1>1, Invariance, PTL

\* One computation at most is under way, and a spectrum that appears is of the
\* last request, in however many steps the worker and the refreshes interleave.
THEOREM SpectrumOfLastRequest == Spec => AsdIsOfLastRequest
<1>1. IInv /\ [Next]_vars => [LastRequestStep]_vars
  BY StepInv
<1>2. AsdIsOfLastRequest <=> [][LastRequestStep]_vars
  BY PTL DEF AsdIsOfLastRequest, LastRequestStep
<1> QED
  BY <1>1, <1>2, Invariance, PTL DEF Spec
===============================================================================
