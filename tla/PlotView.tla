-------------------------------- MODULE PlotView --------------------------------
(***************************************************************************)
(* The plots of the client's window: which channels are shown, the math    *)
(* traces with the dialog that builds them, the time and ASD views in two  *)
(* layouts, the settings that outlive the program, and the worker thread   *)
(* that computes amplitude spectral densities.                             *)
(*                                                                         *)
(* Every handler runs to its end on the GUI thread; while the dialog is    *)
(* open only the refresh timer still runs.  The ASD worker runs beside     *)
(* them: its Future is `done' before the done callback has handed the      *)
(* result over, and a refresh may come between.                            *)
(***************************************************************************)
EXTENDS Integers, Sequences, SequencesExt

CONSTANTS CHANNEL_COUNT,
          MaxTerms,     \* rows of the dialog
          MaxOps,       \* operations of the user
          MaxRevision,  \* ASD computations
          MaxEpoch,     \* times the samples or the ASD settings are replaced
          BoolsStayBools \* whether QSettings returns a list of booleans as one

ASSUME ChannelAssumption == CHANNEL_COUNT \in Nat /\ CHANNEL_COUNT >= 2
ASSUME BoundsAssumption ==
  /\ MaxTerms \in Nat /\ MaxTerms >= 2
  /\ MaxOps \in Nat /\ MaxRevision \in Nat /\ MaxEpoch \in Nat \ {0}
  /\ BoolsStayBools \in BOOLEAN

VARIABLES
  selected,   \* the channels whose check box is checked
  demodRate,  \* csv_demod_rate_checkbox
  view, layout,
  traces,     \* _math_traces
  dialog,     \* the open MathTraceDialog, or NoDialog
  plots,      \* what _rebuild_plot_widget built, and the channels it shows
  stored,     \* QSettings
  enough,     \* whether the ASD history holds ASD_MIN_SAMPLE_COUNT samples
  epoch,      \* what a spectrum must be computed from to be current
  revision,   \* _asd_revision
  future,     \* _asd_future: the revision it was submitted for, or 0
  jobs,       \* what the executor has been given and not yet started
  worker,     \* the computation the worker thread is at, and how far it is
  pending,    \* _asd_pending_result
  results,    \* _asd_results
  ops

chosen == <<selected, demodRate, view, layout>>
math == <<traces, dialog>>
asd == <<enough, epoch, revision, future, jobs, worker, pending, results>>
vars == <<chosen, math, plots, stored, asd, ops>>

Channels == 1..CHANNEL_COUNT
Terms == Channels \X {"+", "-"}
TermLists == UNION {[1..n -> Terms] : n \in 1..MaxTerms}
Traces == [enabled : BOOLEAN, terms : TermLists]

NoDialog == [trace |-> 0, terms |-> <<>>]
None == [rev |-> 0]
Idle == [job |-> None, at |-> "idle"]

-----------------------------------------------------------------------------
(* The plots.                                                                *)

EnabledTraces(ts) == SelectSeq(ts, LAMBDA t : t.enabled)

\* _rebuild_plot_widget: math traces have no curve in the ASD view.
Rebuilt(v, l, ts, sel) ==
  [view |-> v, layout |-> l, shown |-> sel,
   math |-> IF v = "ASD" THEN <<>> ELSE EnabledTraces(ts)]

Rebuild == plots' = Rebuilt(view', layout', traces', selected')

Operation == ops < MaxOps /\ ops' = ops + 1 /\ dialog = NoDialog

-----------------------------------------------------------------------------
(* The channel check boxes.                                                  *)

\* Mutant: the box keeps its mark when channels are added.
SyncDemodRateNot(sel) == UNCHANGED demodRate

\* Demodulated rows hold channel 1 alone.
SyncDemodRate(sel) == demodRate' = (demodRate /\ sel = {1})

\* The last channel cannot be deselected: its box is checked again, and nothing
\* is saved.
ToggleChannel(c) ==
  LET next == IF c \in selected THEN selected \ {c} ELSE selected \cup {c}
  IN /\ Operation
     /\ IF next = {}
          THEN UNCHANGED <<selected, demodRate, plots, stored>>
          ELSE /\ selected' = next
               /\ stored' = [stored EXCEPT !.channels = next]
               /\ plots' = [plots EXCEPT !.shown = next]
               /\ SyncDemodRate(next)
     /\ UNCHANGED <<view, layout, math, asd>>

\* The box is enabled for channel 1 alone.
ToggleDemodRate ==
  /\ Operation
  /\ selected = {1}
  /\ demodRate' = ~demodRate
  /\ UNCHANGED <<selected, view, layout, math, plots, stored, asd>>

-----------------------------------------------------------------------------
(* The math traces.                                                          *)

OpenDialog(trace, terms) == dialog' = [trace |-> trace, terms |-> terms]

\* A new trace starts as the sum of the first two channels.
AddTrace ==
  /\ Operation
  /\ OpenDialog(Len(traces) + 1, <<<<1, "+">>, <<2, "+">>>>)
  /\ UNCHANGED <<chosen, traces, plots, stored, asd>>

EditTrace(i) ==
  /\ Operation
  /\ OpenDialog(i, traces[i].terms)
  /\ UNCHANGED <<chosen, traces, plots, stored, asd>>

InDialog == /\ dialog # NoDialog
            /\ UNCHANGED <<chosen, plots, stored, asd>>

AddTerm ==
  /\ InDialog
  /\ Len(dialog.terms) < MaxTerms
  /\ ops < MaxOps /\ ops' = ops + 1
  /\ dialog' = [dialog EXCEPT !.terms = Append(@, <<1, "+">>)]
  /\ UNCHANGED traces

\* Mutant: the last row can be removed too.
RemoveAnyTerm(i) ==
  /\ InDialog
  /\ dialog' = [dialog EXCEPT !.terms = RemoveAt(@, i)]
  /\ UNCHANGED <<traces, ops>>

\* One row always stays.
RemoveTerm(i) ==
  /\ InDialog
  /\ Len(dialog.terms) > 1
  /\ dialog' = [dialog EXCEPT !.terms = RemoveAt(@, i)]
  /\ UNCHANGED <<traces, ops>>

ChangeTerm(i, term) ==
  /\ InDialog
  /\ ops < MaxOps /\ ops' = ops + 1
  /\ dialog' = [dialog EXCEPT !.terms[i] = term]
  /\ UNCHANGED traces

Cancel ==
  /\ InDialog
  /\ dialog' = NoDialog
  /\ UNCHANGED <<traces, ops>>

\* The list is stored, shown again and the plots rebuilt.
Replace(ts) ==
  /\ traces' = ts
  /\ stored' = [stored EXCEPT !.traces = ts]
  /\ UNCHANGED <<chosen, asd>>
  /\ Rebuild

\* An edited trace keeps whether it is shown, a new one is shown.
Accept ==
  /\ dialog # NoDialog
  /\ dialog' = NoDialog
  /\ LET i == dialog.trace
     IN Replace(IF i > Len(traces)
                THEN Append(traces, [enabled |-> TRUE, terms |-> dialog.terms])
                ELSE [traces EXCEPT ![i].terms = dialog.terms])
  /\ UNCHANGED ops

\* Mutant: the plots are not rebuilt.
RemoveTraceOnly(i) ==
  /\ Operation
  /\ traces' = RemoveAt(traces, i)
  /\ stored' = [stored EXCEPT !.traces = traces']
  /\ UNCHANGED <<chosen, dialog, plots, asd>>

RemoveTrace(i) ==
  /\ Operation
  /\ Replace(RemoveAt(traces, i))
  /\ UNCHANGED dialog

\* The check box of an item of the list.
ToggleTrace(i) ==
  /\ Operation
  /\ Replace([traces EXCEPT ![i].enabled = ~@])
  /\ UNCHANGED dialog

-----------------------------------------------------------------------------
(* The views.                                                                *)

ChangeLayout(l) ==
  /\ Operation
  /\ l # layout
  /\ layout' = l
  /\ stored' = [stored EXCEPT !.layout = l]
  /\ UNCHANGED <<selected, demodRate, view, math, asd>>
  /\ Rebuild

\* The results go, a computation under way stays.
ChangeView(v) ==
  /\ Operation
  /\ v # view
  /\ view' = v
  /\ stored' = [stored EXCEPT !.view = v]
  /\ results' = None
  /\ UNCHANGED <<selected, demodRate, layout, math, enough, epoch, revision, future,
                 jobs, worker, pending>>
  /\ Rebuild

\* _on_asd_settings_changed.
ChangeAsdSettings ==
  /\ Operation
  /\ epoch < MaxEpoch
  /\ epoch' = epoch + 1
  /\ results' = None
  /\ UNCHANGED <<chosen, math, plots, stored, enough, revision, future, jobs, worker,
                 pending>>

-----------------------------------------------------------------------------
(* The ASD worker.                                                           *)

\* The samples of the stream: enough arrive; a lost connection clears them.
SamplesArrive ==
  /\ ~enough
  /\ enough' = TRUE
  /\ UNCHANGED <<chosen, math, plots, stored, epoch, revision, future, jobs, worker,
                 pending, results, ops>>

SamplesCleared ==
  /\ epoch < MaxEpoch
  /\ enough' = FALSE
  /\ epoch' = epoch + 1
  /\ UNCHANGED <<chosen, math, plots, stored, revision, future, jobs, worker, pending,
                 results, ops>>

WorkerStarts ==
  /\ worker = Idle /\ jobs # <<>>
  /\ worker' = [job |-> Head(jobs), at |-> "computing"]
  /\ jobs' = Tail(jobs)
  /\ UNCHANGED <<chosen, math, plots, stored, enough, epoch, revision, future, pending,
                 results, ops>>

\* compute_asd_traces returns: a result for each channel, or an error.  The future
\* is done.
WorkerDone ==
  /\ worker.at = "computing"
  /\ \E ok \in BOOLEAN :
       worker' = [job |-> [worker.job EXCEPT !.ok = ok], at |-> "done"]
  /\ UNCHANGED <<chosen, math, plots, stored, enough, epoch, revision, future, jobs,
                 pending, results, ops>>

\* _on_asd_compute_done, on the worker thread.  A computation that raises, whose error
\* is handed over instead of a result, is left out.
HandOver ==
  /\ worker.at = "done"
  /\ pending' = worker.job
  /\ worker' = Idle
  /\ UNCHANGED <<chosen, math, plots, stored, enough, epoch, revision, future, jobs,
                 results, ops>>

\* Whether _asd_future is done: nothing of it is queued or being computed.
FutureDone ==
  /\ worker.at = "computing" => worker.job.rev # future
  /\ \A i \in DOMAIN jobs : jobs[i].rev # future

\* Mutant: nobody looks whether a computation is under way.
InFlightIgnored == FALSE

InFlight == future # 0 /\ ~FutureDone

\* Mutant: it takes any.
NewestOrNot(r) == TRUE

\* Which of the results _consume_asd_result takes: of the newest request only.
Newest(r) == r.rev >= revision

\* _consume_asd_result, the first thing a refresh does about spectra.
Consumed ==
  IF pending # None /\ Newest(pending) /\ pending.ok THEN pending ELSE results

FutureAfter == IF pending # None /\ FutureDone THEN 0 ELSE future

\* _refresh_asd: too few samples clear the results; otherwise a computation over
\* the selected channels is requested, unless one is under way or the results are
\* recent (the clock is left out: they may be or not).
RequestCompute(shown) ==
  /\ ~InFlight
  /\ revision < MaxRevision
  /\ revision' = revision + 1
  /\ future' = revision'
  /\ jobs' = Append(jobs, [rev |-> revision', epoch |-> epoch, channels |-> selected,
                           ok |-> TRUE])
  /\ results' = shown

NoRequest(shown) ==
  /\ InFlight \/ shown # None \/ revision = MaxRevision
  /\ results' = shown
  /\ future' = FutureAfter
  /\ UNCHANGED <<revision, jobs>>

Refresh ==
  /\ pending' = None
  /\ IF view = "ASD" /\ enough
       THEN RequestCompute(Consumed) \/ NoRequest(Consumed)
       ELSE /\ results' = IF view = "ASD" THEN None ELSE Consumed
            /\ future' = FutureAfter
            /\ UNCHANGED <<revision, jobs>>
  /\ UNCHANGED <<chosen, math, plots, stored, enough, epoch, worker, ops>>

-----------------------------------------------------------------------------
(* The program ends and starts again: what it finds is what was stored.      *)

\* _load_channel_selected.  Where QSettings keeps text, a list of booleans comes
\* back as the strings "true" and "false", and bool() of either is true.
LoadedChannels == IF BoolsStayBools THEN stored.channels ELSE Channels

\* math_traces_from_json refuses the list as a whole if one entry is not valid.
LoadedTraces ==
  IF \A i \in DOMAIN stored.traces : stored.traces[i].terms \in TermLists
  THEN stored.traces ELSE <<>>

Restart ==
  /\ Operation
  /\ selected' = LoadedChannels
  /\ demodRate' = FALSE
  /\ view' = stored.view /\ layout' = stored.layout
  /\ traces' = LoadedTraces
  /\ enough' = FALSE
  /\ epoch' = epoch
  /\ revision' = 0 /\ future' = 0 /\ jobs' = <<>> /\ worker' = Idle
  /\ pending' = None /\ results' = None
  /\ UNCHANGED <<dialog, stored>>
  /\ Rebuild

-----------------------------------------------------------------------------
Init ==
  /\ selected = Channels
  /\ demodRate = FALSE
  /\ view = "Time" /\ layout = "Separate"
  /\ traces = <<>> /\ dialog = NoDialog
  /\ plots = Rebuilt(view, layout, traces, selected)
  /\ stored = [channels |-> Channels, traces |-> <<>>, view |-> view, layout |-> layout]
  /\ enough = FALSE /\ epoch = 1
  /\ revision = 0 /\ future = 0 /\ jobs = <<>> /\ worker = Idle
  /\ pending = None /\ results = None
  /\ ops = 0

Next ==
  \/ \E c \in Channels : ToggleChannel(c)
  \/ ToggleDemodRate
  \/ AddTrace
  \/ \E i \in DOMAIN traces : EditTrace(i) \/ RemoveTrace(i) \/ ToggleTrace(i)
  \/ AddTerm
  \/ \E i \in DOMAIN dialog.terms :
       RemoveTerm(i) \/ \E term \in Terms : ChangeTerm(i, term)
  \/ Accept \/ Cancel
  \/ \E l \in {"Separate", "Overlay"} : ChangeLayout(l)
  \/ \E v \in {"Time", "ASD"} : ChangeView(v)
  \/ ChangeAsdSettings
  \/ SamplesArrive \/ SamplesCleared
  \/ WorkerStarts \/ WorkerDone \/ HandOver
  \/ Refresh
  \/ Restart

Spec == Init /\ [][Next]_vars

-----------------------------------------------------------------------------
(* Properties.                                                               *)

Results == {None} \cup [rev : 1..MaxRevision, epoch : 1..MaxEpoch,
                       channels : (SUBSET Channels) \ {{}}, ok : BOOLEAN]

\* The state is well typed: a channel is always shown, and every trace, in the
\* list or in the dialog, has a term and no term is out of range.
TypeOK ==
  /\ selected \in (SUBSET Channels) \ {{}}
  /\ demodRate \in BOOLEAN
  /\ view \in {"Time", "ASD"} /\ layout \in {"Separate", "Overlay"}
  /\ traces \in Seq(Traces)
  /\ dialog # NoDialog => /\ dialog.trace \in 1..(Len(traces) + 1)
                         /\ dialog.terms \in TermLists
  /\ enough \in BOOLEAN /\ epoch \in 1..MaxEpoch
  /\ revision \in 0..MaxRevision /\ future \in 0..revision
  /\ jobs \in Seq(Results \ {None})
  /\ worker.job \in Results /\ worker.at \in {"idle", "computing", "done"}
  /\ pending \in Results /\ results \in Results
  /\ ops \in 0..MaxOps

\* What the window shows, what it keeps and what it would send agree whatever the
\* user did and in whatever order: the plots are those of the view, the layout,
\* the channels and the enabled traces of now, a program started now would find
\* the same traces, and demodulated rows are asked for channel 1 alone (there is
\* no rate at which another channel could be logged).
WindowIsConsistent ==
  /\ plots = Rebuilt(view, layout, traces, selected)
  /\ LoadedTraces = traces
  /\ demodRate => selected = {1}

\* At most one spectrum is being computed or waits to be, and the one that appears
\* is that of the last request.  A refresh that comes after a computation is done
\* and before its result is handed over requests the next one, so a result can be
\* old when it is consumed.
AsdIsOfLastRequest ==
  [][/\ Len(jobs') + (IF worker'.at = "computing" THEN 1 ELSE 0) <= 1
     /\ results' \notin {results, None} => results'.rev = revision]_vars

\* A spectrum on the screen is one of the samples and the settings of now.  It is
\* not: clearing the results leaves the computation under way, whose result is
\* shown when it arrives.
AsdIsCurrent == results # None => results.epoch = epoch \/ ~enough

\* The channels shown are those of the last time the program ran.  Where QSettings
\* keeps text they are not.
ChannelsSurvive == LoadedChannels = stored.channels
=============================================================================
