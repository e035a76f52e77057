------------------------------ MODULE IrViewer ------------------------------
(***************************************************************************)
(* The IR viewer: one panel for a contract and a variant, which runs forge *)
(* inspect when it is opened, when the variant changes, when asked and     *)
(* 600 ms after a save, and compares the functions with a pinned baseline. *)
(* Runs are not tied to what was selected when they began: each result is  *)
(* shown for what is selected when it ends.                                *)
(***************************************************************************)
EXTENDS Naturals, Integers, FiniteSets, FiniteSetsExt

CONSTANTS
  Contracts, Variants,
  Yul,          \* the variants that have an outline
  Outlines,     \* version of the text -> the Yul objects printed: creation, then deployed, each function -> lines of its body
  MaxEvents, None

VARIABLES
  state,        \* what is selected: [contract, variant, baseline], or None without a panel
  html,         \* what the panel shows: [says, output, against, deltas], against the baseline
  runs,         \* forge processes: [id, pin, contract, variant, from]
  timer,        \* is the auto-refresh due
  text,         \* the version of the text on disk
  events,       \* bound, and the identity of the runs
  crossed       \* history: did a run end for another selection, or two overlap

irVars == <<state, html, runs, timer, text, events, crossed>>

\* computeFunctionDeltas matches functions by their mangled names alone, whichever object they are in: of copies
\* of a name in the baseline the last one counts, and of those in the current outline the last that differs from it.
Having(outline, f) == {i \in DOMAIN outline : f \in DOMAIN outline[i]}
NamesIn(outline) == UNION {DOMAIN outline[i] : i \in DOMAIN outline}
LineCount(outline, f) == IF Having(outline, f) = {} THEN 0 ELSE outline[Max(Having(outline, f))][f]
Differing(baseline, current, f) ==
  {i \in Having(current, f) : Having(baseline, f) = {} \/ current[i][f] # LineCount(baseline, f)}
LineDelta(baseline, current, f) ==
  IF f \in NamesIn(current) THEN current[Max(Differing(baseline, current, f))][f] - LineCount(baseline, f)
  ELSE 0 - LineCount(baseline, f)
Changed(baseline, current) == {f \in NamesIn(current) : Differing(baseline, current, f) # {}}
\* Mutant of ComputeFunctionDeltas: what is gone is not counted.
DeltasOfCurrent(baseline, current) == [f \in Changed(baseline, current) |-> LineDelta(baseline, current, f)]
ComputeFunctionDeltas(baseline, current) ==
  [f \in Changed(baseline, current) \cup (NamesIn(baseline) \ NamesIn(current)) |-> LineDelta(baseline, current, f)]
Outline(output) == IF output.variant \in Yul THEN Outlines[output.text] ELSE None

Page(says) == [says |-> says, output |-> None, against |-> None, deltas |-> None]
Run(pin, s) ==
  /\ runs' = runs \cup {[id |-> events, pin |-> pin, contract |-> s.contract, variant |-> s.variant, from |-> text]}
  /\ crossed' = (crossed \/ runs # {})
Counted == events < MaxEvents /\ events' = events + 1
Refresh(s) == Run(FALSE, s)

\* openFromEditor and show: a command of the palette, for any contract.
Show ==
  /\ Counted
  /\ \E c \in Contracts, v \in {"irOptimized"} :
       LET s == [contract |-> c, variant |-> v, baseline |-> None]
       IN  state' = s /\ Refresh(s)
  /\ html' = Page("loading")
  /\ UNCHANGED <<timer, text>>
Dispose == state # None /\ state' = None /\ timer' = FALSE /\ html' = Page("loading") /\ UNCHANGED <<runs, text, events, crossed>>

\* handleMessage.
SelectVariant ==
  /\ state # None /\ html.says # "loading" /\ Counted
  /\ \E v \in Variants \ {state.variant} :
       LET s == [state EXCEPT !.variant = v,
                              !.baseline = IF @ # None /\ @.variant = v THEN @ ELSE None]
       IN  state' = s /\ Refresh(s)
  /\ UNCHANGED <<html, timer, text>>
RefreshClicked ==
  /\ state # None /\ html.says # "loading" /\ Counted /\ Refresh(state)
  /\ UNCHANGED <<state, html, timer, text>>
PinBaseline ==
  /\ state # None /\ html.says # "loading" /\ state.baseline = None /\ Counted /\ Run(TRUE, state)
  /\ UNCHANGED <<state, html, timer, text>>
ClearBaseline ==
  /\ state # None /\ html.says # "loading" /\ state.baseline # None /\ Counted
  /\ LET s == [state EXCEPT !.baseline = None] IN state' = s /\ Refresh(s)
  /\ UNCHANGED <<html, timer, text>>

\* onDocumentSaved and scheduleAutoRefresh, for a file of the same project.
Save ==
  /\ text + 1 \in DOMAIN Outlines /\ text' = text + 1
  /\ timer' = (timer \/ state # None)
  /\ UNCHANGED <<state, html, runs, events, crossed>>
AutoRefresh ==
  /\ timer /\ Counted /\ timer' = FALSE
  /\ IF state # None THEN Refresh(state) ELSE UNCHANGED <<runs, crossed>>
  /\ UNCHANGED <<state, html, text>>

\* The output of a run is of a text that was on disk while it ran (external).
Output(run, t) == [contract |-> run.contract, variant |-> run.variant, text |-> t]
Deltas(output) ==
  LET outline == IF state.variant = "assembly" THEN None ELSE Outline(output)
  IN  IF state.baseline = None \/ outline = None \/ state.baseline.variant # state.variant THEN None
      ELSE ComputeFunctionDeltas(IF state.baseline.outline = None THEN <<>> ELSE state.baseline.outline, outline)

Ended(run) ==
  /\ runs' = runs \ {run}
  /\ crossed' = (crossed \/ (state # None /\ <<state.contract, state.variant>> # <<run.contract, run.variant>>))
RefreshEnds ==
  /\ \E run \in {r \in runs : ~r.pin} :
       /\ Ended(run)
       /\ IF state = None THEN UNCHANGED html
          ELSE \/ html' = Page("failed")
               \/ \E t \in run.from..text : html' = [says |-> "output", output |-> Output(run, t), against |-> state.baseline, deltas |-> Deltas(Output(run, t))]
  /\ UNCHANGED <<state, timer, text, events>>
\* pinBaseline after its run; a failed one changes nothing.
PinEnds ==
  /\ Counted
  /\ \E run \in {r \in runs : r.pin} :
       \/ /\ state = None /\ Ended(run) /\ UNCHANGED state
       \/ /\ Ended(run) /\ UNCHANGED state
       \/ \E t \in run.from..text :
            LET s == [state EXCEPT !.baseline = [variant |-> state.variant, text |-> t,
                        outline |-> IF state.variant = "assembly" THEN None ELSE Outline(Output(run, t))]]
            IN  /\ state # None /\ state' = s
                /\ runs' = (runs \ {run}) \cup {[id |-> events, pin |-> FALSE, contract |-> s.contract,
                                                 variant |-> s.variant, from |-> text]}
                /\ crossed' = (crossed \/ runs # {run} \/ <<s.contract, s.variant>> # <<run.contract, run.variant>>)
  /\ UNCHANGED <<html, timer, text>>

IrInit ==
  /\ state = None /\ html = Page("loading") /\ runs = {} /\ timer = FALSE /\ text = 1 /\ events = 0 /\ crossed = FALSE
IrNext ==
  \/ Show \/ Dispose \/ SelectVariant \/ RefreshClicked \/ PinBaseline \/ ClearBaseline
  \/ Save \/ AutoRefresh \/ RefreshEnds \/ PinEnds
-----------------------------------------------------------------------------
(* When runs do not cross, a panel at rest shows the IR of the selected
   contract and variant as it is on disk, or that forge failed, and with a
   baseline the changes since (refresh). *)
ShowsWhatIsSelected ==
  (state # None /\ ~crossed /\ runs = {} /\ ~timer /\ html.says # "failed") =>
    /\ html.says # "loading"
    /\ html.output = [contract |-> state.contract, variant |-> state.variant, text |-> text]
    /\ (state.baseline # None /\ state.variant \in Yul) => html.deltas # None

(* The changes a panel lists add up to what the functions grew since the
   baseline was pinned, of the same variant: a name counts once, those whose
   copies in the objects of one output differ are left out
   (computeFunctionDeltas). *)
Lengths(outline, f) == {outline[i][f] : i \in {k \in DOMAIN outline : f \in DOMAIN outline[k]}}
Body(outline, f) == IF Lengths(outline, f) = {} THEN 0 ELSE CHOOSE n \in Lengths(outline, f) : TRUE
CopiesAgree(outline, f) == \A m, n \in Lengths(outline, f) : m = n
Comparable(b, c) == {f \in NamesIn(b) \cup NamesIn(c) : CopiesAgree(b, f) /\ CopiesAgree(c, f)}
Total(table) == MapThenSumSet(LAMBDA f : table[f], DOMAIN table)
ListsWhatChanged ==
  html.says = "output" /\ html.deltas # None /\ html.against.outline # None =>
    LET b == html.against.outline
        c == Outlines[html.output.text]
    IN  Total([f \in Comparable(b, c) |-> Body(c, f)])
          = Total([f \in Comparable(b, c) |-> Body(b, f)])
              + Total([f \in Comparable(b, c) \cap DOMAIN html.deltas |-> html.deltas[f]])

(* What a panel shows is what forge made of the files on disk. *)
ShowsWhatIsOnDisk == ShowsWhatIsSelected /\ ListsWhatChanged
=============================================================================
