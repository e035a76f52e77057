----------------------------- MODULE Analyzers -----------------------------
(***************************************************************************)
(* The external analysers: Slither, Aderyn and Wake on the whole           *)
(* workspace, Mythril on one file.  A command or a save starts a run; a    *)
(* run of the first three clears what its tool shows and may overlap with  *)
(* earlier runs of it, Mythril runs once at a time.  A run ends with a     *)
(* report, with output that is none, or with nothing, and what it found is *)
(* put on each file it names.                                              *)
(*                                                                         *)
(* An entry of a report is [detector, impact, instances], an instance      *)
(* [file, line]; detector and file are None, and line is 0, where the      *)
(* report has none that can be used.                                       *)
(***************************************************************************)
EXTENDS Naturals, Sequences, SequencesExt

CONSTANTS
  Files, Finds,       \* Finds[t][x]: the entries of tool t's report on the texts x
  Settings,           \* the sets of tools that may be enabled
  MaxVersion,         \* bound of the versions of a file
  MaxRuns, None

VARIABLES
  enabled,            \* the tools the settings enable
  text,               \* the version of each file on disk
  runs,               \* the runs started so far: [tool, target, seen, during, state]
  shown,              \* per tool and file: the diagnostics, and the run that set them
  inFlight            \* Mythril's run

analyzerVars == <<enabled, text, runs, shown, inFlight>>

Tools == {"slither", "aderyn", "wake", "mythril"}
Impacts == {"high", "medium", "low", "warning", "info", "informational", "nc", "unknown"}
Texts == [Files -> 0..MaxVersion]
Nothing == [run |-> 0, diagnostics |-> {}]
-----------------------------------------------------------------------------
\* The reports.  What an entry lacks decides whether it, or one of its
\* instances, is dropped; Slither's entries are taken as they are.
When(b, x) == IF b THEN <<x>> ELSE <<>>
Complete(i) == i.file # None /\ i.line > 0
CompleteOf(is) == FlattenSeq([i \in DOMAIN is |-> When(Complete(is[i]), is[i])])
OfImpacts(es, impacts) == FlattenSeq([k \in DOMAIN es |-> When(es[k].impact \in impacts, es[k])])
Entry(e, impact, instances) == [detector |-> e.detector, impact |-> impact, instances |-> instances]
Usable(es) ==
  LET found == [k \in DOMAIN es |-> Entry(es[k], es[k].impact, CompleteOf(es[k].instances))]
  IN  FlattenSeq([k \in DOMAIN es |-> When(es[k].detector # None /\ found[k].instances # <<>>, found[k])])

\* parseAderynReport: one list for each severity, in this order.
ParseAderynReport(es) ==
  FlattenSeq([b \in 1..3 |-> Usable(OfImpacts(es, {<<"high", "low", "nc">>[b]}))])

\* normalizeImpact, collectInstances: an instance that is given twice counts once.
NormalizeImpact(i) == IF i = "informational" THEN "info" ELSE IF i \in {"high", "medium", "low", "warning", "info"} THEN i ELSE None
CollectInstances(is) == FlattenSeq([i \in DOMAIN is |-> When(\A j \in 1..i - 1 : is[j] # is[i], is[i])])
ParseWakeReport(es) ==
  LET usable == Usable(OfImpacts(es, {i \in Impacts : NormalizeImpact(i) # None}))
  IN  [k \in DOMAIN usable |-> Entry(usable[k], NormalizeImpact(usable[k].impact), CollectInstances(usable[k].instances))]

\* normalizeSeverity: an issue of Mythril has one place.
FirstOf(is) == IF is = <<>> THEN <<>> ELSE <<is[1]>>
NormalizeSeverity(i) == IF i = "info" THEN "informational" ELSE IF i \in {"high", "medium", "low", "informational"} THEN i ELSE None
ParseMythrilReport(es) ==
  LET known == OfImpacts(es, {i \in Impacts : NormalizeSeverity(i) # None})
  IN  Usable([k \in DOMAIN known |-> Entry(known[k], NormalizeSeverity(known[k].impact), FirstOf(known[k].instances))])

SlitherDiagnosticSeverity ==
  [i \in Impacts |-> CASE i \in {"high", "medium"} -> "error" [] i = "informational" -> "information" [] OTHER -> "warning"]
AderynDiagnosticSeverity == [i \in {"high", "low", "nc"} |-> IF i = "high" THEN "error" ELSE IF i = "low" THEN "warning" ELSE "information"]
WakeDiagnosticSeverity ==
  [i \in {"high", "medium", "low", "warning", "info"} |-> IF i = "high" THEN "error" ELSE IF i = "info" THEN "information" ELSE "warning"]
MythrilDiagnosticSeverity ==
  [i \in {"high", "medium", "low", "informational"} |-> IF i = "high" THEN "error" ELSE IF i = "informational" THEN "information" ELSE "warning"]

\* One diagnostic for each place of a finding in f, related to at most five
\* other places of it.
Clamped(n) == IF n = 0 THEN 0 ELSE n - 1
Related(finding, i) ==
  LET all == finding.instances
      others == FlattenSeq([j \in DOMAIN all |-> When(j # i /\ all[j].file # None, all[j])])
  IN  {[file |-> others[k].file, line |-> Clamped(others[k].line)] : k \in DOMAIN others \cap 1..5}
DiagnosticsOn(found, f, severity) ==
  UNION {{[code |-> found[k].detector, line |-> Clamped(found[k].instances[i].line),
           severity |-> severity[found[k].impact], related |-> Related(found[k], i)] :
            i \in {i \in DOMAIN found[k].instances : found[k].instances[i].file = f}} : k \in DOMAIN found}

BuildSlitherDiagnostics(es, f) == DiagnosticsOn(es, f, SlitherDiagnosticSeverity)
BuildAderynDiagnostics(es, f) == DiagnosticsOn(ParseAderynReport(es), f, AderynDiagnosticSeverity)
BuildWakeDiagnostics(es, f) == DiagnosticsOn(ParseWakeReport(es), f, WakeDiagnosticSeverity)
\* Put on the analysed file wherever they are.
BuildMythrilDiagnostics(es) ==
  LET found == ParseMythrilReport(es)
  IN  {[code |-> found[k].detector, line |-> Clamped(found[k].instances[1].line),
        severity |-> MythrilDiagnosticSeverity[found[k].impact], related |-> {}] : k \in DOMAIN found}
BuildDiagnostics(run, f) ==
  LET es == Finds[run.tool][run.seen]
  IN  CASE run.tool = "slither" -> BuildSlitherDiagnostics(es, f)
        [] run.tool = "aderyn" -> BuildAderynDiagnostics(es, f)
        [] run.tool = "wake" -> BuildWakeDiagnostics(es, f)
        [] OTHER -> IF f = run.target THEN BuildMythrilDiagnostics(es) ELSE {}
-----------------------------------------------------------------------------
AnalyzersInit ==
  /\ enabled \in Settings /\ text = [f \in Files |-> 0] /\ runs = <<>> /\ inFlight = None
  /\ shown = [t \in Tools |-> [f \in Files |-> Nothing]]

Running(rs, t) == {i \in DOMAIN rs : rs[i].tool = t /\ rs[i].state = "running"}
Begun(rs, t, target, x) ==
  Append(rs, [tool |-> t, target |-> target, seen |-> x, during |-> Running(rs, t), state |-> "running"])

\* Mutant of Cleared: only the saved file's diagnostics are cleared.
ClearedOnFile(s, t, target) == [s EXCEPT ![t] = [f \in Files |-> IF f = target THEN Nothing ELSE @[f]]]

\* What the tool showed is dropped before it runs.
Cleared(s, t, target) ==
  [s EXCEPT ![t] = [f \in Files |-> IF t = "mythril" /\ f # target THEN @[f] ELSE Nothing]]

Starts(ts, target, x) ==
  LET begin == {t \in ts \cap enabled : t = "mythril" => inFlight = None}
      Begin(rs, t) == IF t \in begin THEN Begun(rs, t, target, x) ELSE rs
      Clear(s, t) == IF t \in begin THEN Cleared(s, t, target) ELSE s
  IN  /\ runs' = Begin(Begin(Begin(Begin(runs, "slither"), "aderyn"), "wake"), "mythril")
      /\ Len(runs') <= MaxRuns
      /\ shown' = Clear(Clear(Clear(Clear(shown, "slither"), "aderyn"), "wake"), "mythril")
      /\ inFlight' = IF "mythril" \in begin THEN Len(runs') ELSE inFlight

\* The command of one tool; Mythril takes the active editor's file.
Analyze(t, f) == Starts({t}, f, text) /\ UNCHANGED <<enabled, text>>
\* onDidSaveTextDocument: every enabled tool is started.
Save(f) ==
  /\ text[f] < MaxVersion
  /\ text' = [text EXCEPT ![f] = @ + 1]
  /\ Starts(Tools, f, text')
  /\ UNCHANGED enabled

\* processResults, applyFindings: what was found is put on the files that have
\* some of it; a report without findings is told as "No issues found.", and
\* changes nothing.
Ended(i, state) ==
  LET run == runs[i]
  IN  /\ run.state = "running"
      /\ runs' = [runs EXCEPT ![i].state = state]
      /\ inFlight' = IF inFlight = i THEN None ELSE inFlight
      /\ shown' = IF state # "found" THEN shown
                  ELSE [shown EXCEPT ![run.tool] =
                         [f \in Files |-> LET ds == BuildDiagnostics(run, f)
                                          IN  IF ds = {} THEN @[f] ELSE [run |-> i, diagnostics |-> ds]]]
      /\ UNCHANGED <<enabled, text>>
Reports(i, found) == Ended(i, IF found = <<>> THEN "clean" ELSE "found")

\* A run ends with a report, with text that is none, with a report that was cut
\* off, with nothing, or it fails with nothing.  What is told to the user is an
\* "error", and to the output channel alone a "log".
Outputs == {"report", "text", "cut", "nothing", "failed"}
SlitherEnds(i, output) ==
  /\ runs[i].tool = "slither"
  /\ IF output = "report" THEN Reports(i, Finds["slither"][runs[i].seen]) ELSE Ended(i, "log")
AderynEnds(i, output) ==
  /\ runs[i].tool = "aderyn"
  /\ CASE output = "report" -> Reports(i, ParseAderynReport(Finds["aderyn"][runs[i].seen]))
       [] output \in {"text", "cut"} -> Ended(i, "clean")
       [] output = "nothing" -> Ended(i, "log")
       [] output = "failed" -> Ended(i, "error")
WakeEnds(i, output) ==
  /\ runs[i].tool = "wake"
  /\ CASE output = "report" -> Reports(i, ParseWakeReport(Finds["wake"][runs[i].seen]))
       [] output = "cut" -> Ended(i, "clean")
       [] output \in {"text", "nothing"} -> Ended(i, "log")
       [] output = "failed" -> Ended(i, "error")
MythrilEnds(i, output) ==
  /\ runs[i].tool = "mythril"
  /\ CASE output = "report" -> Reports(i, ParseMythrilReport(Finds["mythril"][runs[i].seen]))
       [] output \in {"text", "cut"} -> Ended(i, "clean")
       [] output = "nothing" -> Ended(i, "log")
       [] output = "failed" -> Ended(i, "error")

AnalyzersNext ==
  \/ \E f \in Files : Save(f) \/ \E t \in Tools : Analyze(t, f)
  \/ \E i \in DOMAIN runs, output \in Outputs :
       SlitherEnds(i, output) \/ AderynEnds(i, output) \/ WakeEnds(i, output) \/ MythrilEnds(i, output)
AnalyzersSpec == AnalyzersInit /\ [][AnalyzersNext]_analyzerVars
-----------------------------------------------------------------------------
RunsOf(t, f) == {i \in DOMAIN runs : runs[i].tool = t /\ (t = "mythril" => runs[i].target = f)}

(* What a tool shows on a file is all that one run found there, one that had not
   ended when the tool's last run began, or that last run itself if it met no
   other of its tool; and Mythril analyses one file at a time (analyze of the
   four analysers, which clear their findings before an await). *)
ShowsOneRun ==
  /\ \A i \in DOMAIN runs : i \in Running(runs, "mythril") <=> i = inFlight
  /\ \A t \in Tools, f \in Files : \A last \in RunsOf(t, f) : (\A i \in RunsOf(t, f) : i <= last) =>
       LET s == shown[t][f]
       IN  /\ s.run \in {0, last} \cup runs[last].during
           /\ s.diagnostics = IF s.run = 0 THEN {} ELSE BuildDiagnostics(runs[s.run], f)
           /\ runs[last].during = {} =>
                s.diagnostics = IF runs[last].state = "found" THEN BuildDiagnostics(runs[last], f) ELSE {}

(* And what it shows is at the lines that the run's report gives: every complete
   entry of a severity the tool knows is there, and nothing else (Slither's also
   without a detector, a line or a known impact; Mythril's on the file that was
   analysed).  About the parsers of the reports. *)
Rated(t) ==
  CASE t = "slither" -> Impacts
    [] t = "aderyn" -> {"high", "low", "nc"}
    [] t = "wake" -> Impacts \ {"nc", "unknown"}
    [] t = "mythril" -> Impacts \ {"nc", "unknown", "warning"}
LinesFound(run, f) ==
  LET es == Finds[run.tool][run.seen]
      places(k) == IF run.tool = "mythril" THEN {1} \cap DOMAIN es[k].instances ELSE DOMAIN es[k].instances
      used(k, i) == /\ es[k].impact \in Rated(run.tool)
                    /\ run.tool # "slither" => es[k].detector # None /\ Complete(es[k].instances[i])
                    /\ IF run.tool = "mythril" THEN run.target = f ELSE es[k].instances[i].file = f
  IN  UNION {{<<es[k].detector, Clamped(es[k].instances[i].line)>> : i \in {i \in places(k) : used(k, i)}} : k \in DOMAIN es}
ShowsTheLastRun ==
  /\ ShowsOneRun
  /\ \A t \in Tools, f \in Files : RunsOf(t, f) # {} =>
       LET last == CHOOSE i \in RunsOf(t, f) : \A j \in RunsOf(t, f) : j <= i
           by == shown[t][f].run
           lines == {<<d.code, d.line>> : d \in shown[t][f].diagnostics}
       IN  /\ by # 0 => lines = LinesFound(runs[by], f)
           /\ runs[last].during = {} => lines = (IF runs[last].state = "found" THEN LinesFound(runs[last], f) ELSE {})
=============================================================================
