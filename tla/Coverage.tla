------------------------------ MODULE Coverage ------------------------------
(***************************************************************************)
(* Line coverage: forge writes a tracefile, the workbench reads it when    *)
(* forge ends, shows a percentage, and paints the lines of the editors.    *)
(* Every run of one window writes the same temporary file and removes it.  *)
(*                                                                         *)
(* A tracefile is a sequence of records [tag, line, count]: a file starts  *)
(* with "SF", whose line is the file; hits of a line are "DA", a branch is *)
(* "BRDA"; totals are "LF" and "LH"; "end" closes the file.                *)
(***************************************************************************)
EXTENDS Naturals, Sequences, FiniteSets, SequencesExt, FiniteSetsExt

CONSTANTS
  Files,
  Lines,              \* of every document
  Hits,               \* what a run of the tests may hit: [file -> [hits, branches]]
  MaxRuns, None

VARIABLES
  report,             \* the temporary file: None, or the hits it was written from and its records
  running,            \* the runs of forge: their hits, and whether they wrote their report
  data,               \* coverageData
  bar,                \* the percentage, as covered and total lines, or None
  painted,            \* the visible editors and the colour of their lines
  begun,              \* runs so far
  last                \* the hits of the run that loaded last, and whether runs ever overlapped

coverageVars == <<report, running, data, bar, painted, begun, last>>

\* What forge writes of the hits h (external): a line may be recorded twice, and
\* the totals may be left out.
Record(tag, line, count) == [tag |-> tag, line |-> line, count |-> count]
LineRecords(l, n) == IF n > 1 THEN <<Record("DA", l, 1), Record("DA", l, n - 1)>> ELSE <<Record("DA", l, n)>>
BranchRecords(branches) == [i \in DOMAIN branches |-> Record("BRDA", branches[i].line, branches[i].taken)]
FileRecords(f, hit, branches, totals) ==
  LET order == SetToSeq(DOMAIN hit)
      das == FlattenSeq([i \in DOMAIN order |-> LineRecords(order[i], hit[order[i]])])
      sums == IF totals THEN <<Record("LF", 0, Cardinality(DOMAIN hit)),
                               Record("LH", 0, Cardinality({l \in DOMAIN hit : hit[l] > 0}))>> ELSE <<>>
  IN  <<Record("SF", f, 0)>> \o das \o BranchRecords(branches) \o sums \o <<Record("end", 0, 0)>>
Tracefile(h, totals) ==
  LET files == SetToSeq(DOMAIN h)
  IN  FlattenSeq([i \in DOMAIN files |-> FileRecords(files[i], h[files[i]].hits, h[files[i]].branches, totals)])
-----------------------------------------------------------------------------
NoFileRead == [file |-> None, lines |-> <<>>, branches |-> <<>>, lineTotal |-> 0, lineHit |-> 0]
Put(F, k, v) == [x \in DOMAIN F \cup {k} |-> IF x = k THEN v ELSE F[x]]
HitLines(ls) == {l \in DOMAIN ls : ls[l] > 0}

\* end_of_record: totals that are missing, or zero, are those of the lines.
Committed(c) ==
  [c EXCEPT !.lineTotal = IF @ = 0 THEN Cardinality(DOMAIN c.lines) ELSE @,
            !.lineHit = IF @ = 0 THEN Cardinality(HitLines(c.lines)) ELSE @]

\* Mutant of AddHits: a line that is recorded again keeps its last count.
KeepLast(ls, r) == Put(ls, r.line, r.count)

AddHits(ls, r) == Put(ls, r.line, r.count + IF r.line \in DOMAIN ls THEN ls[r.line] ELSE 0)

\* parseLcov, record by record; what is outside a file is skipped.
OfFile(c, r) ==
  CASE r.tag = "DA" -> [c EXCEPT !.lines = AddHits(@, r)]
    [] r.tag = "BRDA" -> [c EXCEPT !.branches = Append(@, [line |-> r.line, taken |-> r.count])]
    [] r.tag = "LF" -> [c EXCEPT !.lineTotal = r.count]
    [] r.tag = "LH" -> [c EXCEPT !.lineHit = r.count]
LcovStep(s, r) ==
  LET c == s.current
  IN  CASE r.tag = "SF" -> [s EXCEPT !.current = [NoFileRead EXCEPT !.file = r.line]]
        [] r.tag = "end" -> [result |-> IF c.file = None THEN s.result ELSE Put(s.result, c.file, Committed(c)), current |-> NoFileRead]
        [] OTHER -> IF c.file = None THEN s ELSE [s EXCEPT !.current = OfFile(c, r)]
ReadOn(start, records) ==
  LET state[i \in 0 .. Len(records)] == IF i = 0 THEN start ELSE LcovStep(state[i - 1], records[i])
  IN  state[Len(records)]
ParseLcov(records) == ReadOn([result |-> <<>>, current |-> NoFileRead], records).result

\* summarizeBranches: a line with branches that were taken and others that were not.
Partial(branches, l) ==
  LET taken == {i \in DOMAIN branches : branches[i].line = l /\ branches[i].taken > 0}
      all == {i \in DOMAIN branches : branches[i].line = l}
  IN  taken # {} /\ taken # all

\* updateDecorations: a file that has no data is not painted.
Decorations(D, f) ==
  IF f \notin DOMAIN D THEN <<>>
  ELSE [l \in DOMAIN D[f].lines \cap Lines |->
          IF D[f].lines[l] = 0 THEN "uncovered" ELSE IF Partial(D[f].branches, l) THEN "partial" ELSE "covered"]

\* updateStatusBar: of all files together.
Percentage(D) ==
  IF DOMAIN D = {} THEN None
  ELSE [covered |-> SumFunction([f \in DOMAIN D |-> D[f].lineHit]), total |-> SumFunction([f \in DOMAIN D |-> D[f].lineTotal])]
-----------------------------------------------------------------------------
CoverageInit ==
  /\ report = None /\ running = {} /\ data = <<>> /\ bar = None /\ painted = <<>>
  /\ begun = 0 /\ last = [hits |-> <<>>, crossed |-> FALSE]

RunCoverage(h, totals) ==
  /\ begun < MaxRuns
  /\ begun' = begun + 1
  /\ running' = running \cup {[id |-> begun', hits |-> h, totals |-> totals, wrote |-> FALSE]}
  /\ last' = [last EXCEPT !.crossed = @ \/ running # {}]
  /\ UNCHANGED <<report, data, bar, painted>>

\* Forge writes its report; forge itself is external.
ForgeWrites(r) ==
  /\ ~r.wrote
  /\ running' = (running \ {r}) \cup {[r EXCEPT !.wrote = TRUE]}
  /\ report' = [of |-> r.hits, records |-> Tracefile(r.hits, r.totals)]
  /\ UNCHANGED <<data, bar, painted, begun, last>>

Shown(D) ==
  /\ data' = D /\ bar' = Percentage(D)
  /\ painted' = [f \in DOMAIN painted |-> Decorations(D, f)]

\* Forge ends: what the file holds is read, and the file is removed in any case.
ForgeEnds(r, ok) ==
  /\ ok => r.wrote
  /\ running' = running \ {r}
  /\ report' = None
  /\ IF ok /\ report # None
     THEN Shown(ParseLcov(report.records)) /\ last' = [last EXCEPT !.hits = r.hits]
     ELSE UNCHANGED <<data, bar, painted, last>>
  /\ UNCHANGED begun

ClearCoverage ==
  /\ Shown(<<>>) /\ last' = [last EXCEPT !.hits = <<>>]
  /\ UNCHANGED <<report, running, begun>>

\* onDidChangeActiveTextEditor: an editor is painted when it becomes active.
OpenEditor(f) ==
  /\ painted' = Put(painted, f, Decorations(data, f))
  /\ UNCHANGED <<report, running, data, bar, begun, last>>

CoverageNext ==
  \/ \E h \in Hits, totals \in BOOLEAN : RunCoverage(h, totals)
  \/ \E r \in running : ForgeWrites(r) \/ \E ok \in BOOLEAN : ForgeEnds(r, ok)
  \/ ClearCoverage \/ \E f \in Files : OpenEditor(f)
CoverageSpec == CoverageInit /\ [][CoverageNext]_coverageVars
-----------------------------------------------------------------------------
(* What is loaded, counted and painted is the report of one run, parsed;
   without runs that overlap it is that of the run that ended last
   (runCoverage, whose runs share one temporary file). *)
Loads(h) == (data = <<>> /\ h = <<>>) \/ \E totals \in BOOLEAN : data = ParseLcov(Tracefile(h, totals))
LoadsOneRun ==
  /\ \E h \in Hits \cup {<<>>} : Loads(h)
  /\ last.crossed \/ Loads(last.hits)
  /\ bar = Percentage(data)
  /\ \A f \in DOMAIN painted : painted[f] = Decorations(data, f)

(* What is loaded is what one run hit, however its report was written, and
   nothing of another; without runs that overlap it is what the run that ended
   last hit.  The percentage and every visible editor are of that run: a line
   is uncovered, covered, or partly covered as its branches were taken.
   About runCoverage, whose runs share one temporary file, parseLcov and
   updateDecorations. *)
FitsRun(h) ==
  /\ DOMAIN data = DOMAIN h
  /\ \A f \in DOMAIN h : data[f].lines = h[f].hits /\ data[f].branches = h[f].branches
  /\ DOMAIN h # {} => bar.total = SumFunction([f \in DOMAIN h |-> Cardinality(DOMAIN h[f].hits)])
  /\ DOMAIN h # {} => bar.covered = SumFunction([f \in DOMAIN h |-> Cardinality({l \in DOMAIN h[f].hits : h[f].hits[l] > 0})])
  /\ \A f \in DOMAIN painted :
       /\ f \notin DOMAIN h => painted[f] = <<>>
       /\ f \in DOMAIN h => \A l \in DOMAIN h[f].hits \cap Lines :
            /\ painted[f][l] = "uncovered" <=> h[f].hits[l] = 0
            /\ painted[f][l] = "partial" <=>
                 /\ h[f].hits[l] > 0
                 /\ \E i, j \in DOMAIN h[f].branches : h[f].branches[i].line = l /\ h[f].branches[j].line = l
                                                    /\ h[f].branches[i].taken = 0 /\ h[f].branches[j].taken > 0
CoverageIsOfOneRun ==
  /\ LoadsOneRun
  /\ \E h \in Hits \cup {<<>>} : FitsRun(h)
  /\ last.crossed \/ FitsRun(last.hits)
=============================================================================
