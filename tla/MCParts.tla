------------------------------- MODULE MCParts -------------------------------
(***************************************************************************)
(* The parts of the workbench that share no state with one another: the    *)
(* tables of the symbol index, which this module extends, the Chisel       *)
(* panel, the Anvil manager, the debug adapter, the test explorer,         *)
(* mutation testing, the diagnostics, the project graph's view, the remote *)
(* chain panel, the IR viewer, the external analysers, coverage, the gas   *)
(* profiler and the call hierarchy.  A behaviour moves one of them, the    *)
(* others stay as they begin: interleaving them would show each of them    *)
(* the same behaviours.                                                    *)
(***************************************************************************)
EXTENDS SymbolTables, TLC

CONSTANTS MaxSpawns, MaxExprs,
          Commands, MaxInstances, LastPort, PresetSize,
          MaxSteps, MaxDepth,
          TestContracts, TestNames, Containing, Contents, MaxEdits,
          Sources, MaxSaves, MaxCandidates,
          Checked, Known, Analysed, MaxTexts, MaxBuilds,
          Scopes, Nodes, MaxOperations,
          Abis, Chains, Addresses, Valid, Replies,
          Inspected, Bodies, MaxInspections,
          ScannedFiles, Finds, Settings, MaxScanned, MaxScans,
          Hits, PaintedLines, MaxCoverages,
          Snapshots, Editors, MaxRefreshes,
          CallFiles, CallTexts, CallRequests, CallBatch, CallNames, MaxAsks

(* The bounds are numbers; a preset has an instance; the test file holds      *)
(* tests, of which there are finitely many; and the files of which problems   *)
(* are known are among those that are linted.                                 *)
ASSUME PartsAssumption ==
  /\ MaxInstances \in Nat /\ LastPort \in Nat /\ PresetSize \in Nat \ {0}
  /\ MaxEdits \in Nat /\ IsFiniteSet(TestContracts) /\ IsFiniteSet(TestNames)
  /\ Contents \subseteq SUBSET (TestContracts \X TestNames)
  /\ MaxSaves \in Nat /\ MaxCandidates \in Nat
  /\ MaxSpawns \in Nat /\ MaxExprs \in Nat /\ MaxDepth \in Nat \ {0}
  /\ MaxTexts \in Nat /\ MaxBuilds \in Nat /\ Known \subseteq Checked
  /\ MaxOperations \in Nat \ {0}

(* An ABI is a sequence of functions, some of which read; valid addresses may *)
(* be typed; and what stands for nothing is neither a chain nor a call.       *)
ASSUME ChainAssumption ==
  /\ \A a \in DOMAIN Abis : Abis[a] # NoFile => Abis[a] \in Seq([sig : STRING, read : BOOLEAN])
  /\ Valid \subseteq Addresses /\ NoFile \notin DOMAIN Chains /\ \A c \in DOMAIN Chains : Chains[c] \in STRING
  /\ NoFile \notin [sig : [sig : STRING, read : BOOLEAN], address : Addresses, rpcUrl : STRING, answers : Seq(Replies)]

(* There is a version of the text that the IR viewer inspects, of Yul objects *)
(* with finitely many functions, and what stands for nothing is neither their *)
(* outline nor a table of changes.                                            *)
ASSUME InspectAssumption ==
  /\ Len(Bodies) \in Nat \ {0} /\ DOMAIN Bodies = 1 .. Len(Bodies)
  /\ \A v \in DOMAIN Bodies :
       /\ Len(Bodies[v]) \in Nat /\ DOMAIN Bodies[v] = 1 .. Len(Bodies[v])
       /\ Bodies[v] # NoFile
       /\ \A i \in DOMAIN Bodies[v] : IsFiniteSet(DOMAIN Bodies[v][i]) /\ Bodies[v][i] \in [DOMAIN Bodies[v][i] -> Nat]
  /\ \A S \in SUBSET UNION {UNION {DOMAIN Bodies[v][i] : i \in DOMAIN Bodies[v]} : v \in DOMAIN Bodies} :
       NoFile \notin [S -> Int]

(* What stands for no run of Mythril is not the number of a run.              *)
ASSUME ScanAssumption == NoFile \notin Nat /\ MaxScanned \in Nat

(* What a run hits: finitely many files, lines of them, and their branches.   *)
ASSUME CoverageAssumption ==
  \A h \in Hits :
    /\ IsFiniteSet(DOMAIN h) /\ NoFile \notin DOMAIN h
    /\ \A f \in DOMAIN h :
         /\ DOMAIN h[f].hits \subseteq Nat /\ IsFiniteSet(DOMAIN h[f].hits)
         /\ h[f].hits \in [DOMAIN h[f].hits -> Nat]
         /\ h[f].branches \in Seq([line : Nat, taken : Nat])

(* What forge may write of the gas is lines with a number each; what stands   *)
(* for nothing is neither a list of lines nor a number.                       *)
ASSUME GasAssumption ==
  /\ NoFile \notin Int
  /\ \A s \in Snapshots : s # NoFile /\ s \in Seq([contract : STRING, fn : STRING, params : STRING, gas : Nat])

(* There are finitely many files; what a text imports is among them, no two   *)
(* of its calls are at one place; and what stands for nothing is neither a    *)
(* list of files nor one with the request that has it indexed.                *)
ASSUME CallAssumption ==
  /\ IsFiniteSet(CallFiles) /\ CallBatch \in Nat \ {0}
  /\ NoFile \notin Seq(CallFiles) \cup [todo : Seq(CallFiles), owner : CallRequests \cup {NoFile}]
  /\ \A f \in CallFiles : \A t \in CallTexts[f] \ {NoFile} :
       /\ t.imports \subseteq CallFiles
       /\ t.calls \in Seq([at : Nat, caller : STRING, container : STRING \cup {NoFile}, name : STRING, mod : BOOLEAN,
                           qualifier : STRING \cup {NoFile}, resolves : (CallFiles \X (STRING \cup {NoFile}) \X STRING) \cup {NoFile}])
       /\ \A i, j \in DOMAIN t.calls : t.calls[i].at = t.calls[j].at => i = j

\* Names of one, three and four letters that contain each other's trigrams or not.
TableNames == {<<1>>, <<1, 2, 1>>, <<2, 1, 2, 1>>}
TableTrees ==
  {[contracts |-> {<<1>>}, others |-> {}, uses |-> {<<<<1>>, 1>>, <<<<1, 2, 1>>, 2>>}],
   [contracts |-> {<<1>>, <<1, 2, 1>>}, others |-> {<<2, 1, 2, 1>>}, uses |-> {<<<<1>>, 2>>}],
   [contracts |-> {}, others |-> {<<1>>, <<1, 2, 1>>}, uses |-> {}]}
TableQueries == UNION {[1..k -> {1, 2}] : k \in 0..4}

\* Two pairs of names, one of which contains the other, and four files.
NamesContaining == {<<"A", "AB">>, <<"t", "tu">>}
TestFiles == {{<<"A", "t">>, <<"A", "tu">>}, {<<"A", "t">>, <<"AB", "t">>},
              {<<"AB", "tu">>}, {<<"A", "t">>}}

\* What the remote chain's panel may read: reads, writes, nothing, no ABI.
ReadableAbis ==
  "A" :> <<[sig |-> "r", read |-> TRUE]>>
  @@ "B" :> <<[sig |-> "w", read |-> FALSE], [sig |-> "s", read |-> TRUE]>>
  @@ "empty" :> <<>> @@ "none" :> NoFile

\* One chain has an RPC URL, the custom one has none.
ChainUrls == "mainnet" :> "url" @@ "custom" :> ""

\* The lengths of the functions of a contract as created and as deployed, in two versions of its text: m is in both
\* objects at one length, n at two.
InspectedBodies ==
  <<<<"m" :> 1 @@ "n" :> 2, "f" :> 2 @@ "g" :> 3 @@ "m" :> 1 @@ "n" :> 3>>,
    <<"m" :> 3 @@ "n" :> 3, "f" :> 4 @@ "h" :> 1 @@ "m" :> 3 @@ "n" :> 1>>>>

\* What the analysers may find, by the versions of two files.
Entry(detector, impact, instances) == [detector |-> detector, impact |-> impact, instances |-> instances]
Place(f, line) == [file |-> f, line |-> line]
FoundIn(x) ==
  (IF x["f"] = x["g"] THEN <<Entry("d", "high", <<Place("f", 1), Place("g", x["g"]), Place("f", 1)>>)>> ELSE <<>>)
  \o (IF x["f"] = 1 THEN <<Entry("e", "info", <<Place("f", 3), Place(NoFile, 2)>>), Entry(NoFile, "low", <<Place("f", 4)>>)>> ELSE <<>>)
  \o <<Entry("u", "unknown", <<Place("f", 5)>>), Entry("n", "nc", <<Place("g", 6)>>)>>
AnalysersFind == [t \in {"slither", "aderyn", "wake", "mythril"} |-> [x \in [{"f", "g"} -> 0..1] |-> FoundIn(x)]]

EnabledTools == {{"slither", "mythril"}, {"aderyn", "wake"}}

\* What runs of the tests may hit, and what they may cost.
Branch(line, taken) == [line |-> line, taken |-> taken]
RunsHit ==
  {"f" :> [hits |-> 1 :> 2 @@ 2 :> 0 @@ 9 :> 1, branches |-> <<Branch(1, 1), Branch(1, 0)>>] @@ "g" :> [hits |-> 1 :> 0, branches |-> <<>>],
   "f" :> [hits |-> 1 :> 3 @@ 3 :> 1, branches |-> <<Branch(1, 1), Branch(1, 2), Branch(3, 0)>>],
   "g" :> [hits |-> 2 :> 1, branches |-> <<Branch(2, 0)>>]}
Cost(contract, fn, params, gas) == [contract |-> contract, fn |-> fn, params |-> params, gas |-> gas]
GasSnapshots ==
  {<<Cost("A", "s", "", 1), Cost("B", "s", "", 2)>>,
   <<Cost("A", "s", "", 3), Cost("A", "t", "u", 1), Cost("A", "t", "", 2)>>,
   <<Cost("A", "t", "", 1), Cost("B", "s", "", 1)>>}

TestsOfEditors == "f" :> {"s", "t"} @@ "g" :> {"t"}

(* Texts for the call hierarchy: a call may be of the file's own contract or
   of its base's, by a name or with a qualifier. *)
CallAt(n, caller, of, name, q, target, mod) ==
  [at |-> n, caller |-> caller, container |-> of, name |-> name, qualifier |-> q, resolves |-> target, mod |-> mod]
CalledContract(n, bs, ms) == [name |-> n, bases |-> bs, members |-> ms]
CallerText ==
  [imports |-> {"b"}, contracts |-> <<CalledContract("A", <<"B">>, {"f", "g"})>>, free |-> {},
   calls |-> <<CallAt(1, "g", "A", "f", NoFile, <<"a", "A", "f">>, FALSE), CallAt(2, "g", "A", "f", "B", <<"b", "B", "f">>, FALSE),
               CallAt(3, "f", "A", "m", NoFile, <<"b", "B", "m">>, TRUE)>>]
AloneText ==
  [CallerText EXCEPT !.imports = {}, !.contracts = <<CalledContract("A", <<>>, {"f", "g"})>>,
                     !.calls = <<CallAt(5, "f", "A", "g", NoFile, <<"a", "A", "g">>, FALSE)>>]
CalledText ==
  [imports |-> {}, contracts |-> <<CalledContract("B", <<>>, {"f", "m"})>>, free |-> {"h"},
   calls |-> <<CallAt(11, "h", NoFile, "f", "B", <<"b", "B", "f">>, FALSE), CallAt(12, "f", "B", "h", NoFile, <<"b", NoFile, "h">>, FALSE)>>]
TextsThatCall == "a" :> {CallerText, AloneText} @@ "b" :> {CalledText, NoFile}

VARIABLES
  part,
  active, panel, process, spawned, pst, input, out, err, buf, ready, pending, quietTimer,
  restarting, selections, cards, sentTo, overlapped, muddled,
  at, left, used, port, nextId, waitsFor, listed, status, proc, auto, ports, foreign, crowded,
  frames, trace, session, index, loaded, stream, casting, known, breakpoints,
  file, parsed, reparse, client, debounce, asked, answers, tree, unlisted, late, edits, queue, current,
  cancelled, verdict, truth,
  step, engine, disk, candidates, sandbox, running, results, summary, dirs, cancelling, moved,
  openText, texts, lintTimer, shown, begun, builds, outlived, concurrent,
  graphPanel, page, toHost, toPage, flags, visible, operations, position, phase, operated, failed,
  disturbed, prompted,
  form, command, kept, reading, ran, moves, saved,
  graphed, compiled, incomingCalls, outgoingCalls, incomingByFile, outgoingByFile, indexedFiles

Chisel   == INSTANCE ChiselPanel
Anvil    == INSTANCE AnvilManager
Debug    == INSTANCE DapAdapter
Explorer == INSTANCE TestExplorer
Mutation == INSTANCE MutationRun
Lint     == INSTANCE Diagnostics WITH Files <- Checked
Graphs   == INSTANCE ProjectGraphView WITH
              NoNode <- NoFile, panel <- graphPanel, known <- position, begun <- operated
Chain    == INSTANCE RemoteChain WITH
              MaxSteps <- 10, None <- NoFile,
              page <- form, inFlight <- command, session <- kept, loads <- reading, sent <- ran, steps <- moves
IrView   == INSTANCE IrViewer WITH
              Contracts <- Inspected, Variants <- {"irOptimized", "ir", "assembly"}, Yul <- {"irOptimized", "ir"},
              Outlines <- Bodies, MaxEvents <- MaxInspections, None <- NoFile,
              state <- form, html <- kept, runs <- reading, timer <- command, text <- saved, events <- moves,
              crossed <- ran

Scan     == INSTANCE Analyzers WITH
              Files <- ScannedFiles, MaxVersion <- MaxScanned, MaxRuns <- MaxScans, None <- NoFile,
              enabled <- form, text <- kept, runs <- reading, shown <- ran, inFlight <- command
Cover    == INSTANCE Coverage WITH
              Files <- {"f", "g"}, Lines <- PaintedLines, MaxRuns <- MaxCoverages, None <- NoFile,
              report <- form, running <- reading, data <- kept, bar <- command, painted <- ran, begun <- moves, last <- saved
Gas      == INSTANCE GasProfiler WITH
              MaxEvents <- MaxRefreshes, None <- NoFile,
              snapshot <- form, previous <- kept, awaiting <- reading, entries <- ran, editor <- command, told <- saved, events <- moves

Hierarchy == INSTANCE CallHierarchy WITH
              Files <- CallFiles, Texts <- CallTexts, Requests <- CallRequests, BatchSize <- CallBatch, Names <- CallNames,
              NoText <- NoFile, None <- NoFile,
              texts <- form, pending <- command, workspaceIndex <- kept, requests <- reading, asks <- moves

(* What an analyser finds in a text is a list of entries, and what an entry    *)
(* lacks is not an impact.                                                    *)
ASSUME FindsAssumption ==
  /\ NoFile \notin Scan!Impacts
  /\ \A t \in Scan!Tools, x \in Scan!Texts :
       Finds[t][x] \in Seq([detector : STRING \cup {NoFile}, impact : Scan!Impacts,
                           instances : Seq([file : ScannedFiles \cup {NoFile}, line : Nat])])

chiselVars == <<active, panel, process, spawned, pst, input, out, err, buf, ready, pending,
                quietTimer, restarting, selections, cards, sentTo, overlapped, muddled>>
anvilVars == <<at, left, used, port, nextId, waitsFor, listed, status, proc, auto, ports,
               foreign, crowded>>
debugVars == <<frames, trace, session, index, loaded, stream, casting, known, breakpoints>>
explorerVars == <<file, parsed, reparse, client, debounce, asked, answers, tree, unlisted, late, edits,
                  queue, current, cancelled, verdict, truth>>
mutationVars == <<step, engine, disk, candidates, sandbox, running, results, summary, dirs,
                  cancelling, moved>>
lintVars == <<openText, texts, lintTimer, shown, begun, builds, outlived, concurrent>>
graphVars == <<graphPanel, page, toHost, toPage, flags, visible, operations, position, phase, operated,
               failed, disturbed, prompted>>
viewVars == <<form, command, kept, reading, ran, moves, saved>>
callVars == <<graphed, compiled, incomingCalls, outgoingCalls, incomingByFile, outgoingByFile, indexedFiles>>
tableVars == vars
allVars == <<part, tableVars, chiselVars, anvilVars, debugVars, explorerVars, mutationVars, lintVars, graphVars, viewVars, callVars>>
-----------------------------------------------------------------------------
NoView == form = NoFile /\ command = NoFile /\ kept = NoFile /\ reading = {} /\ ran = {} /\ moves = 0 /\ saved = 0

NoCalls ==
  /\ graphed = {} /\ compiled = {} /\ indexedFiles = {} /\ incomingCalls = <<>> /\ outgoingCalls = <<>>
  /\ incomingByFile = <<>> /\ outgoingByFile = <<>>

(* What a part that does not move begins with is fixed where its Init has a
   choice. *)
PartsInit ==
  /\ part \in {"tables", "chisel", "anvil", "debug", "explorer", "mutation", "lint", "graphs", "chain", "ir", "scan", "cover", "gas", "calls"}
  /\ Init /\ Chisel!Init /\ Anvil!Init /\ Debug!Init /\ Explorer!Init /\ Mutation!Init /\ Lint!Init /\ Graphs!Init
  /\ CASE part = "chain" -> Chain!ChainInit /\ saved = 0
       [] part = "ir" -> IrView!IrInit
       [] part = "scan" -> Scan!AnalyzersInit /\ moves = 0 /\ saved = 0
       [] part = "cover" -> Cover!CoverageInit
       [] part = "gas" -> Gas!GasInit
       [] part = "calls" -> Hierarchy!HierarchyInit /\ ran = {} /\ saved = 0
       [] OTHER -> NoView
  /\ part = "calls" \/ NoCalls
  /\ part = "anvil" \/ foreign = {}
  /\ part = "debug" \/ known = {}
  /\ part = "graphs" \/ (graphPanel = 0 /\ ~position)
  /\ part = "explorer" \/ file = {<<"A", "t">>}

PartsNext ==
  \/ /\ part = "tables" /\ Next
     /\ UNCHANGED <<part, chiselVars, anvilVars, debugVars, explorerVars, mutationVars, lintVars, graphVars, viewVars, callVars>>
  \/ /\ part = "chisel" /\ Chisel!Next
     /\ UNCHANGED <<part, tableVars, anvilVars, debugVars, explorerVars, mutationVars, lintVars, graphVars, viewVars, callVars>>
  \/ /\ part = "anvil" /\ Anvil!Next
     /\ UNCHANGED <<part, tableVars, chiselVars, debugVars, explorerVars, mutationVars, lintVars, graphVars, viewVars, callVars>>
  \/ /\ part = "debug" /\ Debug!Next
     /\ UNCHANGED <<part, tableVars, chiselVars, anvilVars, explorerVars, mutationVars, lintVars, graphVars, viewVars, callVars>>
  \/ /\ part = "explorer" /\ Explorer!Next
     /\ UNCHANGED <<part, tableVars, chiselVars, anvilVars, debugVars, mutationVars, lintVars, graphVars, viewVars, callVars>>
  \/ /\ part = "mutation" /\ Mutation!Next
     /\ UNCHANGED <<part, tableVars, chiselVars, anvilVars, debugVars, explorerVars, lintVars, graphVars, viewVars, callVars>>
  \/ /\ part = "lint" /\ Lint!Next
     /\ UNCHANGED <<part, tableVars, chiselVars, anvilVars, debugVars, explorerVars, mutationVars, graphVars, viewVars, callVars>>
  \/ /\ part = "graphs" /\ Graphs!Next
     /\ UNCHANGED <<part, tableVars, chiselVars, anvilVars, debugVars, explorerVars, mutationVars, lintVars, viewVars, callVars>>
  \/ /\ part = "chain" /\ Chain!ChainNext
     /\ UNCHANGED <<part, saved, tableVars, chiselVars, anvilVars, debugVars, explorerVars, mutationVars, lintVars, graphVars, callVars>>
  \/ /\ part = "ir" /\ IrView!IrNext
     /\ UNCHANGED <<part, tableVars, chiselVars, anvilVars, debugVars, explorerVars, mutationVars, lintVars, graphVars, callVars>>
  \/ /\ part = "scan" /\ Scan!AnalyzersNext
     /\ UNCHANGED <<part, moves, saved, tableVars, chiselVars, anvilVars, debugVars, explorerVars, mutationVars, lintVars, graphVars, callVars>>
  \/ /\ part = "cover" /\ Cover!CoverageNext
     /\ UNCHANGED <<part, tableVars, chiselVars, anvilVars, debugVars, explorerVars, mutationVars, lintVars, graphVars, callVars>>
  \/ /\ part = "gas" /\ Gas!GasNext
     /\ UNCHANGED <<part, tableVars, chiselVars, anvilVars, debugVars, explorerVars, mutationVars, lintVars, graphVars, callVars>>
  \/ /\ part = "calls" /\ Hierarchy!HierarchyNext
     /\ UNCHANGED <<part, ran, saved, tableVars, chiselVars, anvilVars, debugVars, explorerVars, mutationVars, lintVars, graphVars>>

PartsSpec == PartsInit /\ [][PartsNext]_allVars
-----------------------------------------------------------------------------
\* The types of the parts that state them.
PartsTypeOK ==
  /\ TypeOK /\ Chisel!TypeOK /\ Anvil!TypeOK /\ Debug!TypeOK
  /\ Explorer!TypeOK /\ Mutation!TypeOK /\ Lint!TypeOK

\* Chisel: no subprocess is lost, and results are shown for their expressions (ChiselPanel.restart, consumeResult).
EvaluationsAreKept == Chisel!EvaluationsAreKept

\* Anvil: ports are distinct and a running instance has a process (AnvilManager.start, findAvailablePort).
InstancesAreApart == Anvil!InstancesAreApart

\* Debugger: every opcode is mapped with the contract that runs it (rebuildContextStream).
ContextIsRight == Debug!ContextIsRight

\* Debugger: neither continue nor a step goes past a breakpoint (handleContinue, handleStep).
NoBreakpointPassed == Debug!NoBreakpointPassed

\* Tests: the tree is the file's, and what was started is reported (discoverAllTests, runTests).
TestsAreReported == Explorer!TestsAreReported

\* Tests: a verdict is that of the test it is shown for (processTestOutput).
VerdictIsItsOwn == Explorer!VerdictIsItsOwn

\* Mutation: one mutation at a time, where it was found, and nothing is left behind (runCandidate, run).
MutantsAreApart == Mutation!MutantsAreApart

\* Diagnostics: the lint of the last text, the errors of the last build (DiagnosticsProvider).
ProblemsAreCurrent == Lint!ProblemsAreCurrent

\* Remote chain: calls only read, and are answered for the page's own function (RemoteChainPanel.executeCall).
CallsOnlyRead == part = "chain" => Chain!CallsOnlyRead

\* IR viewer: what is shown is what forge made of the files on disk (IrViewerPanel.refresh).
ShowsWhatIsOnDisk == part = "ir" => IrView!ShowsWhatIsOnDisk

\* Analysers: what is shown is what the last run found (analyze of the four integrations).
ShowsTheLastRun == part = "scan" => Scan!ShowsTheLastRun

\* Coverage: what is shown is one run's, added up as its report says (CoverageProvider.runCoverage, parseLcov).
CoverageIsOfOneRun == part = "cover" => Cover!CoverageIsOfOneRun

\* Gas: the changes shown are those since the snapshot before (GasProfilerProvider.refresh).
ChangesAddUp == part = "gas" => Gas!ChangesAddUp

\* Call hierarchy: the callers and the calls of a function are those of the texts (CallHierarchyProvider).
CallsFitTheTexts == part = "calls" => Hierarchy!CallsFitTheTexts

\* Project graph view: what is shown is what its boxes say (ProjectGraphExporter).
ShowsWhatBoxesSay == Graphs!ShowsWhatBoxesSay
=============================================================================
