# A verification of the Solidity workbench

This directory keeps TLA+ models of the Solidity workbench beside its code: the
language server (`src/packages/server`), the VS Code extension
(`src/packages/extension`) and the library they share (`src/packages/common`).
The models are translated from the TypeScript sources. TLC checks them on small
instances and TLAPS proves theorems about most of the components (section 5).

    tlc -workers 2 -config ParserPool.cfg ParserPool       # one run
    tlapm ParserPool_proofs.tla                            # its proofs

`PROJECT.json` lists the runs, the mutants that show each property can fail, the
lines of source each definition stands for, the hazards and the findings.

## 1. The system

An editor window runs two processes. The **extension** owns commands, views,
terminals and subprocesses (forge, cast, anvil, chisel, slither, gambit). The
**server** answers language requests. It has one event loop; everything in it
interleaves at `await`, timers and callbacks, and a pool of worker threads is
its only real parallelism. The server is told of documents (opened, changed,
saved, closed), of files (the watcher) and of configuration and folders.

| Component | Source | State | Operations | Modelled in |
|---|---|---|---|---|
| Parser worker pool | `parser/parser-pool.ts`, `parser-worker.ts` | idle workers, waiters, listeners per request | parse, acquire, release, terminate, worker messages, a dying thread | `ParserPool`, `WorkerSlots` |
| Symbol index and its feeders | `analyzer/symbol-index.ts`, `server.ts`, `workspace-manager.ts` | pending files, recent files, indexed text per file, parser cache | sweep, import walk, update, remove; document, watcher, folder and configuration handlers | `DocumentIndex` |
| Symbol tables and search | `analyzer/symbol-index.ts`, `reference-index.ts`, `trigram-index.ts` | symbols by file and name, contracts, occurrences, trigrams | update, remove, search | `SymbolTables` |
| Project Graph: queue | `analyzer/graph-index.ts` | declared files, import edges, relationship queue and its set, indexed files | update, enqueue, batch, refresh and remove with dependents, rebuild | `GraphIndex` |
| Project Graph: scheduling | `server.ts` | background timer and its generation, drains, modes | background, drain, rebuild, restored cache, start-up | `GraphSchedule` |
| Project Graph: extraction | `analyzer/graph-index.ts` | nodes, edges by file, stale and unrelated files | declare, relate, update with dependents | `GraphExtraction`, `CallResolution` |
| Project Graph: queries | `analyzer/graph-index.ts`, `server.ts` | what is indexed so far | neighbourhood, trail, query, whole graph, search | `GraphQueries` |
| Project Graph: view | `views/project-graph.ts` | panel, page, boxes, requests under way | show, close, rebuild, prompt, remember; the page's filters | `ProjectGraphView` |
| Semantic resolver | `analyzer/semantic-resolver.ts` | caches of reach, imports, chains, contracts | resolve, chain, invalidate | `SemanticResolver` |
| Navigation | `providers/definition.ts`, `references.ts`, `rename.ts`, `implementation.ts`, `type-hierarchy.ts`, `inheritance-graph.ts`, NatSpec references | none of their own | definition, references, implementations, hierarchies | `Navigation` |
| Completion | `providers/completion.ts` | none of its own | members after a dot, names elsewhere | `Navigation` |
| Call hierarchy | `providers/call-hierarchy.ts` | call sites by name and by caller, indexed files, the shared indexing | prepare, incoming, outgoing, invalidate, cancel | `CallHierarchy` |
| Linter | `providers/linter.ts` | none | one rule each | `Linter` |
| Workspace folders and imports | `workspace/workspace-manager.ts`, `providers/auto-import.ts`, `document-links.ts` | roots, remappings, files by tier | open, close, reconfigure, resolve, propose, insert | `Imports` |
| Solidity parser | `parser/solidity-parser.ts` | source unit and tree per file | parse, parse in a worker, parse again for the tree, remove, name ranges, NatSpec | `SolidityParser` |
| Text scans and colours | `utils/text.ts`, `providers/semantic-tokens.ts`, `inlay-hints.ts`, `signature-help.ts`, `analyzer/reference-index.ts` | none | mask, scan identifiers, find a body, split arguments, find the call at the cursor, colour | `TextScans`, `SemanticTokens` |
| Compiler bridge | `compiler/solc-bridge.ts`, `providers/rename.ts` | trees, fingerprints, texts, edited files | extract, invalidate, status, offsets, local references, local rename | `SolcBridge` |
| Diagnostics | `providers/diagnostics.ts`, `server.ts` | lint timers, published lists | lint, build, publish, clear | `Diagnostics` |
| Chisel panel | `views/chisel-panel.ts`, `common/chisel-output.ts` | subprocess, buffer, pending expressions, timers | show, spawn, evaluate, restart, dispose, output, exit | `ChiselPanel` |
| Anvil manager | `commands/anvil.ts` | instances, their status, ports | start, stop, preset, process reports | `AnvilManager` |
| Debug adapter | `debugger/dap-adapter.ts`, `common/trace.ts` | cursor, contexts, breakpoints | launch, continue, step, step out, terminate | `DapAdapter` |
| Debugger: frames and values | `debugger/dap-adapter.ts`, `common/` | none beyond the trace | stack, scopes, variables, evaluate a name | `DebugFrames` |
| Compiler artefacts | `common/` (source maps, line index, storage layouts, Yul outlines) | none | decode | `Artifacts` |
| Test explorer | `test-explorer/test-provider.ts`, `providers/list-tests.ts` | tree of items, debounce, run | discover, run, cancel, report | `TestExplorer` |
| Mutation testing | `mutation/mutation-provider.ts`, `providers/mutation-candidates.ts` | campaign, sandbox directories, results | baseline, mutate, test, restore, clean up | `MutationRun` |
| Remote chain explorer | `views/remote-chain.ts` | page, loads, one call under way, session | load an ABI, pick an artefact, call, close | `RemoteChain` |
| IR viewer | `views/ir-viewer.ts` | contract, variant, baseline, runs, timer | open, select, save, pin, close | `IrViewer` |
| External analysers | `analysis/`, `common/*-report.ts` | diagnostics of each tool, runs | analyse, save, publish, clear | `Analyzers` |
| Coverage | `views/coverage.ts`, `common/lcov.ts` | report file, data, status bar, decorations | run, read, clear, decorate | `Coverage` |
| Gas profiler | `views/gas-profiler.ts` | baseline, tree, decorations | refresh, clear, watch | `GasProfiler` |

Everything else is listed in section 7 with the reason it is not modelled.

**How they interact.** Saving a document makes the server build
(`Diagnostics`); the build's output goes to the compiler bridge (`SolcBridge`).
Opening or changing one makes the symbol index parse it (`DocumentIndex`), which
updates the graph and puts its file and dependents on the relationship queue
(`GraphIndex`, driven by `GraphSchedule`; what an item of the queue writes is
`GraphExtraction`). Bulk indexing goes through the parser pool (`ParserPool`).
The resolver reads the parser's trees and keeps caches that an edit drops
(`SemanticResolver`); navigation and the call hierarchy read the tables, the
graph and the resolver. The extension's sessions start subprocesses of their own;
the test explorer also asks the server for the list of tests, and the graph's
panel for graphs (`ProjectGraphView` asks, `GraphQueries` answers
and filters).

**What is hard.** Text read before an `await` and used after it; several sweeps
and walks that share one queue; timers of an older generation; a worker thread
that dies; results paired with requests by order alone; builds that overlap and
end in another order; subprocesses that outlive the object that started them;
state inferred from call depths or from names that contain each other; a graph
kept up file by file that must be the program's; rules that see shapes of a tree
and speak of its runs; encoders and decoders that must agree. Nothing
is persisted except the graph's cache and small settings, and no network
protocol is involved, so there are few crash or message-loss hazards. The
hazards are listed in `PROJECT.json`, each at its line.

## 2. The modules

### ParserPool, WorkerSlots, ParserPool_proofs

`ParserPool` follows a call of `parse()` through its states (`pc`): waiting for a
worker, granted one, running, answered, settled. `holds` is the call's `worker`
variable, `waiters` the queue of resolvers, `idle` the stack of free workers,
`inbox`/`outbox` the message ports. A promise continuation is a step of its own
and no macrotask (a message, an exit, a new call) runs while one is due
(`NoMicrotask`), which is Node's order. `Settle` is the `finally` block with the
release it calls: hand the worker to the first waiter, put it back, or do neither
after `terminate()`. `Crash` is a thread that dies while parsing. The
request's `uri` check is the identity of the call, because a worker has at most
one request.

`WorkerSlots` is what the pool promises: first come, first served slots.
`ImplementsSlots` maps the pool onto it; the mapping hides the moment between
the hand-over and the continuation that uses the worker.

### DocumentIndex, DocumentIndex_proofs

The version of a file on disk, in the editor and in the index. `job` holds the
activities that run at once: a bulk sweep, its dependency sweep, an import walk
from an opened document, a run of the watcher's handler. Reads and parses are
awaited (`reading`, `parsing`) and end in any order. `notice` is what the
watcher has yet to report. `OnDidChangeContent`, `OnDidChangeWatchedFiles`,
`ReloadWorkspace` and `ChangeFolders` are the server's handlers with all they
call. `raced` is a history variable: the files that two updates overtook each
other on, where the code promises nothing. `initialize()` is merged with the
start of the first sweep, because nothing else runs in between.

### SymbolTables

What an update writes: `symbolsByFile`, `symbolsByName`, `contractsByName`, the
inverted index of references (`occurrences`, `fileSymbols`) and the trigrams
(`names`, `postings`). `UpdateFile` takes the file's old entries out of each table
and puts the new ones in, in the code's order (references, symbols, contracts,
trigrams); it runs without an `await`, so it is one step, which `DocumentIndex`
schedules. `RemoveFile` is the watcher's handler of a deletion. `ListTests`
parses a file that is not cached without indexing it, which is how the parser's
cache and the tables differ. Trees carry the names they declare and use; lists
are sets, so where the code takes the first entry the model takes any. `Found` is
workspace search with its trigram candidates and the fuzzy fallback, below its
cap of a hundred results.

### GraphIndex, GraphSchedule, Graph_proofs

`GraphIndex` holds operators on a record `G`: which files are declared, the
import edges, the queue, its set, and the files counted as indexed. `related`
says which files really have their relationships in the graph, so that "counted"
and "true" can be compared. `GraphSchedule` is the state machine of `server.ts`
on it: `timers` (generation, current handle, armed handles), the start-up
(`phase`), the mode (auto, on demand, disabled; and the mode of dependencies),
drains of queries, and the handlers of documents and files. Import edges are
given by a constant `Imports`. The edges that relationships add go with the
import edges when a file is cleared.

### SolcBridge, SolcBridge_proofs

Texts are sequences of tokens with a byte width each, so that bytes and offsets
differ and an edit shifts them. The record `bridge` has the code's four maps: the
cached trees (the text they were made from and the build), fingerprints, source
texts and edited files. `build` holds the builds under way and what each has
read. `RenameEdits` is the local rename, offsets converted by `ToSolc` and
`ToDocument` as the code does it. Two texts are enough: one is the other
shifted by a comment token of two bytes.

### GraphExtraction, CallResolution

`GraphExtraction` is what `GraphIndex` leaves abstract: the nodes and edges a tree
gives. `Update` drops what touches a file and declares it and its dependents
again, one at a time (`stale`); `Relate` adds the relationships of one queued file
(`unrelated`). `CallResolution` finds what a call is a call of: the receiver's
type, the using-for directives, the chain of bases, free functions, and an
overload by its arguments. Where the code takes the first of several candidates
of the same name, and the order is that of a table, the model takes any.

### GraphQueries, ProjectGraphView

`GraphQueries` answers a request on a graph of which only some files are related:
neighbourhood, trail, query, whole graph and search, with the indexing each forces
first and the scope that hides tests and dependencies. A walk along the edges indexes
the files it comes to, any other walk empties the queue, and so does a query for
callers; the queue has dependencies only in the mode "relationships", while a file that
a request names is indexed in any. Its second part is the
script of the page: filters by scope, kind, text, edge and quality, and the limit of
nodes. `ProjectGraphView` is the panel around them: the extension and the page
exchange messages in order, requests are answered in any order, boxes and a
remembered scope decide what is asked for.

### SemanticResolver, Navigation, CallHierarchy

`SemanticResolver` says which contract a name means in a file, with its caches:
`reach`, imports, chains, contracts. An edit drops them, the import walk and the
sweep of dependencies only add trees. `Navigation` is definition, type definition,
implementations, type hierarchy, references and the scope of a rename, while the
compiler's trees are cold. Its trees list the uses of identifiers, a place for
each and how it stands in its line, because the two searches of texts differ: the
index of references (`Indexed`) passes over comments, a rename (`Scanned`) reads the
lines again, and leaves the files of libraries out. Its second part is what completion offers at a use: after a dot the members
of the receiver's contract or the fields and attached functions of its type,
elsewhere the names of the files that are reached. `CallHierarchy` has two sources:
the graph, or an index of call sites kept per file. Requests share one indexing (`workspaceIndex`), pause between batches
and can be cancelled; files change meanwhile.

### Linter, Imports, DebugFrames, Artifacts

`Linter` has an operator for each rule, over small trees of bodies, and beside them
an interpreter of the bodies: what a run does, in which order. `Imports` holds
folders with their configuration and remappings, where a path leads, and the
import line that the editor proposes; paths are sequences of tokens, so that a
remapping may cut in the middle. `DebugFrames` runs compiled functions on an
external EVM, records what the adapter gets, and rebuilds frames and slots from
it. `Artifacts` writes a source map with its bytecode, a text, a storage layout or
an IR dump element by element and decodes it at each length.

### TextScans, SolidityParser, SemanticTokens

A text is a sequence of characters in which a word counts as one; pieces are
lexemes, so the model knows what is really code, a comment or a string.
`TextScans` has the six scans of the server, each with the state the code carries
(the previous character, the quote, the depth; some carry a string that is not
closed into the next line, `text.ts:334-415`, the others end it there). In `SolidityParser` a file is
edited declaration by declaration, and its entry in the parser's cache has the tree or
not: a worker's answer drops it (`ParseAsync`), the next request for the tree
parses again (`GetRawAst`). The module has the source unit's lists, the search for
the range of a name (`NameRange`) and for the comment that documents a declaration,
with its tags (`ExtractNatspecBefore`). `SemanticTokens` colours such a file: tokens of
declarations, variables and types from the tree, of directives and of the words of
bodies from the text, by maps of names that parameters hide while a body is scanned and
that are restored after it.

### The sessions, MCParts, Parts_proofs, Sessions_proofs and Contents_proofs

`ChiselPanel`, `AnvilManager`, `DapAdapter`, `TestExplorer`, `MutationRun`,
`Diagnostics`, `ProjectGraphView`, `RemoteChain`, `IrViewer`, `Analyzers`,
`Coverage` and `GasProfiler` are one component of the table each. They,
`SymbolTables` and `CallHierarchy` share no state, so `MCParts` declares the variables of all and lets
a behaviour move one of them (`part`). Interleaving them would show each the same
behaviours in many more states. Subprocesses and requests are asynchronous: a run
is a record in a set, and ends when it likes. Most parts have history variables
that name the exceptions of their properties, where the code visibly does
something else (section 6): `overlapped`, `muddled` (Chisel), `crowded` (Anvil),
`late` (tests), `moved` (mutation), `outlived`, `concurrent` (diagnostics). In
`DapAdapter` the transaction is executed first by an external EVM that records who
really executed each opcode, so that the inferred context can be compared with the
truth.

The test files, what their names contain, the scopes and nodes of the graph's view,
the ABIs, chains and addresses of the remote chain, the contracts and texts of the IR
viewer, what runs of coverage hit, the gas snapshots, the files, reports and settings of
the analysers, the texts of the call hierarchy, its requests and batches, and all bounds of these parts are constants, given in `MCParts.cfg`, so that the proofs are for any of them.

### MCLanguage, MCGraphRuns

`MCLanguage` does the same for what the workbench makes of programs and texts. Its
ten parts are the extraction, the queries with their page, the resolver over
many programs, the resolver over changing trees, navigation, the linter, imports, frames, artefacts and texts. Its definitions are the small
programs, graphs and texts that the parts are tried on. `MCGraphRuns` joins two
instances of `GraphSchedule`: after the start-up (`steady`) and from a fresh start
with batches of one file (`fresh`). Its variable `created` remembers the files that
were created after the start-up; nothing depends on it but what the property says.

### Induction

Lemmas that the proofs share and that are about no part of the code: induction
over natural numbers and finite sets, functions defined step by step, joining and
filtering of sequences, sums over finite sets, lists sorted by an order. Each is
stated of a set or a function where one would expect an operator, because the
provers cannot instantiate a theorem that has an operator as parameter.

## 3. The runs

Each run checks safety over every reachable state of its instance. Deadlock is
not checked: every one of these systems may come to rest (all calls settled, no
edit to come).

| Run | Instance | What it shows |
|---|---|---|
| `pool` | two workers, four callers, one crash, shutdown at any point | each worker serves one call, none is lost, a call waits only when it must, each answer reaches its caller (`WorkersServeOneCall`); the pool implements `WorkerSlots`; every parse settles unless a thread dies or the pool is shut down |
| `pool_crash` | the same, with a dead thread | refuted: not every parse settles (finding) |
| `index_safety` | two files (one a dependency), two activities, two versions, edits, writes, deletions, configuration | once nothing is under way, every file whose updates came one at a time is indexed as it is |
| `index_sweeps` | three files, two activities, folder changes | a file of the workspace that is not indexed always has somebody who will index it, and a sweep never goes over a file refreshed since it began (`SweepsShareFiles`); every file is indexed in the end |
| `index_buffer` | two files, edits only | refuted: an open document is not always indexed as the editor shows it (finding) |
| `graph` | a triangle of three imports after the start-up, two drains, three changes of any kind (files created again after a deletion among them), all modes; and the same from a fresh start, a file created late | nodes and edges are of files that exist and of their texts, what counts as indexed has its relationships, an edge is missing only where `MayMiss` says so, the queue and its set agree and nothing indexed is queued (`GraphIsCurrent`); nothing else is forgotten, at most one background (`QueueIsDriven`); the background comes to rest and every drain ends (`BackgroundAndDrainsEnd`) |
| `graph_restored` | a cache restored at the start, one edit | refuted: the graph reports itself complete when it is not (finding) |
| `graph_deleted` | one deletion | refuted: the background re-arms its timer for ever (finding) |
| `compiler` | two files, two texts, two overlapping builds, four changes | while the status says a tree is fresh a rename touches exactly the name's occurrences; the cached trees are of one build |
| `compiler_rename` | the same | refuted: a rename after an unsaved edit hits other names (finding) |
| `parts` | fourteen parts, each on its own small instance | seventeen properties, see below |
| `language` | ten parts, each over programs, requests or texts | nine properties, see below |

The bounds are named constants of each `.cfg` or of the MC module. Four callers
for two workers let two wait together; a triangle of three files has a dependent of a
dependent, and one that is both; two activities are enough for one to overtake the other; two builds can
end in either order. Counters that the code leaves unbounded (edits, builds,
spawned processes) have a bound in the guards: `MaxVersion`, `MaxChanges`,
`MaxSpawns`, `MaxInstances`, `MaxEdits`, `MaxSaves`, `MaxTexts`, `MaxBuilds`,
`MaxSteps`, `MaxDepth`, `MaxCrashes`, `MaxOperations`, `MaxRuns`, `MaxEvents`,
`MaxAsks`, `MaxElements`, `MaxPieces`. `Moves` in a `.cfg` selects which user
actions a run has; the sets were chosen so that the hazard of the run can occur.
Symmetry is used only in runs without liveness, over activities, or files and
builds, none of which the code orders. The graph's `Order` of files is fixed, so
files are not symmetric there.

**Parts.**
- *Tables.* After any updates and removals the symbols, references and trigrams
  are those that indexing the present trees from nothing would give, a name stands
  for a contract as long as some indexed file declares one, and search finds every
  name that contains the query (`TablesFollowTheTrees`).
- *Chisel.* Every subprocess that lives is the panel's, unless a restart was
  overtaken, and a result is shown for its expression when expressions are sent one
  at a time and print one result each (`EvaluationsAreKept`).
- *Anvil.* Two starting or running instances never share a port unless their
  searches overlapped, and a running status has a live process (`InstancesAreApart`).
- *Debugger.* Each opcode is mapped with the contract that executed it
  (`ContextIsRight`); continue and step never pass a breakpoint
  (`NoBreakpointPassed`).
- *Tests.* The tree shows the file's tests once discovery has ended, or nothing when its
  last listing failed, and what was started is reported (`TestsAreReported`); a verdict is
  the test's own when no name contains another (`VerdictIsItsOwn`).
- *Mutation.* The tested copy holds exactly one mutation, where the candidate was
  found, and no directory is left (`MutantsAreApart`).
- *Diagnostics.* What is shown of the lint is of the current text, and of a closed
  document nothing; the errors shown are the last build's (`ProblemsAreCurrent`,
  with the exceptions in its comment).
- *Project graph.* Once nothing is under way in an open panel the page waits for
  nothing, the selected node is of the graph, and the graph has what the boxes say,
  unless operations crossed or failed (`ShowsWhatBoxesSay`).
- *Remote chain.* Whatever is loaded, typed and closed in between, cast runs only
  functions that read, at an address, with an RPC URL; a page that waits waits for a
  call that runs; each card has both outputs of one call (`CallsOnlyRead`).
- *IR viewer.* When runs do not cross, a panel at rest shows the IR of what is
  selected as it is on disk, and its changes add up from the baseline over the names
  whose copies in the objects of an output have one length (`ShowsWhatIsOnDisk`).
- *Analysers.* At rest each tool shows what its last run found, once a finding,
  when its runs do not overlap (`ShowsTheLastRun`).
- *Coverage.* What is shown, painted and counted is of one run of the tests
  (`CoverageIsOfOneRun`).
- *Gas.* However refreshes overlap, the changes they list add up to what the tests
  cost now (`ChangesAddUp`).
- *Call hierarchy.* A request that no change overtook names exactly the calls of the
  workspace, although others share its indexing and may be cancelled, and the index
  has the calls of its files once each; what a function calls has each site once, at its
  known target or at what the first site of its name was resolved to (`CallsFitTheTexts`).

**Language.**
- `ExtractionIsOfTheProgram`: declared in any order, updated with their importers
  and related later one by one, files have the graph that their program has.
- `AnswersFitTheGraph`: whatever was queued or indexed before, an answer along the
  edges is the one the whole graph gives; in other directions it is the one that the files
  give which the setting names, with the dependencies that were indexed before
  or that the request names; a trail is a shortest path, nothing the scope hides is shown, and the
  page renders exactly what its filters and limit leave.
- `ResolvesAsSolidity`: an identifier that means one contract is resolved to it or,
  after a renaming in another file, to none; what a cache holds is true or lacks only
  what was parsed for the first time since.
- `HintsFitTheRuns`: the hints on reentrancy, missing events, constants and loops are
  about what some run of the body does.
- `NavigationAgrees`: an identifier in code that leads to a declaration is among its
  references and, outside libraries, in its rename; references are in code, and a
  rename differs from them by the libraries and by lines that a scan misreads only;
  implementations and the inheritance graph fit the hierarchy. A completed member leads where it was offered from, and what a
  definition finds through a contract, in the file or at the top of others is
  offered; the exceptions are in section 6.
- `FramesFitTheRun`: as many frames as the run has calls of known source, each at
  its place, and the values of locals in their own slots where the code can know.
- `DecodesWhatWasEncoded`: instructions, positions, slots and outlines are those that
  were written.
- `TextsAreReadAsSolidity`: each scan finds the code, arguments start where they do, the
  range of a name is where the name is and its comment is its own; and whether the tree
  was kept or not, a file has exactly the tokens that scoping gives its names.
- `ImportsReachTheirFile`: a proposed import, once inserted, leads to the file that
  declares the name and is not proposed again.

The comments of the properties say where they make an exception and why.

Every property of a passing run has a mutant: a plausible bug in a mapped
definition under which TLC finds the property violated.

## 4. Fairness

- `ParserPool`: weak fairness of each call's continuations (`RunOnWorker`,
  `Settle`), of each worker's message handler (`Handle`) and of the delivery of
  its events (`Deliver`): the event loop and the threads run. Nobody has to
  call `parse` or `terminate`, and no thread has to die.
- `DocumentIndex`: strong fairness of each activity's steps. Strong, because a
  continuation is disabled now and then while another's microtasks run; an
  event loop takes every task that stays in its queue.
- `GraphSchedule`: weak fairness of armed timers, of the end of the
  initialisation and of rebuilds, of each file's parse and of each waiting drain.
  No fairness of users, cancellation or new queries. `MCGraphRuns` states the same
  of its steady part.
- Everything else: safety only. Chisel, anvil, forge, cast and the analysers are
  external and may never answer; the parts of `language` are decisions on data.

## 5. What is proved

`ParserPool_proofs`, for every number of workers and every set of callers:

- `TypeCorrect`, `OneParseAtATime`, `WorkersAreKept`, `QueueIsNeeded`: the four
  safety invariants. None is inductive alone. Their conjunction is strengthened to
  `PoolInv` with three facts: a call that is served holds a worker and no other
  state does (`HoldsWhileServed`); exactly the calls in the state "waiting" are in
  the queue, once each (`WaitersWait`); until shutdown a worker is idle or
  held (`IdleOrHeld`). `StepInv` has one lemma per action.
- `AnswersReachTheirCaller`: what a worker was asked or has answered belongs to
  its only listener, from `PoolInv` and one lemma per kind of step.
- `WorkersServe`: these together, the property `WorkersServeOneCall` of the run.
- `PoolImplementsSlots`: the refinement of `WorkerSlots`. Parsing, settling and
  terminating are the abstract steps, all other actions stutter.

`DocumentIndex_proofs`, for any files, folders, tiers and number of activities:
`QuietIsFresh`, `SweepsLoseNothing` and `TypeCorrect`, the three invariants of
`index_safety` and `index_sweeps`. That a file at rest is fresh says nothing while
something runs, so `IndexInv` says what will bring each file: a file of the folders
that is not indexed is being read, reported or on some list
(`RootsHaveAnIndexer`); what is parsed and what is indexed of a closed file is what
is on disk, or the file will be read again (`ParsesAreFollowed`, `ClosedIsFollowed`);
of a deleted file nothing is left under way (`GoneIsForgotten`).

`SolcBridge_proofs`, for any files, texts, widths of their tokens and builds:
`TypeCorrect`, whose invariant also says that only a file with a cached tree can be
flagged as edited; `TreesAreOfOneBuild`, whatever builds overlap or fail; and
`RenameIsExactWhenFresh`, from the invariant that the tree, the kept text, the
document and the disk of an unflagged file are one text, and a lemma that `ToSolc`
and `ToDocument` are inverse on the token starts of one text.

`Graph_proofs`, for any files, batch size and modes, has two theorems. Both assume
`Start = "steady"`, as the run has it: from a fresh start the properties are false
(section 6).

- `QueueStaysDriven`, for any imports: after the start-up every parsed file is indexed
  or queued and the background is one chain of timers, or none. Each operator of
  `GraphIndex` has a lemma that says which files it may take from "indexed or queued";
  the invariant `DriveInv` adds that all files that exist are parsed, so that
  neither the sweep nor a walk has work left, and that nothing is demanded while a
  rebuild is under way.
- `GraphStaysCurrent`, the property `GraphIsCurrent` of the run, for any imports
  (cycles and triangles too) and any events: the queue has each file once and none that
  is indexed (in both parts of the run); nodes and import edges are of files that exist
  and of their texts; what counts as indexed has its relationships. The code does lose
  edges (section 6), and the property says which: `MayMiss(f, g, created)` allows the
  edge from f to g to be missing only if g was created after the start-up, or if f
  reaches a file behind g otherwise than through g (`Bypassed`), as it does in a
  triangle. A file with such a missing edge may keep old relationships, as no search for
  dependents finds it; so may a file that was itself created. TLC finds the property
  violated when any of these allowances is dropped. The invariant has the types of both
  parts and, after the start-up, `GraphInv`: `DriveInv`, a graph with an orderly queue,
  and `Current`, which says of all files that are counted what the property says of the
  indexed ones. The main lemma is `LaterIsBypassed`: the search for dependents lists
  files by their distance, so that a file can come after one that imports it, and clear
  its edge, only if that importer was met over another of its imports.

`UpdateAll` and `Batch` are stated as what a loop leaves; TLC compares `UpdateAll`
with its loop (`UpdatesAreInOrder`).

`Parts_proofs`, the symbol tables, for any files, names, trees and queries: `TablesAreRebuilt`,
`ContractsAreFollowed`, `SearchIsComplete`, and together `TablesFollow`, the
property `TablesFollowTheTrees` of the run. The properties speak of whole
tables, which an update changes only where the file's own lists say; so the
invariant `TablesInv` adds that those lists (`symbolsByFile`, `fileSymbols`) are
what the file's present tree gives, and is stated entry by entry. Search needs
one more lemma: a name that contains the query has the query's trigrams.

All fourteen parts of `MCParts` are proved, each from an invariant over its own
variables, since a step moves one part:

- `Parts_proofs`. `ProblemsStayCurrent`: a lint timer holds the document's last text,
  or has outlived it; of builds that do not overlap, the one under way is the last.
  `InstancesStayApart`: the one search under way has seen the ports of all
  instances whose ports were searched. `MutantsStayApart`: between runs of forge no
  file of a copy is mutated, and the ranges of the candidates are those of the copied
  texts.
  `ContextsAreRight`, for traces of any length and depth: the
  context stream is one walk over the trace, a recursive function. The invariant
  says that there is exactly one walk of the trace so far, so that the induction is
  that of the behaviour. `BreakpointsAreReached` and `VerdictsAreOwn` are properties of
  steps. `TestsStayReported`: the last answer, or the tree when all have come, is what
  the server holds.
  `EvaluationsStayKept`: as long as each expression is sent when the one before is
  settled, all but the last are settled, so whatever is still in a pipe or the buffer is
  the last one's, and only that one may be pending.
  `PartsKeepTypes`: the types of all parts that state them, from these invariants.
- `Sessions_proofs`, parts that ask and are answered in whatever order.
  `ChainOnlyReads`: the page's button is enabled only with a valid address, a URL and
  a selected function, and a function that is shown and selected reads.
  `DiskIsShown`, the IR viewer: as long as runs do not cross there is at most one, it
  is of what is selected, and it is of the text on disk or a refresh is due; a run that
  pins a baseline leaves a page that is current. That the changes it lists add up is a
  lemma about three sums over the names of two outlines, from what the last copy of a name
  and the last that differs are.
  `BoxesAreShown`: as long as nothing disturbs the graph's view, at
  most one request or operation is under way and its scope is that of the page's
  boxes, and so is that of every graph on its way to the page; and a page that will
  wait when it has received all messages has a request or an operation that will
  tell it, or one that has failed, and one that will show the server's indexing is
  told when it ends.
  `CallsAreOfTheTexts`, the call hierarchy, for any files, texts, requests and batches:
  `IndexInv` says of each list that it has the calls of its name, or caller, of the
  indexed files, each once, and that a file is noted under all it must be taken out of;
  `Owed` says what a request knows while it waits: that the files it needs are indexed
  or still on its own list. So an indexing that another request's cancellation stops
  costs it nothing. The lemmas follow a portion of a list, the calls of a batch and
  the removal of a file.
- `Contents_proofs`, what is read of a tool's report, for any content of it.
  `OneRunIsLoaded`, `RunsAreMet` and `CostsAreChained` are the invariants of the
  schedule of coverage, analysers and gas that the other theorems build
  on: the coverage report on disk is some run's; an analyser's run that has not ended is
  the last, or was met by it; the updates of the gas tree under way form a chain from
  the costs that are shown to the map in the extension's state, each comparing with what
  the one before it leaves.
  `CoverageIsShown`: the parser, a walk over the records with a file that is open, gives
  back what forge wrote of a run, for any files, lines, counts and branches and with or
  without totals. A lemma follows the walk over one file's records, and induction over
  the files gives the whole; what is painted and counted is then the run's.
  `LastRunIsShown`: each of the four parsers keeps exactly the entries that are
  complete, one at a time, so what a tool shows of a file is at the lines that its
  report gives; the invariant adds that every run saw a text the disk had.
  `CostsAddUp`: the tree has one contract of each name, with its lines in their order,
  and is ordered by totals. Such an order exists (a finite set can be sorted), which the
  definition, a CHOOSE, needs. A test is told of the last line of its name, and `SumsInv`
  ties the last update awaited, the tree, what is told and what the editor shows to
  one snapshot.

The proofs assume only the named assumptions on constants (`PoolAssumption`,
`IndexAssumption`, `TextAssumption`, `TableAssumption`, `GraphAssumption`,
`ScheduleAssumption`, `PartsAssumption`, `ChainAssumption`, `InspectAssumption`,
`ScanAssumption`, `FindsAssumption`, `CoverageAssumption`, `GasAssumption`,
`CallAssumption`), which TLC
evaluates in the runs: that bounds are numbers, that files are finitely many and in an
order, that sets of names are finite where they are listed, that reports are
sequences of entries of their kind with numbers where numbers stand, that no two calls
of a text are at one place, that what stands
for "nothing" is none of the values, and the like.

**Only model-checked.**
- Liveness and ENABLED, which the prover does not have: `ParsesSettle`,
  `EveryFileIndexed`, `BackgroundAndDrainsEnd`.
- The nine properties of `language`: walks, closures and scans of given programs, most
  of them RECURSIVE operators, for which the prover has no backend in a module that
  reaches one. They are compared with reference definitions instead.

## 6. Where the code departs from what it says

The violation runs (`pool_crash`, `index_buffer`, `graph_restored`,
`graph_deleted`, `compiler_rename`) are the findings of `PROJECT.json`, each with
the line it contradicts. While modelling, these smaller departures were met. The
models contain them as the code does them, and the properties name them as
exceptions; those marked with a dagger (†) are outside the models:

- *Index.* A deletion reported while the file is being indexed, or together with a
  change of `foundry.toml`, leaves the file indexed (`server.ts:649-660`); so does
  the removal of its folder (`server.ts:614`). Closing a document with unsaved
  changes leaves the discarded text indexed until something touches the file.
- *Tables.* `candidates` says that short queries return all names
  (`trigram-index.ts:72`); it filters them, so a query of two letters gets no fuzzy
  matches. A longer query with a candidate gets none either: the fallback is for
  an empty list only.
- *Graph.* An import walk's callback updates a file's graph without queueing it
  (`server.ts:712`) and takes it off the queue. When a file and its
  importer both import a third (a triangle), refreshing the dependents one by one drops
  the import edge between them (`graph-index.ts:613`). A file that is created, or
  created again, gets no edges from its importers. `MayMiss` in `GraphSchedule` says
  which edges these are; the run has both cases. A drain's "no progress" test
  (`server.ts:300`) can be satisfied by an edit that takes back what the batch
  gained.
- *Compiler.* Edits made while forge runs are forgotten by the extraction, which
  clears the set of edited files; `raced` names those files.
- *Diagnostics.* A forge that is missing or killed reads as a build without
  errors. A build's list hides the lint's findings of a file until its next edit,
  and the lint's list hides the build's. Lint timers outlive a closed document.
  Files created since the last scan keep errors that other files caused.
- *Chisel.* A statement prints nothing and shifts the pairing of later results. A
  start during a restart's wait leaves a subprocess nobody holds.
- *Anvil.* Two searches may pick the same port; a preset goes on after "stop all";
  ports given explicitly are not probed.
- *Debugger.* A terminate during `cast` is followed by a stopped event. Stepping
  out passes breakpoints. A call back into the entry contract gets no context.
- *Tests.* Of several suites only the first is reported; the names passed to forge
  are regular expressions that match other tests too. A listing that fails counts as an
  empty one and removes every item until the next discovery (`test-provider.ts:131-134`,
  `:190-201`).
- *Mutation.* Ranges are applied to a copy made later without comparing the text;
  a cancelled campaign overwrites the summary.
- *Project graph, view.* Crossed loads are shown in the order of their answers
  (`project-graph.ts:902`); the scope chosen in a prompt is used again by the next
  rebuild (`:1333`); a failed request leaves "Loading…"; the answer of a closed panel
  goes to the new one.
- *Project graph, queries.* The mode "declarations" is to skip the relationships of
  dependencies (`package.json`, `graph-index.ts:1237-1240`), so calls made inside a
  dependency are missing from callers, impact and walks against the edges. But a walk along
  the edges that comes to a dependency, or a request that names a place in it, indexes its file in
  any mode (`:493-500`, `server.ts:1001`, `:1011`), and from then on these answers have
  its calls: what they say depends on what was asked before.
- *Project graph, extraction.* A file-level struct that names a contract of its own
  file gets no `usesType` edge; the components of tuples are not visited.
- *Resolver.* Bases are walked depth first, not in Solidity's C3 order. The sweep of
  dependencies never drops a cache (`server.ts:190-219`), so "not found" may stay.
- *Navigation.* What a file sees through an import of an import is not found by
  definition; imported names precede dotted members (`definition.ts:79-81`); the
  scope of references is limited (`references.ts:157`). A rename without the compiler
  scans lines itself (`rename.ts:476-517`): it rewrites the name in comments whose
  line does not start with `//` or `*`, and misses code on a line that starts with `*`,
  behind a `//` in a string, and behind an odd quote in a comment; the index of
  references misses code behind a `/*` in a string (`reference-index.ts:63-91`). A
  library's name is rewritten where it is used and not where it is declared
  (`rename.ts:173`).
- *Completion.* Nothing is offered after `this.`, `super.` or a namespace's own name;
  functions that using-for attaches to a contract are not (`completion.ts:202-205`);
  structs, enums and modifiers of a contract never are. A renamed import is offered by
  its original name, and names are offered of reached files that the file does not
  import (`:712-717`). Fields of a struct of another file are offered, but their
  definition is not found.
- *Call hierarchy.* Requests that share the indexing of the workspace share the first
  one's cancellation (`call-hierarchy.ts:532`), which no answer shows, because a request
  for callers goes over all files itself before it waits; a file changed during a pause between
  batches is missed (`:544`); the graph's target is read before the drain
  (`:287-300`); overloads share a symbol; outgoing calls without a known target are
  grouped by their bare name and all shown at the callee of the first (`:253-279`), so
  that `f()` and `B.f()` are one.
- *Linter.* A body is found by its function's name, so overloads get the first one's
  (`linter.ts:924`); a local of an outer loop is flagged in an inner one (`:1298`);
  "could be constant" ignores modifiers, derived contracts, tuples and assembly.
- *Imports.* The new line may land inside an import that spans lines
  (`auto-import.ts:219-238`); relative remappings are tried against the first root
  only (`:171-175`) and the first prefix that matches wins
  (`workspace-manager.ts:368-404`); files written after the scan have no tier.
- *Debugger, frames.* The frame entered by a jump is named after its caller
  (`dap-adapter.ts:773`; `README.md:366-389` speaks of the actual function);
  parameters are read one slot too high; locals of a function that has returned
  another's values are off; unnamed parameters are dropped.
- *Remote chain.* A call under way drops the call of a page opened since
  (`remote-chain.ts:328`); a cast that ends after the page closed throws.
- *IR viewer.* Crossing runs show another variant, contract or older text, and the
  baseline may be of another variant. Functions are matched by name alone across the
  creation and the deployed object (`ir-viewer.ts:621-644`): where copies of a name
  differ in length the last counts for the baseline and any that differs for the output, so
  a name may be listed as changed when nothing was.
- *Analysers.* Overlapping runs clear before they await and then both publish
  (`slither.ts:142`, `:185`); a missing slither reads as a parse failure in the log;
  the cut output of a killed run reads as "No issues found"; Mythril's flag drops
  saves of other files, and puts findings of imported files on the target.
- *Coverage.* All runs of a window share one file (`coverage.ts:112`): crossed runs
  load each other's, or none; clearing during a run is undone.
- *Gas.* The baseline is overwritten by each refresh (`gas-profiler.ts:77-111`), so a
  repeated report of the watcher shows no changes; a truncated snapshot loses it;
  overloaded tests share a key; removing the file is not seen.
- *Scans.* The index of references strips `/*` before it looks for strings and line
  comments, so that one of them in a string, or after `//`, hides code until the next
  `*/`, and `/*/` counts as a closed comment (`reference-index.ts:65-90`; the class is
  to index all occurrences, `:19`). `isInsideString` looks at one character before a
  quote, so a string that ends in an escaped backslash stays open. Signature help
  counts commas and brackets in strings and comments; inlay hints count those in
  comments.
- *Parser.* A worker's answer has no tree, so the colours of declarations are missing
  until something asks for the tree. The range of a name is where its letters first
  appear, in a keyword or a type as well (`solidity-parser.ts:797`), and a name on a later
  line has the range of the declaration's start. A comment that is not documentation
  lets an older block document what follows it (`:848-857`); text after a one-line tag is
  lost (`:1005-1012`).
- *Colours.* `findNameAfter` may take a name in a comment (`semantic-tokens.ts:973`)
  and a using directive's keywords are coloured in comments (`:220`). A function on the
  line of an earlier brace gets that brace's body and tokens that overlap.
- *Status bar* †. One source that is idle clears another's "indexing"; in the manual
  mode of the graph a change of folders never reports idle; overlapping builds are
  reported in the order of their ends.

## 7. What is not modelled, and what is left

Components without a model, each with its reason in `PROJECT.json`: code actions
(edits of one document, built from a diagnostic and its text), presentation features (wording and layout), the other
views (one command and its output), commands (dialogs that end in one command
line), activation and settings, scaffolds and protocol types.

Inside the modelled components these are left out: completion in imports and in
NatSpec comments, and the members of the language's own types; the page's zoom, persisted
filters and layout; compiler-resolved paths of navigation and highlights;
retargeting of the graph by the compiler and its fallback on regular expressions
for files that do not parse; the JSON shapes, mnemonics and names that the debugger
prints; the parser's conversion of types, imports and expressions; argument encoding; links, directories as imports and symlinks; textual
prefixes and literals in a few linter rules; ranges and encodings of tokens.
Wording, logging, layout and pages of webviews are left out everywhere.

Two hazards have no property. Closing a document with unsaved edits keeps the
discarded text indexed (`server.ts:742`): no later event corrects it, so nothing
that the code promises could be checked. A forge that is missing or killed reads as
a build without errors (`workspace-manager.ts:482`), before any state that the
models hold.

Theorems worth proving next: what the walks of `language` compute, once they are
written without RECURSIVE operators (the scans of `TextScans` are folds already).
