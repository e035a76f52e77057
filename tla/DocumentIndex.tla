---------------------------- MODULE DocumentIndex ----------------------------
(***************************************************************************)
(* The symbol index of the language server and everything that feeds it:   *)
(* the editor's document events and the file watcher (server.ts), the bulk *)
(* sweeps, the walks over an opened document's imports and the single-file *)
(* indexings (analyzer/symbol-index.ts).                                   *)
(*                                                                         *)
(* A file's content is a version, a number; 0 is no content.  The parser's *)
(* cache and the symbol tables are refreshed and evicted together, so      *)
(* indexed[f] stands for both: the version they describe.                  *)
(*                                                                         *)
(* An asynchronous activity (a sweep, a walk, a run of the watcher's       *)
(* handler) occupies a job.  Its awaits on indexFile() are the entries of  *)
(* reading (before readFile resolved) and parsing (before parseAsync did). *)
(***************************************************************************)
EXTENDS Naturals, Sequences, FiniteSets

CONSTANTS Files,
          Order,        \* the files in the order the tiers list them
          Deps,         \* the files of the "deps" tier
          Imports,      \* what each file imports
          BatchSize,    \* INDEX_BATCH_SIZE
          RootSets,     \* the sets of files the workspace folders may hold
          Jobs,         \* bound: activities at a time
          MaxVersion,   \* bound: contents written during the run
          Moves         \* what the user and other programs do

ASSUME IndexAssumption ==
  /\ Order \in Seq(Files) /\ Files \subseteq {Order[i] : i \in DOMAIN Order}
  /\ \A i, k \in DOMAIN Order : Order[i] = Order[k] => i = k
  /\ Deps \subseteq Files
  /\ Imports \in [Files -> SUBSET Files]
  /\ BatchSize \in Nat \ {0} /\ MaxVersion \in Nat \ {0}
  /\ RootSets \subseteq SUBSET Files /\ RootSets # {}
  /\ Moves \subseteq {"edit", "write", "delete", "config", "folders"}

VARIABLES disk,      \* the version of each file on disk
          buffer,    \* the version of each open document
          notice,    \* what the file watcher has yet to report
          roots,     \* the files under the workspace folders
          listed,    \* the workspace's list of source files
          indexed,   \* the version the symbol index describes
          job,       \* the activities
          reading,   \* <<job, file>>: readFile under way
          parsing,   \* <<job, file, version>>: parseAsync under way
          clock,     \* the last version written
          raced      \* history: files whose updates were not one at a time

vars == <<disk, buffer, notice, roots, listed, indexed, job, reading, parsing, clock, raced>>
world == <<disk, notice, clock>>
workspace == <<roots, listed>>

Versions == 0 .. MaxVersion
Kinds == {"none", "sweep", "deps", "walk", "watch"}
Activity(kind, todo, rest, seen) == [kind |-> kind, todo |-> todo, rest |-> rest, seen |-> seen]
Idle == Activity("none", {}, {}, {})
Sweeping(j) == job[j].kind \in {"sweep", "deps"}
Reading(j) == {r[2] : r \in {x \in reading : x[1] = j}}
Parsing(j) == {p[2] : p \in {x \in parsing : x[1] = j}}
Awaits(j) == Reading(j) \cup Parsing(j) # {}
InFlight(f) == \E j \in Jobs : f \in Reading(j) \cup Parsing(j)
OnDisk(S) == {f \in S : disk[f] # 0}

(* A walk and a watcher's handler run on to their next await: the event    *)
(* loop takes its next task after that.                                    *)
Running(j) == job[j].kind \in {"walk", "watch"} /\ job[j].todo # {} /\ ~Awaits(j)
NoMicrotask == \A j \in Jobs : ~Running(j)
Free(j) == job[j].kind = "none" \/ (job[j].kind \in {"walk", "watch"} /\ job[j].todo = {} /\ ~Awaits(j))
-----------------------------------------------------------------------------
(* A sweep whose queue the files S leave; its "seen" is history: the files *)
(* refreshed since it started.                                             *)
Refreshed(sweep, S) == Activity(sweep.kind, sweep.todo \ S, sweep.rest, sweep.seen \cup S)

(* Mutant of Unqueue: the queues are left alone. *)
KeepQueued(J, f) ==
  [j \in Jobs |-> IF J[j].kind \in {"sweep", "deps"}
                  THEN [J[j] EXCEPT !.seen = @ \cup {f}] ELSE J[j]]

(* updateFile() and removeFile() take the file out of every pending queue. *)
Unqueue(J, f) ==
  [j \in Jobs |-> IF J[j].kind \in {"sweep", "deps"} THEN Refreshed(J[j], {f}) ELSE J[j]]

UpdateFile(J, f, v) ==
  /\ indexed' = [indexed EXCEPT ![f] = v]
  /\ job' = Unqueue(J, f)

(* The imports of f that resolve to a file. *)
Found(f) == OnDisk(Imports[f])

(* A document's content arrives (didOpen, didChange): it is parsed and     *)
(* indexed at once, and a walk over its imports starts.                    *)
OnDidChangeContent(f, v) ==
  /\ buffer' = [buffer EXCEPT ![f] = v]
  /\ \E k \in Jobs :
       /\ Free(k)
       /\ UpdateFile([job EXCEPT ![k] = Activity("walk", Found(f) \ {f}, {}, {f})],
                     f, v)
  /\ raced' = IF InFlight(f) THEN raced \cup {f} ELSE raced \ {f}
  /\ UNCHANGED <<reading, parsing, workspace>>

Open(f) ==
  /\ "edit" \in Moves /\ NoMicrotask
  /\ buffer[f] = 0 /\ disk[f] # 0
  /\ OnDidChangeContent(f, disk[f])
  /\ UNCHANGED world

Edit(f) ==
  /\ "edit" \in Moves /\ NoMicrotask
  /\ buffer[f] # 0 /\ clock < MaxVersion
  /\ OnDidChangeContent(f, clock + 1)
  /\ clock' = clock + 1
  /\ UNCHANGED <<disk, notice>>

(* Saving changes the disk, not the index: the watcher's report of it is   *)
(* skipped while the document is open.                                     *)
Save(f) ==
  /\ buffer[f] # 0 /\ buffer[f] # disk[f]
  /\ disk' = [disk EXCEPT ![f] = buffer[f]]
  /\ notice' = [notice EXCEPT ![f] = "changed"]
  /\ UNCHANGED <<buffer, workspace, indexed, job, reading, parsing, clock, raced>>

(* onDidClose clears the diagnostics and leaves the index alone. *)
Close(f) ==
  /\ NoMicrotask
  /\ buffer[f] # 0
  /\ buffer' = [buffer EXCEPT ![f] = 0]
  /\ raced' = IF buffer[f] # disk[f] \/ InFlight(f) THEN raced \cup {f} ELSE raced
  /\ UNCHANGED <<world, workspace, indexed, job, reading, parsing>>

(* Another program writes, creates or deletes a file. *)
Write(f) ==
  /\ "write" \in Moves /\ clock < MaxVersion
  /\ disk' = [disk EXCEPT ![f] = clock + 1]
  /\ clock' = clock + 1
  /\ notice' = [notice EXCEPT ![f] = "changed"]
  /\ UNCHANGED <<buffer, workspace, indexed, job, reading, parsing, raced>>

Delete(f) ==
  /\ "delete" \in Moves /\ disk[f] # 0
  /\ disk' = [disk EXCEPT ![f] = 0]
  /\ notice' = [notice EXCEPT ![f] = "deleted"]
  /\ UNCHANGED <<buffer, workspace, indexed, job, reading, parsing, clock, raced>>
-----------------------------------------------------------------------------
(* Mutant of OnDidChangeWatchedFiles: deleted files stay indexed. *)
KeepDeletedFiles(S) ==
  /\ UNCHANGED <<workspace, indexed, reading, parsing, raced>>
  /\ \E k \in Jobs :
       /\ Free(k)
       /\ job' = [job EXCEPT ![k] = Activity("watch",
                    {f \in S : buffer[f] = 0 /\ notice[f] # "deleted"}, {}, {})]

(* onDidChangeWatchedFiles() for the reports S: open documents are         *)
(* skipped, deleted files evicted at once, the others indexed in turn.     *)
OnDidChangeWatchedFiles(S) ==
  LET closed  == {f \in S : buffer[f] = 0}
      removed == {f \in closed : notice[f] = "deleted"}
      unqueued == [j \in Jobs |-> IF Sweeping(j) THEN Refreshed(job[j], removed) ELSE job[j]]
  IN  /\ indexed' = [f \in Files |-> IF f \in removed THEN 0 ELSE indexed[f]]
      /\ \E k \in Jobs :
           /\ Free(k)
           /\ job' = [unqueued EXCEPT ![k] =
                        Activity("watch", closed \ removed, {}, {})]
      /\ raced' = raced \cup {f \in removed : InFlight(f)}
      /\ UNCHANGED <<workspace, reading, parsing>>

(* A sweep is given the list of its tiers' files: all of them are pending, *)
(* or those that are not indexed yet.  Of the list, "rest" is what no      *)
(* slice has reached; a slice is the next files of it in the tiers' order. *)
BlockingSweep(L) == Activity("sweep", L \ Deps, L \ Deps, {})
DependencySweep ==
  Activity("deps", {f \in listed \cap Deps : indexed[f] = 0}, listed \cap Deps, {})

Place(f) == CHOOSE i \in DOMAIN Order : Order[i] = f
Slice(rest) == {f \in rest : Cardinality({g \in rest : Place(g) < Place(f)}) < BatchSize}

(* A sweep of the blocking tiers starts over the list L of the roots R. *)
StartSweep(k, R, L) ==
  /\ Free(k)
  /\ roots' = R /\ listed' = L
  /\ job' = [job EXCEPT ![k] = BlockingSweep(L)]
  /\ UNCHANGED <<indexed, reading, parsing>>

(* The same reports with one for foundry.toml or remappings.txt: the files *)
(* are swept again and the handler returns before it looks at S.  A report *)
(* is lost if the sweep does not read the file after it.                   *)
ReloadWorkspace(S) ==
  /\ \E k \in Jobs : StartSweep(k, roots, OnDisk(roots))
  /\ raced' = raced \cup {f \in S : buffer[f] = 0 /\ (notice[f] = "deleted" \/ f \in Deps \/ InFlight(f))}

Reports == {f \in Files : notice[f] # "none"}

WatcherReports ==
  /\ NoMicrotask
  /\ \E S \in SUBSET Reports :
       /\ \/ S # {} /\ OnDidChangeWatchedFiles(S)
          \/ "config" \in Moves /\ ReloadWorkspace(S)
       /\ notice' = [f \in Files |-> IF f \in S THEN "none" ELSE notice[f]]
  /\ UNCHANGED <<disk, clock, buffer>>

(* Mutant of ChangeFolders: the files of removed folders stay listed. *)
KeepRemovedFolders(R) ==
  /\ "folders" \in Moves /\ NoMicrotask
  /\ R # roots
  /\ \E k \in Jobs : StartSweep(k, R, listed \cup OnDisk(R \ roots))
  /\ UNCHANGED <<world, buffer, raced>>

(* The workspace folders change: removed folders leave the list, added     *)
(* ones are searched, and all that is listed is swept again.               *)
ChangeFolders(R) ==
  /\ "folders" \in Moves /\ NoMicrotask
  /\ R # roots
  /\ \E k \in Jobs : StartSweep(k, R, (listed \cap R) \cup OnDisk(R \ roots))
  /\ UNCHANGED <<world, buffer, raced>>
-----------------------------------------------------------------------------
(* indexWorkspace(): the files of the next slice of the list that are      *)
(* still pending are indexed together, then the event loop turns.          *)
SweepBatch(j) ==
  /\ NoMicrotask
  /\ Sweeping(j) /\ ~Awaits(j) /\ job[j].todo # {}
  /\ LET slice == Slice(job[j].rest)
         batch == slice \cap job[j].todo
     IN  /\ job' = [job EXCEPT ![j] = Activity(@.kind, @.todo \ batch, @.rest \ slice, @.seen)]
         /\ reading' = reading \cup ({j} \X batch)
  /\ UNCHANGED <<world, buffer, workspace, indexed, parsing, raced>>

(* Mutant of SweepEnd: the dependencies' sweep is forgotten. *)
SweepEndsAll(j) ==
  /\ Sweeping(j) /\ ~Awaits(j) /\ job[j].todo = {}
  /\ job' = [job EXCEPT ![j] = Idle]
  /\ UNCHANGED <<world, buffer, workspace, indexed, reading, parsing, raced>>

(* A sweep ends once its queue is empty; that of the blocking tiers is     *)
(* followed by one of the dependencies.                                    *)
SweepEnd(j) ==
  /\ Sweeping(j) /\ ~Awaits(j) /\ job[j].todo = {}
  /\ job' = [job EXCEPT ![j] = IF job[j].kind = "deps" THEN Idle ELSE DependencySweep]
  /\ UNCHANGED <<world, buffer, workspace, indexed, reading, parsing, raced>>

(* ensureImportsIndexed(): a file that is indexed is passed through, any   *)
(* other is taken out of the queues and indexed first.                     *)
WalkStep(j) ==
  /\ job[j].kind = "walk" /\ Running(j)
  /\ \E f \in job[j].todo :
       LET seen == job[j].seen \cup {f}
           through == [job EXCEPT ![j] = Activity("walk", (@.todo \cup Found(f)) \ seen, {}, seen)]
           taken == [i \in Jobs |-> IF Sweeping(i) THEN [job[i] EXCEPT !.todo = @ \ {f}] ELSE job[i]]
       IN  IF indexed[f] # 0
           THEN job' = through /\ UNCHANGED reading
           ELSE /\ job' = [taken EXCEPT ![j] = Activity("walk", job[j].todo \ {f}, {}, seen)]
                /\ reading' = reading \cup {<<j, f>>}
  /\ UNCHANGED <<world, buffer, workspace, indexed, parsing, raced>>

(* The watcher's handler goes on to the next changed file. *)
WatchStep(j) ==
  /\ job[j].kind = "watch" /\ Running(j)
  /\ \E f \in job[j].todo :
       /\ job' = [job EXCEPT ![j].todo = @ \ {f}]
       /\ reading' = reading \cup {<<j, f>>}
  /\ UNCHANGED <<world, buffer, workspace, indexed, parsing, raced>>

(* readFile resolves with what is on disk, or rejects and indexFile()      *)
(* returns: a walk then asks the parser for the file's imports all the     *)
(* same.                                                                   *)
ReadFile(j, f) ==
  /\ NoMicrotask
  /\ <<j, f>> \in reading
  /\ reading' = reading \ {<<j, f>>}
  /\ IF disk[f] # 0
     THEN parsing' = parsing \cup {<<j, f, disk[f]>>} /\ UNCHANGED job
     ELSE /\ UNCHANGED parsing
          /\ IF job[j].kind = "walk" /\ indexed[f] # 0
             THEN job' = [job EXCEPT ![j].todo = (@ \cup Found(f)) \ job[j].seen]
             ELSE UNCHANGED job
  /\ UNCHANGED <<world, buffer, workspace, indexed, raced>>

(* parseAsync resolves: the file is indexed with the text that was read,   *)
(* whatever happened to it since.                                          *)
Parsed(j, f, v) ==
  /\ NoMicrotask
  /\ <<j, f, v>> \in parsing
  /\ parsing' = parsing \ {<<j, f, v>>}
  /\ LET walked == IF job[j].kind = "walk"
                   THEN [job EXCEPT ![j].todo = (@ \cup Found(f)) \ job[j].seen] ELSE job
         alone == \A i \in Jobs : f \in Reading(i) \cup Parsing(i) => i = j
     IN  /\ UpdateFile(walked, f, v)
         /\ raced' = IF alone /\ buffer[f] \in {0, v} THEN raced ELSE raced \cup {f}
  /\ UNCHANGED <<world, buffer, workspace, reading>>
-----------------------------------------------------------------------------
(* The server has just been initialised: the first sweep is queued. *)
Init ==
  /\ disk \in [Files -> {0, 1}] /\ \E f \in Files : disk[f] = 1
  /\ buffer = [f \in Files |-> 0]
  /\ notice = [f \in Files |-> "none"]
  /\ roots \in RootSets
  /\ listed = OnDisk(roots)
  /\ indexed = [f \in Files |-> 0]
  /\ \E k \in Jobs : job = [j \in Jobs |-> IF j = k THEN BlockingSweep(OnDisk(roots)) ELSE Idle]
  /\ reading = {}
  /\ parsing = {}
  /\ clock = 1
  /\ raced = {}

JobStep(j) ==
  \/ SweepBatch(j) \/ SweepEnd(j) \/ WalkStep(j) \/ WatchStep(j)
  \/ \E f \in Files : ReadFile(j, f) \/ \E v \in Versions : Parsed(j, f, v)

Next ==
  \/ \E f \in Files : Open(f) \/ Edit(f) \/ Save(f) \/ Close(f) \/ Write(f) \/ Delete(f)
  \/ WatcherReports
  \/ \E R \in RootSets : ChangeFolders(R)
  \/ \E j \in Jobs : JobStep(j)

Spec == Init /\ [][Next]_vars

(* The event loop takes every task it has in turn: reads and parses end    *)
(* and the activities go on.  Nobody has to edit, write or delete.         *)
FairSpec == Spec /\ \A j \in Jobs : SF_vars(JobStep(j))
-----------------------------------------------------------------------------
TypeOK ==
  /\ disk \in [Files -> Versions] /\ buffer \in [Files -> Versions]
  /\ notice \in [Files -> {"none", "changed", "deleted"}]
  /\ roots \in SUBSET Files /\ listed \in SUBSET roots
  /\ indexed \in [Files -> Versions]
  /\ job \in [Jobs -> [kind : Kinds, todo : SUBSET Files, rest : SUBSET Files, seen : SUBSET Files]]
  /\ reading \in SUBSET (Jobs \X Files)
  /\ parsing \in SUBSET (Jobs \X Files \X (Versions \ {0}))
  /\ clock \in Versions /\ raced \in SUBSET Files

(* Nothing is lost: a file of the workspace that exists and is not indexed *)
(* is queued in a sweep, on its way, or about to be reported, or it is a   *)
(* dependency and the sweep that will take it has not started.  Sweeps,    *)
(* walks and edits that run at once take files from each other's queues.   *)
EveryFileHasAnIndexer ==
  \A f \in listed : disk[f] # 0 /\ indexed[f] = 0 =>
    \/ InFlight(f) \/ notice[f] = "changed"
    \/ \E j \in Jobs : f \in job[j].todo /\ (Sweeping(j) \/ job[j].kind = "watch")
    \/ f \in Deps /\ \E j \in Jobs : job[j].kind = "sweep"

(* A file refreshed since a sweep started is not in the sweep's queue: the *)
(* sweep does not put the disk's text over the editor's.                   *)
SweepSkipsFresh == \A j \in Jobs : Sweeping(j) => job[j].todo \cap job[j].seen = {}

(* Sweeps that run at once share the files out and lose none, and leave what a
   document's events have indexed.  About indexWorkspace, whose queues updateFile
   and other sweeps take files from. *)
SweepsShareFiles == EveryFileHasAnIndexer /\ SweepSkipsFresh

(* When nothing is under way, every file whose updates came one at a time  *)
(* is indexed as the editor shows it, or as it is on disk if closed.       *)
Quiet ==
  /\ reading = {} /\ parsing = {}
  /\ \A j \in Jobs : Free(j)
  /\ \A f \in Files : notice[f] = "none"
Current(f) == IF buffer[f] # 0 THEN buffer[f] ELSE disk[f]
QuietMeansFresh == Quiet => \A f \in roots \ raced : indexed[f] = Current(f)

(* Every file of the workspace is indexed sooner or later. *)
EveryFileIndexed == \A f \in Files : (f \in listed /\ disk[f] # 0) ~> (indexed[f] # 0 \/ f \notin listed \/ disk[f] = 0)

(* An open document is indexed as the editor shows it, once all is quiet.  *)
BufferWins == Quiet => \A f \in Files : buffer[f] # 0 => indexed[f] = buffer[f]

(* A file that is gone is not indexed, once all is quiet. *)
DeletedIsEvicted == Quiet => \A f \in Files : disk[f] = 0 /\ buffer[f] = 0 => indexed[f] = 0

(* Only files of the workspace folders are indexed, once all is quiet. *)
IndexedWithinRoots == Quiet => \A f \in Files : indexed[f] # 0 => f \in roots \/ buffer[f] # 0
=============================================================================
