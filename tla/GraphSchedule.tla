---------------------------- MODULE GraphSchedule ----------------------------
(***************************************************************************)
(* How server.ts keeps the Project Graph up to date: the start-up, the     *)
(* handlers of document, watcher, configuration and rebuild events, the    *)
(* background timer that indexes relationships batch by batch, and the     *)
(* queries that drain the queue before they answer.                        *)
(*                                                                         *)
(* Handlers run to their next await in one step.  The parsing they wait    *)
(* for is DocumentIndex's subject; here a file is parsed or is not.        *)
(***************************************************************************)
EXTENDS GraphIndex

CONSTANTS Missing,      \* the files that do not exist at first
          Queries,      \* bound: drains of callers and impact queries
          Modes,        \* settings tried: <<relationshipIndexing, dependencyIndexing>>
          Moves,        \* what the user and other programs do
          Start,        \* "fresh", "restored": a start-up; "steady": after it
          MaxChanges    \* bound: events from the user and other programs

ASSUME ScheduleAssumption ==
  /\ Missing \subseteq Files /\ MaxChanges \in Nat
  /\ Modes \subseteq {"auto", "manual", "disabled"} \X {"disabled", "declarations", "relationships"}
  /\ Moves \subseteq {"edit", "create", "delete", "search", "config", "reload", "rebuild"}
  /\ Start \in {"fresh", "restored", "steady"}

VARIABLES existing,   \* the files on disk
          listed,     \* the workspace's source files
          parsed,     \* the files with parser state
          walking,    \* files that import walks are indexing
          graph,
          mode,       \* <<relationshipIndexing, dependencyIndexing>>
          timers,     \* generation, handle and the timers armed
          phase,      \* "sweeping", "ready", "rebuilding"
          drain,      \* the queries
          changes     \* events so far

vars == <<existing, listed, parsed, walking, graph, mode, timers, phase, drain, changes>>
world == <<existing, listed, parsed, walking>>

shouldRunBackground == mode[1] = "auto"
AllIndexed(G) == Complete(G, mode[2], listed)
Idle == [at |-> "idle", indexed |-> 0, remaining |-> 0, left |-> {}]
-----------------------------------------------------------------------------
(* scheduleGraphRelationshipIndex() and cancelGraphRelationshipIndex() *)
Arm(T) == [generation |-> T.generation + 1, handle |-> T.generation + 1,
           armed |-> (T.armed \ {T.handle}) \cup {T.generation + 1}]
Schedule(T) == IF shouldRunBackground THEN Arm(T) ELSE T


Cancel(T) == [generation |-> T.generation + 1, handle |-> 0, armed |-> T.armed \ {T.handle}]

(* runBatch(): a timer of the current generation indexes a batch and is    *)
(* armed again until everything is indexed.                                *)
RunBatch(t) ==
  /\ t \in timers.armed
  /\ IF t # timers.generation
     THEN timers' = [timers EXCEPT !.armed = @ \ {t}] /\ UNCHANGED graph
     ELSE /\ \E k \in BatchEnds(graph, parsed) : graph' = Batch(graph, k, parsed, existing)
          /\ timers' = IF AllIndexed(graph')
                       THEN [timers EXCEPT !.handle = 0, !.armed = @ \ {t}]
                       ELSE [timers EXCEPT !.handle = t]
  /\ UNCHANGED <<world, mode, phase, drain, changes>>
-----------------------------------------------------------------------------
(* Files are parsed by the sweep; the imports of a document by its walk,   *)
(* which takes them from the sweep and then updates the graph.             *)
SweepFile(f) ==
  /\ f \in (listed \cap existing) \ (parsed \cup walking)
  /\ parsed' = parsed \cup {f}
  /\ UNCHANGED <<existing, listed, walking, graph, mode, timers, phase, drain, changes>>

(* What a walk from S meets that has to be indexed: it passes through the  *)
(* files that are parsed, to the least set that has what they import.      *)
WalkFrom(S, done) ==
  LET walks == {T \in SUBSET Files : S \subseteq T /\ \A f \in T \cap done : Imports[f] \cap existing \subseteq T}
  IN  {f \in Files : \A T \in walks : f \in T} \ done

WalkDone(f) ==
  /\ f \in walking
  /\ parsed' = parsed \cup (existing \cap {f})
  /\ walking' = (walking \ {f}) \cup WalkFrom({f} \cap existing, parsed')
  /\ graph' = UpdateFile(graph, f, parsed', existing)
  /\ UNCHANGED <<existing, listed, mode, timers, phase, drain, changes>>

(* onInitialized: when the sweep has been through its files, the rest is   *)
(* declared and what is not indexed queued.                                *)
Swept == \A f \in listed \cap existing : f \in parsed \cup walking \cup (IF mode[2] = "disabled" THEN Deps ELSE {})

Initialized ==
  /\ phase = "sweeping" /\ Swept
  /\ graph' = EnsureDeclarations(graph, mode[2], listed, parsed, existing)
  /\ timers' = IF AllIndexed(graph') THEN timers ELSE Schedule(timers)
  /\ phase' = "ready"
  /\ UNCHANGED <<world, mode, drain, changes>>
-----------------------------------------------------------------------------
May(move) == move \in Moves /\ changes < MaxChanges /\ changes' = changes + 1

(* Mutant of RefreshGraph: what was cleared is not queued. *)
RefreshWithoutQueueing(f) ==
  \E list \in DependentLists(graph, f) :
    graph' = UpdateAll(UpdateFile(Outdate(graph, f), f, parsed', existing'), list, parsed', existing')

RefreshGraph(f) ==
  \E list \in DependentLists(graph, f) :
    graph' = RefreshWithDependents(Outdate(graph, f), mode[2], f, list, parsed', existing')

(* onDidChangeContent: the document is opened or edited. *)
OnDidChangeContent(f) ==
  /\ May("edit")
  /\ f \in existing
  /\ parsed' = parsed \cup {f}
  /\ walking' = walking \cup WalkFrom({f}, parsed')
  /\ UNCHANGED existing
  /\ RefreshGraph(f)
  /\ timers' = Schedule(timers)
  /\ UNCHANGED <<listed, mode, phase, drain>>

(* onDidChangeWatchedFiles for a file that is not open: another program    *)
(* has created or deleted it.                                              *)
FileCreated(f) ==
  /\ May("create")
  /\ f \notin existing
  /\ existing' = existing \cup {f}
  /\ parsed' = parsed \cup {f}
  /\ RefreshGraph(f)
  /\ timers' = Schedule(timers)
  /\ UNCHANGED <<listed, walking, mode, phase, drain>>

FileDeleted(f) ==
  /\ May("delete")
  /\ f \in existing \ walking
  /\ existing' = existing \ {f}
  /\ parsed' = parsed \ {f}
  /\ \E list \in DependentLists(graph, f) :
       graph' = RemoveWithDependents(Outdate(graph, f), mode[2], f, list, parsed', existing')
  /\ timers' = Schedule(timers)
  /\ UNCHANGED <<listed, walking, mode, phase, drain>>

(* SearchProjectGraph declares and queues what is missing. *)
Search ==
  /\ May("search")
  /\ graph' = EnsureDeclarations(graph, mode[2], listed, parsed, existing)
  /\ UNCHANGED <<world, mode, timers, phase, drain>>

(* onDidChangeConfiguration: another mode for the dependencies rebuilds    *)
(* the graph, another mode for the relationships starts or stops the       *)
(* background.                                                             *)
OnDidChangeConfiguration(m) ==
  /\ May("config") /\ m # mode
  /\ mode' = m
  /\ graph' = IF m[2] = mode[2] THEN graph ELSE RebuildDeclarations(m[2], listed, parsed, existing)
  /\ LET T == IF m[2] = mode[2] THEN timers ELSE Cancel(timers)
     IN  timers' = IF m[1] # "auto" THEN Cancel(T)
                   ELSE IF Complete(graph', m[2], listed) THEN T ELSE Arm(T)
  /\ UNCHANGED <<world, phase, drain>>

(* foundry.toml, remappings.txt or the folders have changed: the files are *)
(* listed and swept anew and the graph rebuilt.                            *)
Reload ==
  /\ May("reload") /\ phase = "ready"
  /\ listed' = existing
  /\ parsed' = parsed \cup (GraphFiles(mode[2], existing) \ walking)
  /\ graph' = RebuildDeclarations(mode[2], listed', parsed', existing)
  /\ timers' = Schedule(Cancel(timers))
  /\ UNCHANGED <<existing, walking, mode, phase, drain>>

(* RebuildProjectGraph cancels the background, waits for the sweep, and    *)
(* indexes everything at once if it is asked to block and the client has   *)
(* not cancelled.                                                          *)
RebuildStart ==
  /\ May("rebuild") /\ phase = "ready"
  /\ phase' = "rebuilding"
  /\ listed' = existing
  /\ timers' = Cancel(timers)
  /\ UNCHANGED <<existing, parsed, walking, graph, mode, drain>>

RebuildEnd(relationships) ==
  /\ phase = "rebuilding" /\ Swept
  /\ LET G == RebuildDeclarations(mode[2], listed, parsed, existing)
         blocking == relationships = "blocking" /\ mode[1] # "disabled"
     IN  /\ graph' \in IF blocking THEN {G, Batch(G, Len(G.queue), parsed, existing)} ELSE {G}
         /\ timers' = IF ~blocking /\ relationships # "declarationsOnly" /\ ~AllIndexed(graph')
                      THEN Schedule(timers) ELSE timers
  /\ phase' = "ready"
  /\ UNCHANGED <<world, mode, drain, changes>>
-----------------------------------------------------------------------------
(* drainGraphRelationshipIndexForQuery(): the background is cancelled and  *)
(* batches follow each other until all is indexed, the client cancels, or  *)
(* a batch leaves the counts as they were.                                 *)
Finish(q, G, T, canceled) ==
  /\ drain' = [drain EXCEPT ![q] = [Idle EXCEPT !.at = "done", !.left = IF canceled THEN {} ELSE G.queued]]
  /\ timers' = IF AllIndexed(G) THEN T ELSE Schedule(T)

Await(q, G, T) ==
  /\ drain' = [drain EXCEPT ![q] = [at |-> "waiting", left |-> {},
                 indexed |-> Indexed(G, mode[2], listed), remaining |-> Remaining(G, mode[2], listed)]]
  /\ timers' = T

(* A callers or impact query about a declaration in f. *)
QueryStart(q, f) ==
  /\ drain[q].at = "idle"
  /\ LET G == EnsureRelationships(EnsureDeclarations(graph, mode[2], listed, parsed, existing),
                                  f, parsed, existing)
     IN  IF mode[1] = "disabled" \/ AllIndexed(G)
         THEN /\ graph' = G
              /\ drain' = [drain EXCEPT ![q].at = "done"]
              /\ UNCHANGED timers
         ELSE \E k \in BatchEnds(G, parsed) :
                /\ graph' = Batch(G, k, parsed, existing)
                /\ IF AllIndexed(graph') THEN Finish(q, graph', Cancel(timers), FALSE)
                   ELSE Await(q, graph', Cancel(timers))
  /\ UNCHANGED <<world, mode, phase, changes>>

(* Mutant of NoProgress: a drain goes on whatever a batch achieves. *)
NeverGivesUp(q, G) == FALSE

NoProgress(q, G) ==
  /\ drain[q].indexed = Indexed(G, mode[2], listed)
  /\ drain[q].remaining = Remaining(G, mode[2], listed)

QueryStep(q, canceled) ==
  /\ drain[q].at = "waiting"
  /\ \E k \in BatchEnds(graph, parsed) : graph' = Batch(graph, k, parsed, existing)
  /\ IF canceled \/ AllIndexed(graph') \/ NoProgress(q, graph')
     THEN Finish(q, graph', timers, canceled)
     ELSE Await(q, graph', timers)
  /\ UNCHANGED <<world, mode, phase, changes>>
-----------------------------------------------------------------------------
(* The graph as a cache may restore it: the declarations of the files F    *)
(* that have not changed, and the relationships of any of them whose edges *)
(* all end in F.                                                           *)
Restored(m, S) ==
  UNION {{[EmptyGraph EXCEPT
             !.declared = F, !.edges = UNION {{f} \X (Imports[f] \cap F) : f \in F},
             !.indexed = I, !.related = I] :
            I \in SUBSET {f \in RelationshipFiles(m, F) : Imports[f] \subseteq F}} :
         F \in SUBSET GraphFiles(m, S)}

Init ==
  /\ existing = Files \ Missing /\ listed = Files \ Missing
  /\ mode \in Modes
  /\ walking = {}
  /\ timers = [generation |-> 0, handle |-> 0, armed |-> {}]
  /\ drain = [q \in Queries |-> Idle]
  /\ changes = 0
  /\ IF Start = "steady"
     THEN /\ phase = "ready" /\ parsed = listed
          /\ LET G == RebuildDeclarations(mode[2], listed, listed, listed)
             IN  graph = Batch(G, Len(G.queue), listed, listed)
     ELSE /\ phase = "sweeping" /\ parsed = {}
          /\ IF Start = "fresh" THEN graph = EmptyGraph ELSE graph \in Restored(mode[2], listed)

ServerStep ==
  \/ \E t \in timers.armed : RunBatch(t)
  \/ \E f \in Files : SweepFile(f) \/ WalkDone(f)
  \/ Initialized
  \/ \E r \in {"blocking", "background", "declarationsOnly"} : RebuildEnd(r)
  \/ \E q \in Queries, canceled \in BOOLEAN : QueryStep(q, canceled)

UserStep ==
  \/ \E f \in Files : OnDidChangeContent(f) \/ FileCreated(f) \/ FileDeleted(f)
  \/ Search \/ Reload \/ RebuildStart
  \/ \E m \in Modes : OnDidChangeConfiguration(m)
  \/ \E q \in Queries, f \in Files : QueryStart(q, f)

Next == ServerStep \/ UserStep

Spec == Init /\ [][Next]_vars

(* The event loop serves every timer, parse and pending handler in turn;   *)
(* no client has to cancel its query.                                      *)
FairSpec ==
  /\ Spec
  /\ WF_vars(\E t \in timers.armed : RunBatch(t))
  /\ WF_vars(Initialized) /\ WF_vars(\E r \in {"blocking", "background", "declarationsOnly"} : RebuildEnd(r))
  /\ \A f \in Files : WF_vars(SweepFile(f) \/ WalkDone(f))
  /\ \A q \in Queries : WF_vars(QueryStep(q, FALSE))
-----------------------------------------------------------------------------
TypeOK ==
  /\ existing \subseteq Files /\ listed \subseteq Files /\ parsed \subseteq existing
  /\ walking \subseteq existing
  /\ graph \in Graphs
  /\ mode \in Modes
  /\ timers \in [generation : Nat, handle : Nat, armed : SUBSET Nat]
  /\ phase \in {"sweeping", "ready", "rebuilding"}
  /\ drain \in [Queries -> [at : {"idle", "waiting", "done"}, indexed : Nat, remaining : Nat,
                             left : SUBSET Files]]
  /\ changes \in 0 .. MaxChanges

(* The queue and its set of members agree, nothing is queued twice, and    *)
(* nothing is queued that is indexed.                                      *)
QueueMatches ==
  /\ Range(graph.queue) = graph.queued
  /\ Len(graph.queue) = Cardinality(graph.queued)
  /\ graph.queued \cap graph.indexed = {}

(* Once the server has started, a parsed file of the workspace whose       *)
(* relationships are not indexed is queued: edits, deletions, rebuilds,    *)
(* drains and changes of mode lose none.                                   *)
NothingForgotten ==
  phase = "ready" =>
    \A f \in RelationshipFiles(mode[2], listed) \cap parsed : f \in graph.indexed \cup graph.queued

(* The background runs in one chain of timers, and in none while the       *)
(* setting forbids it.                                                     *)
OneBackground == timers.armed \subseteq IF mode[1] = "auto" THEN {timers.handle} ELSE {}

(* Importing leads from f to g, in any number of steps.                    *)
Leads(f, g) == \A S \in SUBSET Files : f \in S /\ (\A x \in S : Imports[x] \subseteq S) => g \in S

(* The edge from f to g may be missing if g was created after the          *)
(* start-up, or if f comes round g to a file behind g, or is behind it: a  *)
(* change of that file updates both, and g may take f's edge with it when  *)
(* its turn comes after f's.                                               *)
Bypassed(f, g) == \E x \in Files \ {g} : Leads(g, x) /\ (x = f \/ \E h \in Imports[f] \ {g} : Leads(h, x))
MayMiss(f, g, created) == g \in created \/ Bypassed(f, g)

(* A file counted as indexed that was there from the start has its         *)
(* relationships in the graph, not just its name off the queue, unless an  *)
(* edge that may be missing is, so that a change behind it goes unnoticed. *)
IndexedHasEdges(created) ==
  \A f \in (RelationshipFiles(mode[2], listed) \cap parsed \cap graph.indexed) \ created :
    f \in graph.related \/ \E g \in Imports[f] : <<f, g>> \notin graph.edges /\ MayMiss(f, g, created)

(* When the graph is reported complete, it is. *)
CompleteIsTrue == phase = "ready" /\ AllIndexed(graph) => RelationshipFiles(mode[2], listed) \cap parsed \subseteq graph.related

(* Nodes and edges are of files that exist and of their texts, and no edge *)
(* of a text is missing but those that may be.                             *)
ImportEdgesMatch(created) ==
  /\ graph.declared \subseteq existing
  /\ \A e \in graph.edges : e[1] \in graph.declared /\ e[2] \in Imports[e[1]] \cap existing
  /\ \A f \in graph.declared : \A g \in Imports[f] \cap existing : <<f, g>> \in graph.edges \/ MayMiss(f, g, created)

(* The background comes to rest when nobody changes anything. *)
BackgroundEnds == timers.armed # {} ~> timers.armed = {}

(* The background comes to rest when nobody changes anything and every     *)
(* listed file exists.                                                     *)
BackgroundRests == timers.armed # {} ~> timers.armed = {} \/ ~(listed \subseteq existing)

(* A query that waits for the queue is answered. *)
DrainsEnd == \A q \in Queries : drain[q].at = "waiting" ~> drain[q].at = "done"

(* A query that was not cancelled leaves nothing in the queue. *)
DrainsAreThorough == \A q \in Queries : drain[q].left = {}
=============================================================================
