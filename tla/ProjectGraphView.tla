--------------------------- MODULE ProjectGraphView ---------------------------
(***************************************************************************)
(* The panel of the project graph: the extension's side (project-graph.ts, *)
(* class ProjectGraphExporter), the page in its webview with its boxes for *)
(* tests and dependencies, and the requests to the server, whose answers   *)
(* come in any order.                                                      *)
(***************************************************************************)
EXTENDS Naturals, Sequences, FiniteSets

CONSTANTS
  Scopes,        \* what the two boxes may include; {} is one of them
  Nodes,         \* nodes of graphs
  NoNode,
  MaxOperations  \* bound: how often the user, or the server, begins something

VARIABLES
  panel,       \* its number, 0 when closed
  page,        \* boxes, scope, active, graph, status and what vscode.setState keeps
  toHost, toPage, \* messages between them, in order
  flags,       \* includeProjectGraphTests, includeProjectGraphDependencies
  visible,     \* projectGraphIndexingVisible
  operations,  \* requests under way
  known,       \* a Solidity position is remembered
  phase,       \* what the server said last
  begun,
  failed, disturbed, prompted  \* history: see the property

view == <<panel, page, toHost, toPage, flags, visible, operations, known, phase, begun, failed, disturbed, prompted>>

Graph(scope, nodes, focus) == [scope |-> scope, nodes |-> nodes, focus |-> focus]
NoGraph == Graph({}, {}, NoNode)
NoPage  == [boxes |-> {}, scope |-> "all", active |-> NoNode, graph |-> NoGraph, status |-> "shown"]

\* What a server may answer to a request of that scope.
Answered(scope) == {Graph(scope, ns, f) : ns \in SUBSET Nodes, f \in Nodes \cup {NoNode}}
Answers(scope) == {g \in Answered(scope) : g.focus \in g.nodes \cup {NoNode}}

Quiet == operations = {} /\ toHost = <<>> /\ toPage = <<>>
Begin == begun < MaxOperations /\ begun' = begun + 1
\* A number that tells an operation from the others, and a panel from those they were begun on.
Free(used) == CHOOSE i \in 1..MaxOperations + 1 : i \notin used
Operation(kind, step, scope) ==
  [id |-> Free({op.id : op \in operations}), kind |-> kind, step |-> step, scope |-> scope, on |-> panel,
   graph |-> NoGraph, cursor |-> FALSE]
Post(m) == toPage' = Append(toPage, m)
Status(text) == [type |-> "status", status |-> text]
SetGraph(g, scope) == [type |-> "setGraph", graph |-> g, scope |-> scope]
-----------------------------------------------------------------------------
\* The page.  Nothing else is under way, or what follows may cross with it.
Sends(kind, boxes) ==
  /\ panel # 0 /\ Begin
  /\ toHost' = Append(toHost, [type |-> kind, scope |-> boxes])
  /\ disturbed' = (disturbed \/ ~Quiet \/ (kind = "rebuild" /\ prompted))
  /\ UNCHANGED <<panel, toPage, flags, visible, operations, known, phase, failed, prompted>>

\* includeTests, includeDependencies.
Toggle ==
  \E b \in Scopes \ {page.boxes} :
    /\ Sends(IF page.scope = "neighbors" THEN "cursor" ELSE "workspace", b)
    /\ page' = [page EXCEPT !.boxes = b, !.status = "busy"]

\* The buttons: search, query, rebuild, clear the cache; whole project, cursor; a path.
Ask ==
  \E kind \in {"search", "query", "rebuild"} :
    Sends(kind, page.boxes) /\ page' = [page EXCEPT !.status = "busy"]
Load ==
  \E kind \in {"workspace", "cursor", "path"} :
    /\ kind = "path" => page.active # NoNode
    /\ Sends(kind, page.boxes) /\ UNCHANGED page

\* A click on a node, a choice of the scope: rendered again, which writes the status too.
Select ==
  /\ panel # 0 /\ page.status = "shown"
  /\ \/ \E n \in page.graph.nodes : page' = [page EXCEPT !.active = n]
     \/ \E s \in {"neighbors", "all"} : page' = [page EXCEPT !.scope = s]
  /\ UNCHANGED <<panel, toHost, toPage, flags, visible, operations, known, phase, begun, failed, disturbed, prompted>>

\* setGraph.
Focused(p, g) ==
  IF g.focus # NoNode THEN g.focus ELSE IF p.active \in g.nodes THEN p.active ELSE NoNode
PageReceives ==
  /\ toPage # <<>>
  /\ LET m == Head(toPage) IN
     page' = IF m.type = "status" THEN [page EXCEPT !.status = m.status]
             ELSE [page EXCEPT !.graph = m.graph, !.active = Focused(page, m.graph),
                               !.scope = m.scope, !.status = "shown"]
  /\ toPage' = Tail(toPage)
  /\ UNCHANGED <<panel, toHost, flags, visible, operations, known, phase, begun, failed, disturbed, prompted>>
-----------------------------------------------------------------------------
\* postCursorNeighborhood: nothing is asked without a remembered position.
CursorFrom(ops, op, scope) ==
  IF known THEN operations' = ops \cup {[op EXCEPT !.kind = "cursor", !.step = "graph", !.scope = scope]} /\ UNCHANGED toPage
  ELSE operations' = ops /\ Post(Status("shown"))

\* Mutant of FlagsFrom: the scope of a message is not kept.
FlagsKept(m) == flags' = flags /\ prompted' = prompted

\* scopeFromMessage.
FlagsFrom(m) ==
  IF m.type = "rebuild" THEN UNCHANGED <<flags, prompted>> ELSE flags' = m.scope /\ prompted' = FALSE

(* onDidReceiveMessage. *)
HostReceives ==
  /\ toHost # <<>>
  /\ LET m  == Head(toHost)
         op == Operation(m.type, IF m.type = "rebuild" THEN "rebuild" ELSE "graph", m.scope)
     IN  /\ FlagsFrom(m)
         /\ IF m.type = "cursor" THEN CursorFrom(operations, op, m.scope)
            ELSE operations' = operations \cup {op} /\ UNCHANGED toPage
         /\ disturbed' = (disturbed \/ (m.type = "cursor" /\ ~known))
  /\ toHost' = Tail(toHost)
  /\ UNCHANGED <<panel, page, visible, known, phase, begun, failed>>

Waiting(op, step) == op \in operations /\ op.step = step
Others(op) == operations \ {op}
Settles(op, message) == operations' = Others(op) /\ IF panel # 0 THEN Post(message) ELSE UNCHANGED toPage

(* An answer with a graph: a search, a query, a path may have found nothing;
   the panel of a cursor's neighbourhood is taken before the statistics are
   asked for; an empty neighbourhood of a new panel asks for the whole graph. *)
GraphAnswered(op) ==
  /\ Waiting(op, "graph")
  /\ \/ op.kind \in {"search", "query", "path"} /\ Settles(op, Status("shown"))
     \/ \E g \in Answers(op.scope) :
          /\ UNCHANGED toPage
          /\ IF op.kind = "cursor" /\ panel = 0 THEN operations' = Others(op)
             ELSE operations' = Others(op) \cup {[op EXCEPT !.graph = g, !.on = panel,
                    !.step = IF op.kind = "show" /\ g.nodes = {} THEN "whole" ELSE "stats"]}
  /\ UNCHANGED <<panel, page, toHost, flags, visible, known, phase, begun, failed, disturbed, prompted>>
WholeAnswered(op) ==
  /\ Waiting(op, "whole")
  /\ \E g \in Answers(op.scope) : operations' = Others(op) \cup {[op EXCEPT !.graph = g, !.step = "stats"]}
  /\ UNCHANGED <<panel, page, toHost, toPage, flags, visible, known, phase, begun, failed, disturbed, prompted>>

\* A cursor's neighbourhood goes to the panel it was made for, if that is still there.
StatsAnswered(op) ==
  /\ Waiting(op, "stats") /\ op.kind # "show"
  /\ IF op.kind = "cursor" /\ op.on # panel THEN operations' = Others(op) /\ UNCHANGED toPage
     ELSE Settles(op, SetGraph(op.graph, IF op.kind = "cursor" THEN "neighbors" ELSE "all"))
  /\ UNCHANGED <<panel, page, toHost, flags, visible, known, phase, begun, failed, disturbed, prompted>>

\* rebuildProjectGraph, clearProjectGraphCache: the scope is the one of that time.
Rebuilt(op) ==
  /\ Waiting(op, "rebuild")
  /\ IF panel = 0 THEN operations' = Others(op) /\ UNCHANGED toPage ELSE CursorFrom(Others(op), op, flags)
  /\ UNCHANGED <<panel, page, toHost, flags, visible, known, phase, begun, failed, disturbed, prompted>>

\* A request that is rejected ends its handler.
Fails(op) ==
  /\ op \in operations /\ operations' = Others(op) /\ failed' = TRUE /\ disturbed' = TRUE
  /\ UNCHANGED <<panel, page, toHost, toPage, flags, visible, known, phase, begun, prompted>>
-----------------------------------------------------------------------------
\* showProjectGraph, up to its first request.
Show ==
  \E s \in Scopes, cursor \in BOOLEAN :
    /\ Begin
    /\ flags' = s /\ prompted' = FALSE
    /\ operations' = operations \cup {[Operation("show", IF known THEN "graph" ELSE "whole", s) EXCEPT !.cursor = cursor /\ known]}
    /\ disturbed' = (disturbed \/ ~Quiet)
    /\ UNCHANGED <<panel, page, toHost, toPage, visible, known, phase, failed>>

(* And its end: nothing at all in the workspace, or the page is built anew,
   in the panel or a new one, and keeps what setState has kept for the panel. *)
ShowEnds(op) ==
  /\ Waiting(op, "stats") /\ op.kind = "show"
  /\ \/ op.graph.nodes = {} /\ operations' = Others(op) /\ disturbed' = TRUE /\ UNCHANGED <<panel, page, toPage>>
     \/ LET kept   == IF panel = 0 THEN NoNode ELSE page.active
            active == IF kept \in op.graph.nodes THEN kept ELSE op.graph.focus
            scope  == IF panel # 0 THEN page.scope ELSE IF active # NoNode THEN "neighbors" ELSE "all"
        IN  /\ panel' = IF panel = 0 THEN Free({o.on : o \in operations}) ELSE panel
            /\ page' = [boxes |-> flags, scope |-> scope, active |-> active, graph |-> op.graph, status |-> "shown"]
            /\ toPage' = <<>>
            /\ operations' = Others(op) \cup (IF op.cursor THEN {[op EXCEPT !.kind = "cursor", !.step = "graph", !.scope = flags]} ELSE {})
            /\ UNCHANGED disturbed
  /\ UNCHANGED <<toHost, flags, visible, known, phase, begun, failed, prompted>>

\* onDidDispose.
Close ==
  /\ panel # 0 /\ panel' = 0 /\ page' = NoPage /\ flags' = {} /\ visible' = FALSE
  /\ toHost' = <<>> /\ toPage' = <<>>
  /\ disturbed' = (operations # {})
  /\ prompted' = FALSE
  /\ UNCHANGED <<operations, known, phase, begun, failed>>

\* promptProjectGraphScope, of a search, a query, an export and their commands.
Prompt ==
  \E s \in Scopes :
    /\ Begin /\ flags' = s /\ prompted' = TRUE
    /\ disturbed' = (disturbed \/ ~Quiet)
    /\ UNCHANGED <<panel, page, toHost, toPage, visible, operations, known, phase, failed>>
Remember == ~known /\ known' = TRUE /\ UNCHANGED <<panel, page, toHost, toPage, flags, visible, operations, phase, begun, failed, disturbed, prompted>>

\* applyServerStateToProjectGraph.
ServerState ==
  /\ Begin /\ phase' \in {"indexing", "idle"}
  /\ IF panel = 0 THEN UNCHANGED <<visible, toPage>>
     ELSE \/ phase' = "indexing" /\ visible' = TRUE /\ Post(Status("indexing"))
          \/ phase' = "idle" /\ visible /\ visible' = FALSE /\ Post(Status("shown"))
          \/ phase' = "idle" /\ ~visible /\ UNCHANGED <<visible, toPage>>
  /\ UNCHANGED <<panel, page, toHost, flags, operations, known, failed, disturbed, prompted>>

\* Before the first show, or some time after it.
Init ==
  /\ \/ panel = 0 /\ page = NoPage
     \/ panel = 1 /\ page = [NoPage EXCEPT !.graph = Graph({}, Nodes, NoNode)]
  /\ toHost = <<>> /\ toPage = <<>> /\ flags = {} /\ visible = FALSE
  /\ operations = {} /\ known \in BOOLEAN /\ phase = "idle" /\ begun = 0
  /\ failed = FALSE /\ disturbed = FALSE /\ prompted = FALSE

Next ==
  \/ Toggle \/ Ask \/ Load \/ Select \/ PageReceives \/ HostReceives
  \/ \E op \in operations : GraphAnswered(op) \/ WholeAnswered(op) \/ StatsAnswered(op) \/ Rebuilt(op) \/ Fails(op) \/ ShowEnds(op)
  \/ Show \/ Close \/ Prompt \/ Remember \/ ServerState
-----------------------------------------------------------------------------
(* Once nothing is under way in an open panel: the page does not say that it
   waits for something, unless a request failed, or that the server indexes
   after it has said it is idle; the selected node is of the graph; and the
   graph has what the boxes say, unless operations crossed, one failed or had
   no position to start from, or a command chose a scope before a rebuild. *)
ShowsWhatBoxesSay ==
  panel # 0 /\ Quiet =>
    /\ page.status = "busy" => failed
    /\ page.status = "indexing" => phase = "indexing"
    /\ page.active \in page.graph.nodes \cup {NoNode}
    /\ disturbed \/ page.graph.scope = page.boxes
=============================================================================
