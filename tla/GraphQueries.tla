--------------------------- MODULE GraphQueries ---------------------------
(***************************************************************************)
(* Queries on the project graph.  The nodes, the files' containment and    *)
(* the inheritance of contracts are known from the declarations; the       *)
(* relationships of a file only once it is indexed.  Files wait for that   *)
(* in a queue, where dependencies are only if a setting says so; a walk    *)
(* along the edges indexes each file it comes to, any other one the queue. *)
(* A scope hides the tests and the dependencies.                           *)
(***************************************************************************)
EXTENDS Naturals, Sequences, FiniteSets, SequencesExt

CONSTANTS
  Graphs,     \* the graphs that are tried: nodes, declared edges and relationships
  Requests,   \* the requests that are tried
  Indexed,    \* sets of files that may be indexed before the request, by a batch or on demand
  NoNode,
  Filters,      \* choices of the page's controls: [scope, kind, text, kinds, quality, limit]
  DefaultEdges  \* the kinds of edges that are checked at first

VARIABLES
  graph,      \* [nodes, order, declared, related, dependencyIndexing]
  relationships, \* [indexed, queue]: relationshipIndexedUris and relationshipQueue, whose order does not matter here
  request, response,
  shown       \* what the page shows of the answer

queryVars == <<graph, relationships, request, response>>
vars == <<queryVars, shown>>

NodeIds == DOMAIN graph.nodes
Of(id)  == graph.nodes[id]
Uris    == {Of(id).uri : id \in NodeIds}
Related(U) == {e \in graph.related : Of(e.source).uri \in U}
EdgesOf(U) == graph.declared \cup Related(U)

ContractLike(id) == Of(id).kind \in {"contract", "interface", "library"}
Callable(id) == Of(id).kind \in {"function", "constructor", "receive", "fallback", "modifier"}

-----------------------------------------------------------------------------
IsFoundryTestBase(id) == ContractLike(id) /\ Of(id).name = "Test" /\ (Of(id).tier = "tests" \/ Of(id).forgeStd)

(* extendsFoundryTest: a base outside the graph is judged by its name and by
   what the resolver said of it. *)
ExtendsFoundryTest(id, excluded) ==
  \E e \in graph.declared :
    /\ e.kind = "inherits" /\ e.source = id
    /\ IF e.target \notin NodeIds THEN e.baseLeaf = "Test" /\ e.test
       ELSE \/ IsFoundryTestBase(e.target)
            \/ Of(e.target).tier = "tests"
            \/ e.target \in excluded /\ Of(e.target).tier # "deps"

Contained(id) ==
  {e.target : e \in {d \in graph.declared : d.kind = "contains" /\ d.source = id}}

(* One reason for hiding a node, given what is hidden already. *)
Hides(scope, id, excluded) ==
  \/ Of(id).tier = "tests" /\ ~scope.tests
  \/ Of(id).tier = "deps" /\ ~scope.dependencies
  \/ /\ ~scope.tests /\ ContractLike(id)
     /\ \/ ExtendsFoundryTest(id, excluded)
        \/ /\ Of(id).name = "Test"
           /\ \E e \in graph.declared : e.kind = "inherits" /\ e.target = id /\ e.source \in excluded
  \/ Of(id).container \in excluded
  \/ Of(id).kind = "file" /\ Contained(id) # {} /\ Contained(id) \subseteq excluded

(* Mutant of ExcludedGraphNodeIds: one pass. *)
ExcludedInOnePass(scope) ==
  FoldLeft(LAMBDA ex, id : IF Hides(scope, id, ex) THEN ex \cup {id} ELSE ex, {}, graph.order)

(* excludedGraphNodeIds: passes over the nodes, in the order they were added,
   until one changes nothing.  A pass hides what it finds at once. *)
ExcludedGraphNodeIds(scope) ==
  LET pass(ex)  == FoldLeft(LAMBDA x, id : IF Hides(scope, id, x) THEN x \cup {id} ELSE x, ex, graph.order)
      after[k \in 0..Len(graph.order)] == IF k = 0 THEN {} ELSE UNION {pass(ex) : ex \in {after[k - 1]}}
  IN  IF scope.tests /\ scope.dependencies THEN {} ELSE after[Len(graph.order)]
-----------------------------------------------------------------------------
\* An edge of an allowed kind between n and another node, in the direction asked for.
ConnectedEdges(E, n, direction, kinds) ==
  {e \in E : /\ e.kind \in kinds
             /\ \/ direction # "incoming" /\ e.source = n
                \/ direction # "outgoing" /\ e.target = n}

Other(e, n) == IF e.source = n THEN e.target ELSE e.source

\* Nodes one after another: in the code as they were met, here as they were added.
OneByOne(S) == SelectSeq(graph.order, LAMBDA n : n \in S)

\* relationshipFileUris: dependencies are among them only in the mode "relationships"; without a mode they have no nodes.
RelationshipFileUris ==
  {Of(id).uri : id \in {n \in NodeIds : graph.dependencyIndexing = "relationships" \/ Of(n).tier # "deps"}}

\* ensureWorkspaceDeclarations, before searches and queries: what is not indexed is queued.
Enqueued(R) == [R EXCEPT !.queue = @ \cup (RelationshipFileUris \ R.indexed)]
\* ensureFileRelationships: a file is indexed ahead of its turn, whatever the mode.
EnsureFiles(R, uris) == [indexed |-> R.indexed \cup uris, queue |-> R.queue \ uris]
\* Outgoing walks: the node's file is indexed before its edges are read.
EnsureFor(R, n, direction) == IF direction = "outgoing" THEN EnsureFiles(R, {Of(n).uri}) ELSE R

\* ensureRelationshipIndexComplete, before walks that are not outgoing: the queue is emptied.
Drained(R) == EnsureFiles(R, R.queue)
EnsureComplete(R, direction) == IF direction = "outgoing" THEN R ELSE Drained(R)

(* One hop of toNeighborhood: the nodes of the frontier one after another,
   up to the limit.  w: [known, included, next, truncated]. *)
Hop(w, r, excluded) ==
  FoldLeft(
    LAMBDA x, n :
      LET R   == EnsureFor(x.known, n, r.direction)
          found == {Other(e, n) : e \in ConnectedEdges(EdgesOf(R.indexed), n, r.direction, r.kinds)}
          new  == (found \cap NodeIds) \ (x.included \cup excluded)
          room == r.maxNodes - Cardinality(x.included)
          kept == IF Cardinality(new) <= room THEN new
                  ELSE CHOOSE S \in SUBSET new : Cardinality(S) = room
      IN  [known |-> R, included |-> x.included \cup kept, next |-> x.next \cup kept,
           truncated |-> x.truncated \/ kept # new],
    [w EXCEPT !.next = {}], OneByOne(w.next))

(* The containers of what was included.  The limit is looked at before the
   container is, so a full answer counts as truncated. *)
WithContainers(w, r, excluded) ==
  FoldLeft(
    LAMBDA x, n :
      LET c == Of(n).container
      IN  IF c \notin NodeIds \/ c \in excluded THEN x
          ELSE IF Cardinality(x.included) >= r.maxNodes THEN [x EXCEPT !.truncated = TRUE]
          ELSE [x EXCEPT !.included = @ \cup {c}],
    w, OneByOne(w.included))

Nothing(r, R) == [nodes |-> {}, edges |-> {}, found |-> FALSE, truncated |-> FALSE, known |-> R]

(* toNeighborhood. *)
Found(w, r) ==
  [nodes |-> w.included,
   edges |-> {e \in EdgesOf(w.known.indexed) : {e.source, e.target} \subseteq w.included /\ e.kind \in r.kinds},
   found |-> TRUE, truncated |-> w.truncated, known |-> w.known]

Around(r, R, excluded) ==
  LET start == [known |-> EnsureComplete(R, r.direction), included |-> {r.root}, next |-> {r.root},
                truncated |-> FALSE]
      walk[k \in 0..r.depth] == IF k = 0 THEN start ELSE Hop(walk[k - 1], r, excluded)
  IN  IF r.root \notin NodeIds \ excluded THEN Nothing(r, R)
      ELSE Found(IF r.containers THEN WithContainers(walk[r.depth], r, excluded) ELSE walk[r.depth], r)

Neighborhood(r, R) == Around(r, R, ExcludedGraphNodeIds(r.scope))
-----------------------------------------------------------------------------
(* toShortestPath: breadth first, one queue; a node is visited when it is put
   on the queue.  q: [known, visited, queue, path], where path is the answer. *)
PathStep(q, r, excluded) ==
  LET cur == Head(q.queue)
      R   == EnsureFor(q.known, cur.node, r.direction)
      new == {e \in ConnectedEdges(EdgesOf(R.indexed), cur.node, r.direction, r.kinds) :
                Other(e, cur.node) \in NodeIds \ (q.visited \cup excluded)}
      ends == {e \in new : Other(e, cur.node) = r.to}
      nexts == OneByOne({Other(e, cur.node) : e \in new})
      \* one edge to each new node
      first(n) == CHOOSE e \in new : Other(e, cur.node) = n
  IN  IF Len(cur.path) >= r.depth THEN [q EXCEPT !.queue = Tail(@)]
      ELSE IF ends # {}
      THEN [q EXCEPT !.known = R, !.queue = <<>>, !.path = Append(cur.path, CHOOSE e \in ends : TRUE)]
      ELSE [q EXCEPT !.known = R,
                     !.visited = @ \cup ToSet(nexts),
                     !.queue = Tail(@) \o [i \in DOMAIN nexts |->
                                              [node |-> nexts[i], path |-> Append(cur.path, first(nexts[i]))]]]

ShortestPath(r, R) ==
  LET excluded == ExcludedGraphNodeIds(r.scope)
      ends  == {r.root, r.to}
      ensured == EnsureFiles(R, {Of(n).uri : n \in ends})
      start == [known |-> EnsureComplete(ensured, r.direction), visited |-> {r.root},
                queue |-> <<[node |-> r.root, path |-> <<>>]>>, path |-> <<>>]
      next(q) == IF q.queue = <<>> THEN q ELSE PathStep(q, r, excluded)
      run[k \in 0..Cardinality(NodeIds) + 1] == IF k = 0 THEN start ELSE next(run[k - 1])
      end == run[Cardinality(NodeIds) + 1]
  IN  IF ~(ends \subseteq NodeIds) \/ ends \cap excluded # {} THEN Nothing(r, R)
      ELSE IF r.root = r.to THEN [Nothing(r, ensured) EXCEPT !.nodes = ends, !.found = TRUE]
      ELSE [nodes |-> ends \cup UNION {{e.source, e.target} : e \in ToSet(end.path)},
            edges |-> ToSet(end.path), found |-> end.path # <<>>, truncated |-> FALSE, known |-> end.known]
-----------------------------------------------------------------------------
Precedes(p, q) == p[1] < q[1] \/ (p[1] = q[1] /\ p[2] < q[2])

(* Search ranks by score, then tier, then name; a query takes the first match
   it allows. *)
Allowed(r, id) ==
  /\ Of(id).kind \in r.targetKinds
  /\ r.kind # "callers" \/ Of(id).kind # "stateVariable" \/ Of(id).publicGetter

Ranked(r, a, b) ==
  LET key(id) == <<100 - r.score[id], CASE Of(id).tier = "project" -> 0 [] Of(id).tier = "tests" -> 1
                                        [] OTHER -> 2>>
  IN  Precedes(key(a), key(b))

Targets(r) == {id \in NodeIds \ ExcludedGraphNodeIds(r.scope) : r.score[id] > 0 /\ Allowed(r, id)}

\* resolveGraphQueryTarget: a best one, names as the order happens to be.
Target(r) == IF Targets(r) = {} THEN NoNode
             ELSE CHOOSE id \in Targets(r) : \A other \in Targets(r) : ~Ranked(r, other, id)

QueryDirection(kind) == IF kind = "callees" THEN "outgoing" ELSE "incoming"

(* query: the target's neighbourhood, at one hop or two.  What it must know
   is indexed first. *)
Query(r, R) ==
  LET of(t) == IF t = NoNode THEN Nothing(r, R)
               ELSE Neighborhood([r EXCEPT !.root = t, !.direction = QueryDirection(r.kind)],
                                 IF r.kind = "callees" THEN EnsureFiles(R, {Of(t).uri}) ELSE Drained(R))
  IN  of(Target(r))
-----------------------------------------------------------------------------
(* prioritizeGraphNodes: the project before its tests and dependencies, then
   files, contracts, types, callables; names as they happen to be. *)
Priority(id) ==
  <<CASE Of(id).tier = "project" -> 0 [] Of(id).tier = "tests" -> 1 [] Of(id).tier = "deps" -> 2 [] OTHER -> 3,
    CASE Of(id).kind = "file" -> 0 [] ContractLike(id) -> 1
      [] Of(id).kind \in {"struct", "enum", "userDefinedValueType"} -> 2 [] Callable(id) -> 3 [] OTHER -> 4>>

\* The first n of a set in some order of priority.
Foremost(S, n) ==
  CHOOSE T \in SUBSET S : /\ Cardinality(T) = IF Cardinality(S) <= n THEN Cardinality(S) ELSE n
                          /\ \A a \in T, b \in S \ T : ~Precedes(Priority(b), Priority(a))

\* graphEdgeEndpointsVisible.
Within(E, S) == {e \in E : {e.source, e.target} \subseteq S}

(* toProjectGraph: what is indexed is shown, nothing is indexed for it. *)
ProjectGraph(r, R) ==
  LET visible == NodeIds \ ExcludedGraphNodeIds(r.scope)
      kept  == Foremost(visible, r.maxNodes)
  IN  [nodes |-> kept, edges |-> Within({e \in EdgesOf(R.indexed) : e.kind \in r.kinds}, kept),
       found |-> TRUE, truncated |-> kept # visible, known |-> R]

(* search: the best matches that the scope shows, with the edges around them
   that are known. *)
Search(r, R) ==
  LET visible == NodeIds \ ExcludedGraphNodeIds(r.scope)
      ranked  == {id \in visible : Of(id).kind \in r.targetKinds /\ r.score[id] > 0}
      matches == CHOOSE T \in SUBSET ranked :
                   /\ Cardinality(T) = IF Cardinality(ranked) <= r.maxNodes THEN Cardinality(ranked) ELSE r.maxNodes
                   /\ \A a \in T, b \in ranked \ T : ~Ranked(r, b, a)
      around(id) == Within(ConnectedEdges(EdgesOf(R.indexed), id, r.direction, r.kinds), visible)
  IN  [nodes |-> matches, edges |-> UNION {around(id) : id \in matches},
       found |-> matches # {}, truncated |-> matches # ranked, known |-> R]
-----------------------------------------------------------------------------
\* The handlers of the server.  A node that is asked for by its place has its file indexed.
Placed(r, R) == IF r.placed THEN EnsureFiles(R, {Of(n).uri : n \in {r.root, r.to} \cap NodeIds}) ELSE R
Answer(r, R) ==
  CASE r.method = "neighborhood" -> Neighborhood(r, Placed([r EXCEPT !.to = NoNode], R))
    [] r.method = "path"         -> ShortestPath(r, Placed(r, R))
    [] r.method = "query"        -> Query(r, Enqueued(R))
    [] r.method = "graph"        -> ProjectGraph(r, R)
    [] r.method = "search"       -> Search(r, Enqueued(R))

(* After the start-up, what is not indexed is queued (QueueIsDriven). *)
Init ==
  /\ graph \in Graphs
  /\ \E I \in Indexed : relationships = Enqueued([indexed |-> I \cap Uris, queue |-> {}])
  /\ request = NoNode /\ response = NoNode /\ shown = NoNode

(* A request is answered; what it indexed stays indexed. *)
Becomes(answer) == response' = answer /\ relationships' = answer.known

Ask(r) ==
  /\ request = NoNode
  /\ r.root \in NodeIds \cup {NoNode}
  /\ request' = r /\ Becomes(Answer(r, relationships))
  /\ UNCHANGED <<graph, shown>>
-----------------------------------------------------------------------------
\* The nodes a scope hides: the least set that hides what any reason hides, whose levels depend on no order.
Hidden(scope) ==
  LET grown(S) == S \cup {n \in NodeIds : Hides(scope, n, S)}
      level[k \in 0..Cardinality(NodeIds)] == IF k = 0 THEN {} ELSE grown(level[k - 1])
  IN  IF scope.tests /\ scope.dependencies THEN {} ELSE level[Cardinality(NodeIds)]

(* The files whose relationships count: of all files along the edges; in other
   directions of those that the setting names, and of a dependency that was
   indexed before or that the request names. *)
Counted(direction) == IF direction = "outgoing" THEN Uris ELSE RelationshipFileUris \cup relationships.indexed

\* What walks of at most k steps from the root reach, over the relationships that count.
Walk(r, root, direction, k) ==
  LET visible == NodeIds \ Hidden(r.scope)
      along  == {e \in EdgesOf(Counted(direction)) : e.kind \in r.kinds}
      farther(S) == S \cup {n \in visible : \E e \in along :
                              \/ direction # "incoming" /\ e.source \in S /\ e.target = n
                              \/ direction # "outgoing" /\ e.source = n /\ e.target \in S}
      within[j \in 0..k] == IF j = 0 THEN {root} \cap visible ELSE farther(within[j - 1])
  IN  within[k]

(* A neighbourhood that is not truncated has the nodes within so many hops
   among those the scope shows, and their containers; a truncated one is part
   of it, within the limit. *)
NeighborhoodIsWhole ==
  request.method \in {"neighborhood", "query"} /\ response.found =>
    LET root == IF request.method = "query" THEN Target(request) ELSE request.root
        dir  == IF request.method = "query" THEN QueryDirection(request.kind) ELSE request.direction
        near == Walk(request, root, dir, request.depth)
        all  == near \cup (IF request.containers
                           THEN ({Of(n).container : n \in near} \cap NodeIds) \ Hidden(request.scope) ELSE {})
    IN  /\ response.nodes \subseteq all
        /\ Cardinality(response.nodes) <= request.maxNodes
        /\ ~response.truncated => response.nodes = all

(* A path is found exactly when there is one of the length allowed, and it is
   a shortest one. *)
PathIsShortest ==
  request.method = "path" =>
    LET reaches(k) == request.to \in Walk(request, request.root, request.direction, k)
        visible == {request.root, request.to} \cap Hidden(request.scope) = {}
    IN  /\ response.found <=> visible /\ reaches(request.depth)
        /\ response.found => \A k \in 0..Cardinality(response.edges) - 1 : ~reaches(k)

(* Queries index files as they go, hide nodes for reasons that depend on one
   another, and stop at limits.  Whatever was queued or indexed before, an
   answer is the one that the relationships give which the setting promises,
   along the edges those of every file; and no answer shows, in a node or an
   edge, what the scope hides. *)
AnswersFitTheGraph ==
  request # NoNode =>
    /\ NeighborhoodIsWhole /\ PathIsShortest
    /\ \A hidden \in {Hidden(request.scope)} :
         /\ response.nodes \cap hidden = {}
         /\ \A e \in response.edges : {e.source, e.target} \cap hidden = {}
-----------------------------------------------------------------------------
(***************************************************************************)
(* What the page of the project graph (the script in project-graph.ts) and *)
(* the lists of the extension make of an answer of the server: filters by  *)
(* scope, kind, text, edges and their quality, and a limit of nodes.       *)
(***************************************************************************)
\* searchResultToProjectGraph: the matches and what their edges lead to.
PageGraph ==
  IF request.method = "search"
  THEN LET all == response.nodes \cup (UNION {{e.source, e.target} : e \in response.edges} \cap NodeIds)
       IN  [nodes |-> all, edges |-> Within(response.edges, all)]
  ELSE [nodes |-> response.nodes, edges |-> response.edges]

Lane(n) ==
  CASE Of(n).kind = "file" -> 0
    [] ContractLike(n) \/ Of(n).kind \in {"struct", "enum", "userDefinedValueType"} -> 1
    [] Callable(n) -> 2
    [] OTHER -> 3

\* matchesScope, matchesNodeKind, edgeMatchesQuality.
MatchesScope(f, n) ==
  CASE f.scope = "project" -> Of(n).tier = "project"
    [] f.scope = "contracts" -> ContractLike(n)
    [] f.scope = "callables" -> Lane(n) = 2
    [] f.scope = "state" -> Lane(n) = 3 \/ Of(n).kind \in {"struct", "enum", "userDefinedValueType"}
    [] OTHER -> TRUE
MatchesKind(f, n) == f.kind = "all" \/ Of(n).kind = f.kind
MatchesQuality(f, e) ==
  CASE f.quality = "all" -> TRUE [] f.quality = "unresolved" -> e.unresolved [] OTHER -> e.quality = f.quality

\* What the checked edges join to S, in either direction.
Adjacent(f, g, S) ==
  {n \in g.nodes : MatchesKind(f, n) /\ \E e \in g.edges :
     /\ e.kind \in f.kinds /\ MatchesQuality(f, e)
     /\ \/ e.source \in S /\ e.target = n
        \/ e.target \in S /\ e.source = n}

(* visibleNodeState, before the limit. *)
Candidates(f, g, active) ==
  LET found(n) == f.text = {} \/ n \in f.text
      once == {active} \cup Adjacent(f, g, {active})
      near == once \cup Adjacent(f, g, once)
      direct == {n \in g.nodes : MatchesScope(f, n) /\ MatchesKind(f, n) /\ found(n)}
  IN  IF f.scope = "neighbors" /\ active # NoNode THEN {n \in near : n = active \/ found(n)}
      ELSE direct \cup Adjacent(f, g, direct)

\* compareNodes: lanes, then tiers, then names.
Earlier(a, b) ==
  LET key(n) == <<Lane(n), CASE Of(n).tier = "project" -> 0 [] Of(n).tier = "tests" -> 1 [] OTHER -> 2>>
  IN  \/ Precedes(key(a), key(b))
      \/ key(a) = key(b) /\ SelectInSeq(graph.order, LAMBDA n : n = a) < SelectInSeq(graph.order, LAMBDA n : n = b)

\* cappedNodeState: the first so many.
Capped(f, S) == {n \in S : Cardinality({m \in S : Earlier(m, n)}) < f.limit}

\* render.
Rendered(f, g, active) ==
  LET all == Candidates(f, g, active)
      ids == Capped(f, all)
  IN  [nodes |-> ids, hidden |-> Cardinality(all) - Cardinality(ids), filter |-> f, active |-> active,
       edges |-> {e \in Within(g.edges, ids) : e.kind \in f.kinds /\ MatchesQuality(f, e)}]

\* queryResultNodes: the ends of the target's edges, or else all the others.
ListedNodes(r) ==
  LET t == Target(r)
      ends == IF r.kind = "callees" THEN {e.target : e \in {d \in response.edges : d.source = t}}
              ELSE {e.source : e \in {d \in response.edges : d.target = t}}
  IN  IF ends \cap response.nodes # {} THEN ends \cap response.nodes ELSE response.nodes \ {t}

Render ==
  /\ request # NoNode /\ response.found /\ shown = NoNode
  /\ \E f \in Filters : shown' = Rendered(f, PageGraph, IF request.root \in response.nodes THEN request.root ELSE NoNode)
  /\ UNCHANGED queryVars

Next == Render \/ \E r \in Requests : Ask(r)

Spec == Init /\ [][Next]_vars
-----------------------------------------------------------------------------
(* The server walks the edges a request names and the page walks those that
   are checked, which is no less.  With no filter set, all of an answer is
   rendered but what the limit leaves out, counted, and the containers that
   only complete a neighbourhood; an edge is rendered if and only if its ends
   are and its kind and quality are checked; no filter adds a candidate; a
   declaration that a list of callers or callees offers is joined to the
   target, if any is; and only nodes of the answer and ends of its edges are
   rendered, none of which the scope hides. *)
PageFitsTheAnswer ==
  shown # NoNode =>
    LET f    == shown.filter
        g    == PageGraph
        open == [f EXCEPT !.kind = "all", !.text = {}, !.quality = "all", !.kinds = DefaultEdges]
        all  == Candidates(open, g, shown.active)
        near == Walk(request, request.root, request.direction, request.depth)
    IN  /\ f.scope = "neighbors" => Candidates(f, g, shown.active) \subseteq all \cup {shown.active}
        /\ Cardinality(shown.nodes) + shown.hidden = Cardinality(Candidates(f, g, shown.active))
        /\ \A e \in g.edges : e \in shown.edges <=>
             {e.source, e.target} \subseteq shown.nodes /\ e.kind \in f.kinds /\ MatchesQuality(f, e)
        /\ request.method = "neighborhood" /\ request.kinds \subseteq DefaultEdges /\ ~response.truncated =>
             near \subseteq Candidates([open EXCEPT !.scope = "neighbors"], g, request.root)
        /\ request.method # "neighborhood" => g.nodes \subseteq Candidates([open EXCEPT !.scope = "all"], g, NoNode)
        /\ request.method = "query" => \/ ListedNodes(request) = response.nodes \ {Target(request)}
                                       \/ \A n \in ListedNodes(request) : \E e \in response.edges :
                                            {e.source, e.target} = {n, Target(request)}
        /\ shown.nodes \subseteq g.nodes
=============================================================================
