--------------------------- MODULE CallHierarchy ---------------------------
(***************************************************************************)
(* The call hierarchy: who calls a function, and what it calls.  An answer *)
(* comes from the project graph when it has the function, else from an     *)
(* index of call sites that the provider keeps: files are indexed when a   *)
(* request needs them, some at a time, and are dropped when they change.   *)
(*                                                                         *)
(* A text is [imports, contracts, free, calls]: a contract has name, bases *)
(* and members; a call has at (its place), caller, container, name,        *)
(* qualifier, resolves (what it is a call of, a <<file, container, name>>) *)
(* and mod (it is in a header, by a modifier's name).                      *)
(***************************************************************************)
EXTENDS Naturals, Sequences, FiniteSets, SequencesExt

CONSTANTS
  Files,
  Texts,        \* for every file, the texts it may have
  NoText, None,
  Requests,     \* the requests that may be under way together
  BatchSize,    \* files indexed, or related, before others may run
  Names,        \* the names that are asked for
  MaxAsks     \* bound: questions and changes of files

VARIABLES
  texts,
  graphed,      \* files whose functions the project graph has
  compiled,     \* files the compiler resolves the calls of
  pending,      \* files whose relationships the graph has not indexed
  incomingCalls, outgoingCalls, incomingByFile, outgoingByFile,
  indexedFiles,
  workspaceIndex,   \* the indexing all requests share: [todo, owner], or None
  requests, asks

indexVars == <<incomingCalls, outgoingCalls, incomingByFile, outgoingByFile, indexedFiles>>
hierarchyVars == <<texts, graphed, compiled, pending, indexVars, workspaceIndex, requests, asks>>

Present == {f \in Files : texts[f] # NoText}
getAllFileUris == SetToSeq(Present)
Calls(f) == IF texts[f] = NoText THEN <<>> ELSE texts[f].calls

\* collectReachableUris.
WithImports(S) == S \cup UNION {texts[g].imports : g \in S \cap Present}
Reached[n \in 0..Cardinality(Files)] == [f \in Files |-> IF n = 0 THEN {f} ELSE WithImports(Reached[n - 1][f])]
Reach(f) == Reached[Cardinality(Files)][f]

(* The contracts that a name means in a file; the names of such a contract
   and of those it is. *)
NamedHere(name, f) ==
  {<<g, c>> : g \in Reach(f) \cap Present, c \in {c \in UNION {ToSet(texts[h].contracts) : h \in Present} : c.name = name}}
    \cap UNION {{g} \X ToSet(texts[g].contracts) : g \in Present}
WithBases(S) == S \cup UNION {UNION {NamedHere(b, e[1]) : b \in ToSet(e[2].bases)} : e \in S}
InheritanceChain(name, f) == {e[2].name : e \in WithBases(WithBases(WithBases(NamedHere(name, f))))}
AllowedQualifiers(name, f) == IF name = None THEN {} ELSE {name} \cup InheritanceChain(name, f)

(* The functions and modifiers of a text, as [file, container, name], of all
   texts, and those that can be seen from a file. *)
MembersOf(f, contract, names) == {[file |-> f, container |-> contract, name |-> m] : m \in names}
Members(f) == UNION {MembersOf(f, c.name, c.members) : c \in ToSet(texts[f].contracts)}
Symbols == UNION {Members(f) \cup MembersOf(f, None, texts[f].free) : f \in Present}
SymbolsNamed(name) == {s \in Symbols : s.name = name}
Visible(f, S) == {s \in S : s.file \in Reach(f)}

(* prepareCallHierarchy: the function whose name is at the cursor, else all
   those of the name that can be seen. *)
Prepared(f, name) == Visible(f, SymbolsNamed(name))
-----------------------------------------------------------------------------
(* What a file's calls are in the index.  The target is the compiler's, or
   for a modifier the resolver's. *)
Site(f, c) ==
  [at |-> c.at, name |-> c.name, qualifier |-> c.qualifier, file |-> f, caller |-> c.caller,
   container |-> c.container, mod |-> c.mod, target |-> IF f \in compiled \/ c.mod THEN c.resolves ELSE None]
KeyOf(s) == <<s.file, s.container, s.caller>>

\* What a list has at the places S, in its order.
InOrder(S, n) == FlattenSeq([i \in 1..n |-> IF i \in S THEN <<i>> ELSE <<>>])
Kept(list, S) == LET places == InOrder(S, Len(list)) IN [i \in DOMAIN places |-> list[places[i]]]

\* The calls of modifiers are indexed before those of the bodies.
SitesOf(f) ==
  LET all == [i \in DOMAIN Calls(f) |-> Site(f, Calls(f)[i])]
      ofModifiers == {i \in DOMAIN all : all[i].mod}
  IN  Kept(all, ofModifiers) \o Kept(all, DOMAIN all \ ofModifiers)

SitesAt(index, k) == IF k \in DOMAIN index THEN index[k] ELSE <<>>
OfName(sites, n) == Kept(sites, {i \in DOMAIN sites : sites[i].name = n})
OfKey(sites, k) == Kept(sites, {i \in DOMAIN sites : KeyOf(sites[i]) = k})

\* indexCallsInFile, for every file of a batch in turn.
Index(batch) ==
  LET sites == FlattenSeq([i \in DOMAIN batch |-> SitesOf(batch[i])])
      names == {s.name : s \in ToSet(sites)}
      keys  == {KeyOf(s) : s \in ToSet(sites)}
  IN  /\ incomingCalls' = [n \in DOMAIN incomingCalls \cup names |-> SitesAt(incomingCalls, n) \o OfName(sites, n)]
      /\ outgoingCalls' = [k \in DOMAIN outgoingCalls \cup keys |-> SitesAt(outgoingCalls, k) \o OfKey(sites, k)]
      /\ incomingByFile' = [f \in Files |-> IF f \in ToSet(batch)
                              THEN incomingByFile[f] \cup {s.name : s \in ToSet(SitesOf(f))} ELSE incomingByFile[f]]
      /\ outgoingByFile' = [f \in Files |-> IF f \in ToSet(batch)
                              THEN outgoingByFile[f] \cup {KeyOf(s) : s \in ToSet(SitesOf(f))} ELSE outgoingByFile[f]]

Without(index, keys, f) ==
  LET left == [k \in DOMAIN index |->
                 IF k \in keys THEN Kept(index[k], {i \in DOMAIN index[k] : index[k][i].file # f}) ELSE index[k]]
  IN  [k \in {j \in DOMAIN index : left[j] # <<>>} |-> left[k]]

\* Mutant of InvalidateFile: the callers' lists keep what the file had.
KeepsCallers(f) ==
  /\ incomingCalls' = Without(incomingCalls, incomingByFile[f], f)
  /\ incomingByFile' = [incomingByFile EXCEPT ![f] = {}]
  /\ indexedFiles' = indexedFiles \ {f}
  /\ UNCHANGED <<outgoingCalls, outgoingByFile>>

(* invalidateFile: the calls of a file leave the lists of the names and the
   callers that the file is noted under. *)
InvalidateFile(f) ==
  /\ incomingCalls' = Without(incomingCalls, incomingByFile[f], f)
  /\ outgoingCalls' = [k \in DOMAIN outgoingCalls \ outgoingByFile[f] |-> outgoingCalls[k]]
  /\ incomingByFile' = [incomingByFile EXCEPT ![f] = {}]
  /\ outgoingByFile' = [outgoingByFile EXCEPT ![f] = {}]
  /\ indexedFiles' = indexedFiles \ {f}

(* ensureIndexedUris up to its next pause: the files it indexes, those it
   marks as indexed, and the rest of its list; None when it is through. *)
Portion(todo, cancelled) ==
  LET fresh == {i \in DOMAIN todo : todo[i] \notin indexedFiles}
      read  == {i \in fresh : texts[todo[i]] # NoText}
      full  == {i \in read : Cardinality({j \in read : j <= i}) = BatchSize}
      end   == IF full = {} THEN Len(todo) ELSE CHOOSE i \in full : TRUE
  IN  IF cancelled THEN [index |-> <<>>, mark |-> {}, left |-> None]
      ELSE [index |-> Kept(todo, {i \in read : i <= end}), mark |-> {todo[i] : i \in {i \in fresh : i <= end}},
            left  |-> IF full = {} THEN None ELSE SubSeq(todo, end + 1, Len(todo))]
-----------------------------------------------------------------------------
(* What the index answers.  A call without a known target counts for every
   function of its name that its qualifier allows. *)
MatchesTarget(target, item) ==
  /\ target[3] = item.name
  /\ IF item.container # None THEN target[2] = item.container ELSE target[2] = None /\ target[1] = item.file
MayCall(s, item) ==
  /\ s.name = item.name
  /\ s.target = None \/ MatchesTarget(s.target, item)
  /\ \/ None \in {s.qualifier, item.container}
     \/ s.qualifier \in AllowedQualifiers(item.container, item.file)
Incoming(item, calls) == {s.at : s \in {t \in ToSet(SitesAt(calls, item.name)) : MayCall(t, item)}}

(* resolveCalleeSymbol: of those in sight, a member of what qualifies the
   call, else one of the caller's own contract, else any. *)
Candidates(s) ==
  LET visible == Visible(s.file, SymbolsNamed(s.name))
  IN  IF visible = {} THEN SymbolsNamed(s.name) ELSE visible
Preferred(s) ==
  LET of    == {x \in Candidates(s) : x.container # None /\ x.container \in AllowedQualifiers(s.qualifier, s.file)}
      local == {x \in Candidates(s) : x.file = s.file /\ x.container = s.container}
  IN  IF of # {} THEN of ELSE IF local # {} THEN local ELSE Candidates(s)
Callee(s) ==
  IF s.target # None THEN s.target
  ELSE IF Candidates(s) = {} THEN None
  ELSE LET x == CHOOSE y \in Preferred(s) : TRUE IN <<x.file, x.container, x.name>>

(* The calls of a function are shown by what they call.  Those without a known
   target are put together by their names alone, whatever qualifies them, under
   what the first of them resolves to. *)
Grouped(s, t) == s.target = None /\ t.target = None /\ s.name = t.name
Lead(sites, i) ==
  LET group == {j \in DOMAIN sites : Callee(sites[j]) # None /\ Grouped(sites[j], sites[i])}
  IN  IF sites[i].target # None THEN i ELSE CHOOSE j \in group : \A k \in group : j <= k
Outgoing(item, calls) ==
  LET sites == SitesAt(calls, <<item.file, item.container, item.name>>)
  IN  {<<Callee(sites[Lead(sites, i)]), sites[i].at>> : i \in {j \in DOMAIN sites : Callee(sites[j]) # None}}

(* What the graph answers: the calls of the files it has related.  The node
   of a function is of the text it was found in. *)
GraphNode(item) == <<item.file, texts[item.file]>>
HasNode(item) == item.file \in graphed /\ item \in Symbols
GraphIncoming(item, related) ==
  {c.at : c \in UNION {{d \in ToSet(Calls(f)) : d.resolves # None /\ MatchesTarget(d.resolves, item)} : f \in related \cap Present}}
GraphOutgoing(item) ==
  {<<c.resolves, c.at>> : c \in {d \in ToSet(Calls(item.file)) :
                                      d.resolves # None /\ <<d.container, d.caller>> = <<item.container, item.name>>}}
-----------------------------------------------------------------------------
Asked(item, mode, phase, todo, node, answer) ==
  [phase |-> phase, item |-> item, mode |-> mode, todo |-> todo, node |-> node, cancelled |-> FALSE, cut |-> FALSE, answer |-> answer]
Idle == Asked(None, None, "idle", <<>>, None, {})

NothingIndexed ==
  /\ incomingCalls = <<>> /\ outgoingCalls = <<>> /\ indexedFiles = {}
  /\ incomingByFile = [f \in Files |-> {}] /\ outgoingByFile = [f \in Files |-> {}]
  /\ workspaceIndex = None /\ requests = [r \in Requests |-> Idle]

HierarchyInit ==
  /\ texts \in {t \in [Files -> UNION {Texts[f] : f \in Files}] : \A f \in Files : t[f] \in Texts[f]}
  /\ graphed \in {{}, Files} /\ compiled \in {{}, Files}
  /\ pending = graphed /\ NothingIndexed /\ asks = 0

Phase(r) == requests[r].phase
Moved(r, phase) == [requests[r] EXCEPT !.phase = phase]
Answered(r, answer) == [Moved(r, "done") EXCEPT !.answer = IF requests[r].cancelled THEN {} ELSE answer]

(* priorityUrisFor: the function's file and those it reaches, for incoming
   calls the rest as well. *)
PriorityUris(item, mode) ==
  LET near == SetToSeq(Reach(item.file) \ {item.file})
      rest == SetToSeq(Present \ Reach(item.file))
  IN  <<item.file>> \o near \o (IF mode = "incoming" THEN rest ELSE <<>>)

(* getIncomingCalls and getOutgoingCalls, until they first wait. *)
Ask(r, item, mode) ==
  LET known == HasNode(item)
  IN  /\ Phase(r) \in {"idle", "done"} /\ asks < MaxAsks
      /\ asks' = asks + 1
      /\ requests' = [requests EXCEPT ![r] =
           IF ~known THEN Asked(item, mode, "priority", PriorityUris(item, mode), None, {})
           ELSE IF mode = "outgoing" THEN Asked(item, mode, "done", <<>>, None, GraphOutgoing(item))
           ELSE Asked(item, mode, "graph", <<>>, GraphNode(item), {})]
      \* ensureFileRelationships
      /\ pending' = IF mode = "outgoing" THEN pending \ {item.file} ELSE pending
      /\ UNCHANGED <<texts, graphed, compiled, indexVars, workspaceIndex>>

(* drainGraphRelationships, a batch; then the edges of the node that was
   found before. *)
Drain(r) ==
  LET batch == IF pending = {} THEN {} ELSE {CHOOSE f \in pending : TRUE}
      stop  == pending = batch \/ requests[r].cancelled
      now   == GraphIncoming(requests[r].item, graphed \ (pending \ batch))
  IN  /\ Phase(r) = "graph"
      /\ pending' = pending \ batch
      /\ requests' = IF stop THEN [requests EXCEPT ![r] =
                            Answered(r, IF requests[r].node = GraphNode(requests[r].item) THEN now ELSE {})]
                     ELSE requests
      /\ UNCHANGED <<texts, graphed, compiled, indexVars, workspaceIndex, asks>>

\* The answers from the index as a batch leaves it; those of other requests stay.
AnswerFrom(rs) ==
  [r \in Requests |->
     IF r \notin rs THEN requests[r]
     ELSE Answered(r, IF requests[r].mode = "incoming" THEN Incoming(requests[r].item, incomingCalls')
                      ELSE Outgoing(requests[r].item, outgoingCalls'))]

\* queueWorkspaceIndex has no token of a request's; ensureWorkspaceIndexed takes one.
StartsWorkspace(r) ==
  IF workspaceIndex # None THEN workspaceIndex
  ELSE [todo |-> getAllFileUris, owner |-> IF requests[r].mode = "outgoing" THEN None ELSE r]

(* A request's own indexing.  Through, it answers and has the workspace
   indexed (outgoing), or joins or starts the indexing of the workspace. *)
IndexPriority(r) ==
  LET p == Portion(requests[r].todo, requests[r].cancelled)
  IN  /\ Phase(r) = "priority"
      /\ Index(p.index) /\ indexedFiles' = indexedFiles \cup p.mark
      /\ IF p.left # None
         THEN requests' = [requests EXCEPT ![r] = [requests[r] EXCEPT !.todo = p.left]] /\ UNCHANGED workspaceIndex
         ELSE IF requests[r].cancelled
         THEN requests' = AnswerFrom({r}) /\ UNCHANGED workspaceIndex
         ELSE /\ workspaceIndex' = StartsWorkspace(r)
              /\ requests' = IF requests[r].mode = "outgoing" THEN AnswerFrom({r})
                             ELSE [requests EXCEPT ![r] = Moved(r, "workspace")]
      /\ UNCHANGED <<texts, graphed, compiled, pending, asks>>

(* The shared indexing of the workspace, which stops when the request that
   started it is cancelled; all that wait for it go on. *)
IndexWorkspace ==
  /\ workspaceIndex # None
  /\ LET cancelled == workspaceIndex.owner # None /\ requests[workspaceIndex.owner].cancelled
         p == Portion(workspaceIndex.todo, cancelled)
     IN  /\ Index(p.index) /\ indexedFiles' = indexedFiles \cup p.mark
         /\ workspaceIndex' = IF p.left = None THEN None ELSE [todo |-> p.left, owner |-> workspaceIndex.owner]
         /\ requests' = IF p.left # None THEN requests ELSE AnswerFrom({r \in Requests : Phase(r) = "workspace"})
  /\ UNCHANGED <<texts, graphed, compiled, pending, asks>>

Cancel(r) ==
  /\ Phase(r) \notin {"idle", "done"} /\ ~requests[r].cancelled
  /\ requests' = [requests EXCEPT ![r] = [requests[r] EXCEPT !.cancelled = TRUE]]
  /\ UNCHANGED <<texts, graphed, compiled, pending, indexVars, workspaceIndex, asks>>

(* A file changes, comes or goes: the graph will relate it and those that
   see it again, its calls leave the index.  (Those of the files that the
   graph knows to see it leave it too, but the index has calls only where
   the graph has no files.)  What was asked before and is not answered is
   cut. *)
Change(f, t) ==
  /\ asks < MaxAsks /\ t # texts[f]
  /\ asks' = asks + 1
  /\ texts' = [texts EXCEPT ![f] = t]
  /\ pending' = IF f \in graphed THEN pending \cup {g \in graphed : f \in Reach(g)} ELSE pending
  /\ InvalidateFile(f)
  /\ requests' = [r \in Requests |-> IF Phase(r) = "done" THEN Idle ELSE [requests[r] EXCEPT !.cut = Phase(r) # "idle"]]
  /\ UNCHANGED <<graphed, compiled, workspaceIndex>>

HierarchyNext ==
  \/ \E r \in Requests, f \in Present, name \in Names, mode \in {"incoming", "outgoing"} :
        \E s \in Prepared(f, name) : Ask(r, s, mode)
  \/ \E r \in Requests : Drain(r) \/ IndexPriority(r) \/ Cancel(r)
  \/ IndexWorkspace
  \/ \E f \in Files : \E t \in Texts[f] : Change(f, t)
-----------------------------------------------------------------------------
(* The calls of the indexed files, each once under its name and its caller,
   and of no other file. *)
Once(index) ==
  /\ UNION {ToSet(index[k]) : k \in DOMAIN index} = UNION {ToSet(SitesOf(f)) : f \in indexedFiles}
  /\ \A k \in DOMAIN index : IsInjective(index[k])
IndexIsOfTheTexts ==
  /\ Once(incomingCalls) /\ \A n \in DOMAIN incomingCalls : \A s \in ToSet(incomingCalls[n]) : s.name = n
  /\ Once(outgoingCalls) /\ \A k \in DOMAIN outgoingCalls : \A s \in ToSet(outgoingCalls[k]) : KeyOf(s) = k

(* An answer shows each of a function's own calls once, with what it calls:
   its target where that is known, else what it or another call of its name in
   the function resolves to, the same for all of these. *)
ShowsTheCalls(answer, own) ==
  /\ {x[2] : x \in answer} = {t.at : t \in own}
  /\ \A x \in answer, t \in own : x[2] = t.at => \E u \in own : (u = t \/ Grouped(t, u)) /\ x[1] = Callee(u)
  /\ \A x, y \in answer, t, u \in own : x[2] = t.at /\ y[2] = u.at /\ Grouped(t, u) => x[1] = y[1]

(* An answer is of the program as it is: a request that was neither
   cancelled nor overtaken by a change names exactly the calls of the
   workspace that may be of its function, or that its function makes, even if
   it shared an indexing that another one's cancellation stopped, and the
   index behind it has the calls of the indexed files once each. *)
CallsFitTheTexts ==
  /\ IndexIsOfTheTexts
  /\ \A r \in Requests :
       LET q == requests[r]
           all == UNION {ToSet(SitesOf(f)) : f \in Present}
       IN  Phase(r) = "done" /\ ~q.cancelled /\ ~q.cut =>
           IF HasNode(q.item)
           THEN q.answer = IF q.mode = "incoming" THEN GraphIncoming(q.item, graphed) ELSE GraphOutgoing(q.item)
           ELSE IF q.mode = "incoming" THEN q.answer = {s.at : s \in {t \in all : MayCall(t, q.item)}}
           ELSE ShowsTheCalls(q.answer, {t \in all : /\ KeyOf(t) = <<q.item.file, q.item.container, q.item.name>>
                                                     /\ Callee(t) # None})
=============================================================================
