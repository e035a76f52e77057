---------------------------- MODULE Graph_proofs ----------------------------
(***************************************************************************)
(* Proofs about the Project Graph's schedule: no file is forgotten, and    *)
(* the background is one chain of timers, whatever the files import,       *)
(* however many there are, and whatever users, other programs and queries  *)
(* do after the start-up; the queue has each file once; and the nodes and  *)
(* edges of the graph are those of the files and their texts, but for the  *)
(* edges that may be missing.                                              *)
(*                                                                         *)
(* The operators of GraphIndex change a graph's fields; the lemmas say of  *)
(* each which files it may take from "indexed or queued", which is all     *)
(* that the first theorem needs of them.  The second needs all fields of   *)
(* each result (the lemmas ...Is), that they are a graph with an orderly   *)
(* queue (...OK), and that they are current if the graph was (...Current). *)
(***************************************************************************)
EXTENDS MCGraphRuns, Induction
-----------------------------------------------------------------------------
(* A graph has its fields, whatever is in them.                            *)
IsGraph(G) ==
  G = [declared |-> G.declared, edges |-> G.edges, indexed |-> G.indexed, related |-> G.related,
       queue |-> G.queue, queued |-> G.queued]

(* H has no file less than G, but for those in S.                          *)
Driven(G) == G.indexed \cup G.queued
KeepsBut(G, H, S) == IsGraph(H) /\ \A f : f \in Driven(G) /\ f \notin S => f \in Driven(H)

(* Nothing of the files that count is forgotten.                           *)
Covers(G, mode2, list, done) == RelationshipFiles(mode2, list) \cap done \subseteq Driven(G)

LEMMA KeepsTwice ==
  ASSUME NEW G, NEW H, NEW I, NEW S, NEW T, KeepsBut(G, H, S), KeepsBut(H, I, T)
  PROVE  KeepsBut(G, I, S \cup T)
BY DEF KeepsBut

LEMMA KeepsCovering ==
  ASSUME NEW G, NEW H, NEW m, NEW list, NEW done, KeepsBut(G, H, {}), Covers(G, m, list, done)
  PROVE  Covers(H, m, list, done)
BY DEF KeepsBut, Covers

(* Two fields are changed, the others are kept.                            *)
WithQueue(G, x, y) == [G EXCEPT !.queue = x, !.queued = y]
WithDeclared(G, x, y) == [G EXCEPT !.declared = x, !.edges = y]
WithRelated(G, x, y) == [G EXCEPT !.indexed = x, !.related = y]

LEMMA QueueFields ==
  ASSUME NEW G, IsGraph(G), NEW x, NEW y
  PROVE  LET H == WithQueue(G, x, y) IN IsGraph(H) /\ H.indexed = G.indexed /\ H.queued = y
<1> DEFINE A == [G EXCEPT !.queue = x]
<1>1. IsGraph(A) /\ A.indexed = G.indexed
  BY DEF IsGraph
<1> HIDE DEF A
<1> DEFINE B == [A EXCEPT !.queued = y]
<1>2. IsGraph(B) /\ B.indexed = G.indexed /\ B.queued = y
  BY <1>1 DEF IsGraph
<1>3. B = WithQueue(G, x, y)
  BY Zenon DEF A, WithQueue
<1> HIDE DEF B
<1> QED
  BY <1>2, <1>3

LEMMA DeclaredFields ==
  ASSUME NEW G, IsGraph(G), NEW x, NEW y
  PROVE  LET H == WithDeclared(G, x, y) IN IsGraph(H) /\ H.indexed = G.indexed /\ H.queued = G.queued
<1> DEFINE A == [G EXCEPT !.declared = x]
<1>1. IsGraph(A) /\ A.indexed = G.indexed /\ A.queued = G.queued
  BY DEF IsGraph
<1> HIDE DEF A
<1> DEFINE B == [A EXCEPT !.edges = y]
<1>2. IsGraph(B) /\ B.indexed = G.indexed /\ B.queued = G.queued
  BY <1>1 DEF IsGraph
<1>3. B = WithDeclared(G, x, y)
  BY Zenon DEF A, WithDeclared
<1> HIDE DEF B
<1> QED
  BY <1>2, <1>3

LEMMA RelatedFields ==
  ASSUME NEW G, IsGraph(G), NEW x, NEW y
  PROVE  LET H == WithRelated(G, x, y) IN IsGraph(H) /\ H.indexed = x /\ H.queued = G.queued
<1> DEFINE A == [G EXCEPT !.indexed = x]
<1>1. IsGraph(A) /\ A.indexed = x /\ A.queued = G.queued
  BY DEF IsGraph
<1> HIDE DEF A
<1> DEFINE B == [A EXCEPT !.related = y]
<1>2. IsGraph(B) /\ B.indexed = x /\ B.queued = G.queued
  BY <1>1 DEF IsGraph
<1>3. B = WithRelated(G, x, y)
  BY Zenon DEF A, WithRelated
<1> HIDE DEF B
<1> QED
  BY <1>2, <1>3

LEMMA OutdateKeeps ==
  ASSUME NEW G, IsGraph(G), NEW f
  PROVE  KeepsBut(G, Outdate(G, f), {})
BY DEF IsGraph, KeepsBut, Driven, Outdate

LEMMA ClearKeeps ==
  ASSUME NEW G, IsGraph(G), NEW f
  PROVE  KeepsBut(G, Clear(G, f), {f})
<1> DEFINE e == {x \in G.edges : f \notin {x[1], x[2]}}
           q == Kept(G.queue, Files \ {f})
           C == [declared |-> G.declared \ {f}, edges |-> e, indexed |-> G.indexed \ {f},
                 related |-> G.related \ (Users(f) \cup {f}), queue |-> q, queued |-> G.queued \ {f}]
<1>2. Clear(G, f) = IF f \notin G.declared THEN G ELSE C
  BY Zenon DEF Clear
<1> HIDE DEF e, q
<1>1. IsGraph(C) /\ C.indexed = G.indexed \ {f} /\ C.queued = G.queued \ {f}
  BY DEF IsGraph
<1> HIDE DEF C
<1> QED
  BY <1>1, <1>2 DEF KeepsBut, Driven

LEMMA UpdateFileKeeps ==
  ASSUME NEW G, IsGraph(G), NEW f, NEW done, NEW there
  PROVE  KeepsBut(G, UpdateFile(G, f, done, there), {f})
<1> DEFINE C == Clear(G, f)
           e == C.edges \cup ({f} \X (Imports[f] \cap there))
           d == C.declared \cup {f}
           D == WithDeclared(C, d, e)
<1>1. KeepsBut(G, C, {f})
  BY ClearKeeps
<1>2. UpdateFile(G, f, done, there) = IF f \notin done THEN C ELSE D
  BY Zenon DEF UpdateFile, WithDeclared
<1> HIDE DEF C, d, e
<1>3. IsGraph(C)
  BY <1>1 DEF KeepsBut
<1>4. IsGraph(D) /\ D.indexed = C.indexed /\ D.queued = C.queued
  BY <1>3, DeclaredFields
<1> HIDE DEF D
<1> QED
  BY <1>1, <1>2, <1>4 DEF KeepsBut, Driven

LEMMA UpdateAllKeeps ==
  ASSUME NEW G, IsGraph(G), NEW list, NEW done, NEW there
  PROVE  KeepsBut(G, UpdateAll(G, list, done, there), Range(list))
<1> DEFINE cleared == Range(list) \cap G.declared
           H == UpdateAll(G, list, done, there)
<1>1. IsGraph(H) /\ H.indexed = G.indexed \ cleared /\ H.queued = G.queued \ cleared
  <2> DEFINE after(i) == cleared \cap {list[j] : j \in i + 1 .. Len(list)}
             d == (G.declared \ cleared) \cup (Range(list) \cap done)
             e == {x \in G.edges : {x[1], x[2]} \cap cleared = {}}
                  \cup UNION {{list[i]} \X ((Imports[list[i]] \cap there) \ after(i)) :
                               i \in {k \in DOMAIN list : list[k] \in done}}
             r == G.related \ UNION {Users(f) \cup {f} : f \in cleared}
             q == Kept(G.queue, Files \ cleared)
  <2>1. H = [declared |-> d, edges |-> e, indexed |-> G.indexed \ cleared, related |-> r,
             queue |-> q, queued |-> G.queued \ cleared]
    BY Zenon DEF UpdateAll
  <2> HIDE DEF d, e, r, q, cleared, H
  <2> QED
    BY <2>1 DEF IsGraph
<1> HIDE DEF H
<1> QED
  BY <1>1 DEF KeepsBut, Driven, H

LEMMA EnqueueCovers ==
  ASSUME NEW G, IsGraph(G), NEW m, NEW S
  PROVE  /\ KeepsBut(G, Enqueue(G, m, S), {})
         /\ RelationshipFiles(m, S) \subseteq Driven(Enqueue(G, m, S))
<1> DEFINE new == RelationshipFiles(m, S) \ (G.indexed \cup G.queued)
           H == Enqueue(G, m, S)
<1>1. IsGraph(H) /\ H.indexed = G.indexed /\ H.queued = G.queued \cup new
  <2> DEFINE q == G.queue \o ListOf(new)
             u == G.queued \cup new
  <2>1. H = WithQueue(G, q, u)
    BY Zenon DEF Enqueue, WithQueue
  <2> HIDE DEF q, H, new, u
  <2>2. IsGraph(H) /\ H.indexed = G.indexed /\ H.queued = u
    BY <2>1, QueueFields
  <2> QED
    BY <2>2 DEF u
<1> HIDE DEF H
<1> QED
  BY <1>1 DEF KeepsBut, Driven, H

(* What was taken off is queued again.                                     *)
LEMMA RequeuedCovers ==
  ASSUME NEW G, NEW H, NEW m, NEW S, NEW list, NEW done, NEW now, now \subseteq done \cup S,
         Covers(G, m, list, done), KeepsBut(G, H, S)
  PROVE  Covers(Enqueue(H, m, S), m, list, now)
<1> DEFINE I == Enqueue(H, m, S)
<1>1. IsGraph(H)
  BY DEF KeepsBut
<1>2. KeepsBut(H, I, {}) /\ RelationshipFiles(m, S) \subseteq Driven(I)
  BY <1>1, EnqueueCovers
<1> HIDE DEF I
<1>3. SUFFICES ASSUME NEW f \in RelationshipFiles(m, list) \cap now PROVE f \in Driven(I)
  BY DEF Covers, I
<1>4. CASE f \in S
  <2>1. f \in RelationshipFiles(m, S)
    BY <1>3, <1>4 DEF RelationshipFiles
  <2> QED
    BY <2>1, <1>2
<1>5. CASE f \notin S
  <2>1. f \in Driven(G)
    BY <1>3, <1>5 DEF Covers
  <2> QED
    BY <2>1, <1>2, <1>5 DEF KeepsBut
<1> QED
  BY <1>4, <1>5

(* The operators that the handlers use.                                    *)
LEMMA RefreshCovers ==
  ASSUME NEW G, IsGraph(G), NEW m, NEW f, NEW seq, NEW done, NEW there, NEW list, NEW before,
         done \subseteq before \cup {f}
  PROVE  LET H == RefreshWithDependents(Outdate(G, f), m, f, seq, done, there)
         IN  IsGraph(H) /\ (Covers(G, m, list, before) => Covers(H, m, list, done))
<1> DEFINE O == Outdate(G, f)
           U == UpdateFile(O, f, done, there)
           A == UpdateAll(U, seq, done, there)
           S == {f} \cup Range(seq)
<1>1. KeepsBut(G, O, {}) /\ IsGraph(O)
  BY OutdateKeeps DEF KeepsBut
<1> HIDE DEF O
<1>2. KeepsBut(O, U, {f}) /\ IsGraph(U)
  BY <1>1, UpdateFileKeeps DEF KeepsBut
<1> HIDE DEF U
<1>3. KeepsBut(U, A, Range(seq)) /\ IsGraph(A)
  BY <1>2, UpdateAllKeeps DEF KeepsBut
<1> HIDE DEF A
<1>4. KeepsBut(G, A, S)
  BY <1>1, <1>2, <1>3 DEF KeepsBut
<1>5. done \subseteq before \cup S
  OBVIOUS
<1> HIDE DEF S
<1>6. IsGraph(Enqueue(A, m, S)) /\ (Covers(G, m, list, before) => Covers(Enqueue(A, m, S), m, list, done))
  BY <1>3, <1>4, <1>5, RequeuedCovers, EnqueueCovers DEF KeepsBut
<1> QED
  BY <1>6 DEF RefreshWithDependents, O, U, A, S

LEMMA RemoveCovers ==
  ASSUME NEW G, IsGraph(G), NEW m, NEW f, NEW seq, NEW done, NEW there, NEW list, NEW before,
         done \subseteq before, f \notin done
  PROVE  LET H == RemoveWithDependents(Outdate(G, f), m, f, seq, done, there)
         IN  IsGraph(H) /\ (Covers(G, m, list, before) => Covers(H, m, list, done))
<1> DEFINE O == Outdate(G, f)
           U == Clear(O, f)
           A == UpdateAll(U, seq, done, there)
           S == Range(seq)
<1>1. KeepsBut(G, O, {}) /\ IsGraph(O)
  BY OutdateKeeps DEF KeepsBut
<1> HIDE DEF O
<1>2. KeepsBut(O, U, {f}) /\ IsGraph(U)
  BY <1>1, ClearKeeps DEF KeepsBut
<1> HIDE DEF U
<1>3. KeepsBut(U, A, S) /\ IsGraph(A)
  BY <1>2, UpdateAllKeeps DEF KeepsBut
<1> HIDE DEF A, S
<1>4. KeepsBut(G, A, S \cup {f})
  BY <1>1, <1>2, <1>3 DEF KeepsBut
<1> DEFINE E == Enqueue(A, m, S)
<1>5. KeepsBut(A, E, {}) /\ RelationshipFiles(m, S) \subseteq Driven(E)
  BY <1>3, EnqueueCovers
<1> HIDE DEF E
<1>6. ASSUME Covers(G, m, list, before), NEW g \in RelationshipFiles(m, list) \cap done PROVE g \in Driven(E)
  <2>1. CASE g \in S
    <3>1. g \in RelationshipFiles(m, S)
      BY <1>6, <2>1 DEF RelationshipFiles
    <3> QED
      BY <3>1, <1>5
  <2>2. CASE g \notin S
    <3>1. g \in Driven(G) /\ g # f
      BY <1>6 DEF Covers
    <3> QED
      BY <3>1, <2>2, <1>4, <1>5 DEF KeepsBut
  <2> QED
    BY <2>1, <2>2
<1>7. IsGraph(E) /\ (Covers(G, m, list, before) => Covers(E, m, list, done))
  BY <1>5, <1>6 DEF KeepsBut, Covers
<1> QED
  BY <1>7 DEF RemoveWithDependents, O, U, A, S, E

LEMMA RebuildCovers ==
  ASSUME NEW m, NEW list, NEW done, NEW there
  PROVE  LET H == RebuildDeclarations(m, list, done, there)
         IN  IsGraph(H) /\ Covers(H, m, list, done)
<1> DEFINE files == GraphFiles(m, list)
           d == files \cap done
           e == UNION {{f} \X (Imports[f] \cap there) : f \in files \cap done}
           G == WithDeclared(EmptyGraph, d, e)
           H == Enqueue(G, m, files)
<1>1. RebuildDeclarations(m, list, done, there) = H
  BY Zenon DEF RebuildDeclarations, WithDeclared
<1>2. IsGraph(EmptyGraph)
  BY DEF IsGraph, EmptyGraph
<1> HIDE DEF d, e
<1>3. IsGraph(G)
  BY <1>2, DeclaredFields
<1> HIDE DEF G
<1>4. IsGraph(H) /\ RelationshipFiles(m, files) \subseteq Driven(H)
  BY <1>3, EnqueueCovers DEF KeepsBut
<1>5. RelationshipFiles(m, list) \subseteq RelationshipFiles(m, files)
  BY DEF RelationshipFiles, GraphFiles
<1> HIDE DEF files, H
<1> QED
  BY <1>1, <1>4, <1>5 DEF Covers

LEMMA EnsureDeclarationsKeeps ==
  ASSUME NEW G, IsGraph(G), NEW m, NEW list, NEW done, NEW there
  PROVE  KeepsBut(G, EnsureDeclarations(G, m, list, done, there), {})
<1> DEFINE files == GraphFiles(m, list)
           new == (files \ G.declared) \cap done
           d == G.declared \cup new
           e == G.edges \cup UNION {{f} \X (Imports[f] \cap there) : f \in new}
           K == WithDeclared(G, d, e)
           S == files \ G.indexed
<1>1. EnsureDeclarations(G, m, list, done, there) = Enqueue(K, m, S)
  BY Zenon DEF EnsureDeclarations, WithDeclared
<1> HIDE DEF d, e
<1>2. IsGraph(K) /\ K.indexed = G.indexed /\ K.queued = G.queued
  BY DeclaredFields
<1> HIDE DEF K, S
<1>3. KeepsBut(K, Enqueue(K, m, S), {})
  BY <1>2, EnqueueCovers
<1> QED
  BY <1>1, <1>2, <1>3 DEF KeepsBut, Driven

LEMMA EnsureRelationshipsKeeps ==
  ASSUME NEW G, IsGraph(G), NEW f, NEW done, NEW there
  PROVE  KeepsBut(G, EnsureRelationships(G, f, done, there), {})
<1> DEFINE q == Kept(G.queue, Files \ {f})
           u == G.queued \ {f}
           K == WithQueue(G, q, u)
           i == K.indexed \cup {f}
           r == IF Imports[f] \cap there \subseteq done THEN K.related \cup {f} ELSE K.related
           H == WithRelated(K, i, r)
<1>1. EnsureRelationships(G, f, done, there) = IF f \in G.indexed \/ f \notin done THEN G ELSE H
  BY Zenon DEF EnsureRelationships, Relate, WithQueue, WithRelated
<1> HIDE DEF q, u
<1>2. IsGraph(K) /\ K.indexed = G.indexed /\ K.queued = u
  BY QueueFields
<1> HIDE DEF K, r
<1>3. IsGraph(H) /\ H.indexed = i /\ H.queued = u
  BY <1>2, RelatedFields
<1> HIDE DEF H
<1> QED
  BY <1>1, <1>2, <1>3 DEF KeepsBut, Driven, u

LEMMA BatchKeeps ==
  ASSUME NEW G, IsGraph(G), NEW k, NEW done, NEW there
  PROVE  KeepsBut(G, Batch(G, k, done, there), {})
<1> DEFINE taken == {G.queue[i] : i \in 1 .. k}
           q == SubSeq(G.queue, k + 1, Len(G.queue))
           u == G.queued \ taken
           K == WithQueue(G, q, u)
           i == G.indexed \cup taken
           r == G.related \cup {f \in (taken \cap done) \ G.indexed : Imports[f] \cap there \subseteq done}
           H == WithRelated(K, i, r)
<1>1. Batch(G, k, done, there) = H
  <2>1. K.indexed = G.indexed /\ K.related = G.related
    BY DEF WithQueue
  <2> QED
    BY Zenon, <2>1 DEF Batch, WithQueue, WithRelated
<1> HIDE DEF q, r, taken
<1>2. IsGraph(K) /\ K.indexed = G.indexed /\ K.queued = u
  BY QueueFields
<1> HIDE DEF K
<1>3. IsGraph(H) /\ H.indexed = i /\ H.queued = u
  BY <1>2, RelatedFields
<1> HIDE DEF H
<1> QED
  BY <1>1, <1>2, <1>3 DEF KeepsBut, Driven
-----------------------------------------------------------------------------
(* The timers.                                                             *)
TimersFit(T, on) ==
  /\ T \in [generation : Nat, handle : Nat, armed : SUBSET Nat]
  /\ T.armed \subseteq IF on THEN {T.handle} ELSE {}

Reset(T, h, A) == [T EXCEPT !.handle = h, !.armed = A]

LEMMA ResetFields ==
  ASSUME NEW T \in [generation : Nat, handle : Nat, armed : SUBSET Nat], NEW h \in Nat, NEW A \in SUBSET Nat
  PROVE  /\ Reset(T, h, A) \in [generation : Nat, handle : Nat, armed : SUBSET Nat]
         /\ Reset(T, h, A).handle = h /\ Reset(T, h, A).armed = A
<1> DEFINE B == [T EXCEPT !.handle = h]
<1>1. B \in [generation : Nat, handle : Nat, armed : SUBSET Nat] /\ B.handle = h
  OBVIOUS
<1> HIDE DEF B
<1> DEFINE C == [B EXCEPT !.armed = A]
<1>2. C \in [generation : Nat, handle : Nat, armed : SUBSET Nat] /\ C.handle = h /\ C.armed = A
  BY <1>1
<1>3. Reset(T, h, A) = C
  BY Zenon DEF Reset, B
<1> HIDE DEF C
<1> QED
  BY <1>2, <1>3

LEMMA CancelFits ==
  ASSUME NEW T, NEW on, TimersFit(T, on)
  PROVE  TimersFit(Cancel(T), TRUE) /\ TimersFit(Cancel(T), FALSE) /\ TimersFit(Cancel(T), on)
BY DEF TimersFit, Cancel

LEMMA ArmFits ==
  ASSUME NEW T, NEW on, TimersFit(T, on)
  PROVE  TimersFit(Arm(T), TRUE)
BY DEF TimersFit, Arm

LEMMA ScheduleFits ==
  ASSUME NEW T, TimersFit(T, shouldRunBackground)
  PROVE  TimersFit(Schedule(T), shouldRunBackground)
BY ArmFits DEF Schedule
-----------------------------------------------------------------------------
(* After the start-up every file that is there is parsed, so that neither  *)
(* the sweep nor a walk has anything left to do; the queue and the indexed *)
(* files have every file that counts between them, unless a rebuild is     *)
(* under way that will queue them all; and a timer runs only if it is the  *)
(* one that is remembered.                                                 *)
DriveInv ==
  /\ existing \subseteq Files /\ parsed = existing /\ walking = {}
  /\ phase \in {"ready", "rebuilding"}
  /\ IsGraph(graph)
  /\ phase = "ready" => Covers(graph, mode[2], listed, parsed)
  /\ TimersFit(timers, shouldRunBackground)

LEMMA NothingToWalk ==
  ASSUME NEW S, S \subseteq existing, existing \subseteq Files
  PROVE  WalkFrom(S, existing) = {}
<1> DEFINE walks == {T \in SUBSET Files : S \subseteq T /\ \A f \in T \cap existing : Imports[f] \cap existing \subseteq T}
<1>1. existing \in walks
  OBVIOUS
<1> QED
  BY <1>1 DEF WalkFrom

(* A step of the graph and its timers.                                     *)
LEMMA DriveMoves ==
  ASSUME existing' \subseteq Files, parsed' = existing', walking' = {}, phase' \in {"ready", "rebuilding"},
         IsGraph(graph'), phase' = "ready" => Covers(graph', mode'[2], listed', parsed'),
         TimersFit(timers', mode'[1] = "auto")
  PROVE  DriveInv'
BY DEF DriveInv, IsGraph, Covers, Driven, RelationshipFiles, TimersFit, shouldRunBackground

LEMMA DriveInit == ASSUME Start = "steady", Init PROVE DriveInv
<1>1. /\ existing \subseteq Files /\ parsed = existing /\ walking = {} /\ phase = "ready"
      /\ timers = [generation |-> 0, handle |-> 0, armed |-> {}]
      /\ LET G == RebuildDeclarations(mode[2], listed, listed, listed)
         IN  graph = Batch(G, Len(G.queue), listed, listed)
      /\ parsed = listed
  BY DEF Init
<1> DEFINE G == RebuildDeclarations(mode[2], listed, listed, listed)
<1>2. IsGraph(G) /\ Covers(G, mode[2], listed, listed)
  BY RebuildCovers
<1>3. graph = Batch(G, Len(G.queue), listed, listed)
  BY <1>1
<1> HIDE DEF G
<1>4. KeepsBut(G, graph, {})
  BY <1>2, <1>3, BatchKeeps
<1>5. IsGraph(graph) /\ Covers(graph, mode[2], listed, listed)
  BY <1>2, <1>4, KeepsCovering DEF KeepsBut
<1>6. TimersFit(timers, shouldRunBackground)
  BY <1>1 DEF TimersFit
<1> QED
  BY <1>1, <1>5, <1>6 DEF DriveInv

LEMMA DriveNext == DriveInv /\ [Next]_vars => DriveInv'
<1> SUFFICES ASSUME DriveInv, [Next]_vars PROVE DriveInv'
  OBVIOUS
<1>s. /\ existing \subseteq Files /\ parsed = existing /\ walking = {} /\ phase \in {"ready", "rebuilding"}
      /\ IsGraph(graph) /\ (phase = "ready" => Covers(graph, mode[2], listed, parsed))
      /\ TimersFit(timers, mode[1] = "auto")
  BY DEF DriveInv, shouldRunBackground
(* A step that only has the graph keep its files, as the timers run.       *)
<1>k. ASSUME UNCHANGED <<existing, parsed, walking, listed, mode, phase>>, KeepsBut(graph, graph', {}),
             TimersFit(timers', mode[1] = "auto")
      PROVE  DriveInv'
  <2>1. phase = "ready" => Covers(graph', mode[2], listed, parsed)
    BY <1>k, <1>s, KeepsCovering
  <2>2. IsGraph(graph')
    BY <1>k DEF KeepsBut
  <2> QED
    BY <1>k, <1>s, <2>1, <2>2, DriveMoves
<1>1. ASSUME NEW t \in timers.armed, RunBatch(t) PROVE DriveInv'
  <2>1. UNCHANGED <<existing, parsed, walking, listed, mode, phase>>
    BY <1>1 DEF RunBatch, world
  <2>2. timers \in [generation : Nat, handle : Nat, armed : SUBSET Nat] /\ mode[1] = "auto" /\ t = timers.handle
        /\ timers.armed = {t} /\ t \in Nat
    BY <1>s DEF TimersFit
  <2>3. CASE t # timers.generation
    <3>1. timers' = [timers EXCEPT !.armed = timers.armed \ {t}] /\ graph' = graph
      BY <1>1, <2>3 DEF RunBatch
    <3>2. TimersFit(timers', mode[1] = "auto")
      BY <3>1, <2>2 DEF TimersFit
    <3>3. KeepsBut(graph, graph', {})
      BY <3>1, <1>s DEF KeepsBut
    <3> QED
      BY <2>1, <3>2, <3>3, <1>k
  <2>4. CASE t = timers.generation
    <3>1. /\ \E k \in BatchEnds(graph, parsed) : graph' = Batch(graph, k, parsed, existing)
          /\ \/ timers' = Reset(timers, 0, timers.armed \ {t})
             \/ timers' = [timers EXCEPT !.handle = t]
      BY Zenon, <1>1, <2>4 DEF RunBatch, Reset
    <3>2. KeepsBut(graph, graph', {})
      BY <3>1, <1>s, BatchKeeps
    <3>3. CASE timers' = Reset(timers, 0, timers.armed \ {t})
      <4>1. timers' \in [generation : Nat, handle : Nat, armed : SUBSET Nat] /\ timers'.armed = {}
        BY <3>3, <2>2, ResetFields
      <4> QED
        BY <4>1, <3>2, <2>1, <1>k DEF TimersFit
    <3>4. CASE timers' = [timers EXCEPT !.handle = t]
      <4>1. TimersFit(timers', mode[1] = "auto")
        BY <3>4, <2>2 DEF TimersFit
      <4> QED
        BY <4>1, <3>2, <2>1, <1>k
    <3> QED
      BY <3>1, <3>3, <3>4
  <2> QED
    BY <2>3, <2>4
<1>2. ASSUME NEW f \in Files, SweepFile(f) \/ WalkDone(f) PROVE DriveInv'
  BY <1>2, <1>s DEF SweepFile, WalkDone
<1>3. CASE Initialized
  BY <1>3, <1>s DEF Initialized
<1>4. ASSUME NEW r, RebuildEnd(r) PROVE DriveInv'
  <2> DEFINE G == RebuildDeclarations(mode[2], listed, parsed, existing)
             B == Batch(G, Len(G.queue), parsed, existing)
  <2>1. /\ graph' \in {G, B} /\ timers' \in {timers, Schedule(timers)}
        /\ phase' = "ready" /\ UNCHANGED <<existing, parsed, walking, listed, mode>>
    BY <1>4 DEF RebuildEnd, world
  <2>2. IsGraph(G) /\ Covers(G, mode[2], listed, parsed)
    BY RebuildCovers
  <2> HIDE DEF G
  <2>3. IsGraph(B) /\ Covers(B, mode[2], listed, parsed)
    BY <2>2, BatchKeeps, KeepsCovering DEF KeepsBut
  <2> HIDE DEF B
  <2>4. TimersFit(timers', mode[1] = "auto")
    BY <2>1, <1>s, ScheduleFits DEF shouldRunBackground
  <2> QED
    BY <2>1, <2>2, <2>3, <2>4, <1>s, DriveMoves
<1>5. ASSUME NEW q \in Queries, NEW canceled \in BOOLEAN, QueryStep(q, canceled) PROVE DriveInv'
  <2>1. /\ \E k \in BatchEnds(graph, parsed) : graph' = Batch(graph, k, parsed, existing)
        /\ UNCHANGED <<existing, parsed, walking, listed, mode, phase>>
        /\ timers' \in {timers, Schedule(timers)}
    BY Zenon, <1>5 DEF QueryStep, Finish, Await, world
  <2>2. KeepsBut(graph, graph', {})
    BY <2>1, <1>s, BatchKeeps
  <2>3. TimersFit(timers', mode[1] = "auto")
    BY <2>1, <1>s, ScheduleFits DEF shouldRunBackground
  <2> QED
    BY <2>1, <2>2, <2>3, <1>k
<1>6. ASSUME NEW f \in Files, OnDidChangeContent(f) PROVE DriveInv'
  <2>1. /\ f \in existing /\ parsed' = parsed \cup {f} /\ existing' = existing
        /\ walking' = walking \cup WalkFrom({f}, parsed') /\ timers' = Schedule(timers)
        /\ UNCHANGED <<listed, mode, phase>> /\ RefreshGraph(f)
    BY <1>6 DEF OnDidChangeContent
  <2>2. parsed' = existing /\ walking' = {}
    BY <2>1, <1>s, NothingToWalk
  <2>3. PICK list \in DependentLists(graph, f) :
           graph' = RefreshWithDependents(Outdate(graph, f), mode[2], f, list, parsed', existing')
    BY <2>1 DEF RefreshGraph
  <2>4. IsGraph(graph') /\ (phase' = "ready" => Covers(graph', mode[2], listed, parsed'))
    BY <2>1, <2>2, <2>3, <1>s, RefreshCovers
  <2>5. TimersFit(timers', mode[1] = "auto")
    BY <2>1, <1>s, ScheduleFits DEF shouldRunBackground
  <2> QED
    BY <2>1, <2>2, <2>4, <2>5, <1>s, DriveMoves
<1>7. ASSUME NEW f \in Files, FileCreated(f) PROVE DriveInv'
  <2>1. /\ existing' = existing \cup {f} /\ parsed' = parsed \cup {f} /\ timers' = Schedule(timers)
        /\ UNCHANGED <<listed, walking, mode, phase>> /\ RefreshGraph(f)
    BY <1>7 DEF FileCreated
  <2>2. PICK list \in DependentLists(graph, f) :
           graph' = RefreshWithDependents(Outdate(graph, f), mode[2], f, list, parsed', existing')
    BY <2>1 DEF RefreshGraph
  <2>3. parsed' = existing' /\ existing' \subseteq Files
    BY <2>1, <1>s
  <2>4. IsGraph(graph') /\ (phase' = "ready" => Covers(graph', mode[2], listed, parsed'))
    BY <2>1, <2>2, <1>s, RefreshCovers
  <2>5. TimersFit(timers', mode[1] = "auto")
    BY <2>1, <1>s, ScheduleFits DEF shouldRunBackground
  <2> QED
    BY <2>1, <2>3, <2>4, <2>5, <1>s, DriveMoves
<1>8. ASSUME NEW f \in Files, FileDeleted(f) PROVE DriveInv'
  <2>1. /\ existing' = existing \ {f} /\ parsed' = parsed \ {f} /\ timers' = Schedule(timers)
        /\ UNCHANGED <<listed, walking, mode, phase>>
    BY <1>8 DEF FileDeleted
  <2>2. PICK list \in DependentLists(graph, f) :
           graph' = RemoveWithDependents(Outdate(graph, f), mode[2], f, list, parsed', existing')
    BY <1>8 DEF FileDeleted
  <2>3. parsed' = existing' /\ existing' \subseteq Files /\ parsed' \subseteq parsed /\ f \notin parsed'
    BY <2>1, <1>s
  <2>4. IsGraph(graph') /\ (phase' = "ready" => Covers(graph', mode[2], listed, parsed'))
    BY <2>1, <2>2, <2>3, <1>s, RemoveCovers
  <2>5. TimersFit(timers', mode[1] = "auto")
    BY <2>1, <1>s, ScheduleFits DEF shouldRunBackground
  <2> QED
    BY <2>1, <2>3, <2>4, <2>5, <1>s, DriveMoves
<1>9. CASE Search
  <2>1. /\ graph' = EnsureDeclarations(graph, mode[2], listed, parsed, existing) /\ timers' = timers
        /\ UNCHANGED <<existing, parsed, walking, listed, mode, phase>>
    BY <1>9 DEF Search, world
  <2>2. KeepsBut(graph, graph', {})
    BY <2>1, <1>s, EnsureDeclarationsKeeps
  <2> QED
    BY <2>1, <2>2, <1>s, <1>k
<1>10. CASE Reload
  <2>1. /\ listed' = existing /\ parsed' = parsed \cup (GraphFiles(mode[2], existing) \ walking)
        /\ graph' = RebuildDeclarations(mode[2], listed', parsed', existing)
        /\ timers' = Schedule(Cancel(timers)) /\ UNCHANGED <<existing, walking, mode, phase>>
    BY <1>10 DEF Reload
  <2>2. parsed' = existing
    BY <2>1, <1>s DEF GraphFiles
  <2>3. IsGraph(graph') /\ Covers(graph', mode[2], listed', parsed')
    BY <2>1, RebuildCovers
  <2>4. TimersFit(Cancel(timers), mode[1] = "auto")
    BY <1>s, CancelFits
  <2>5. TimersFit(timers', mode[1] = "auto")
    BY <2>1, <2>4, ScheduleFits DEF shouldRunBackground
  <2> QED
    BY <2>1, <2>2, <2>3, <2>5, <1>s, DriveMoves
<1>11. CASE RebuildStart
  <2>1. /\ phase' = "rebuilding" /\ listed' = existing /\ timers' = Cancel(timers)
        /\ UNCHANGED <<existing, parsed, walking, graph, mode>>
    BY <1>11 DEF RebuildStart
  <2>2. TimersFit(timers', mode[1] = "auto")
    BY <2>1, <1>s, CancelFits
  <2> QED
    BY <2>1, <2>2, <1>s, DriveMoves
<1>12. ASSUME NEW m \in Modes, OnDidChangeConfiguration(m) PROVE DriveInv'
  <2> DEFINE T == IF m[2] = mode[2] THEN timers ELSE Cancel(timers)
  <2>1. /\ mode' = m /\ UNCHANGED <<existing, parsed, walking, listed, phase>>
        /\ graph' = IF m[2] = mode[2] THEN graph ELSE RebuildDeclarations(m[2], listed, parsed, existing)
        /\ timers' = IF m[1] # "auto" THEN Cancel(T) ELSE IF Complete(graph', m[2], listed) THEN T ELSE Arm(T)
    BY <1>12 DEF OnDidChangeConfiguration, world
  <2>2. IsGraph(graph') /\ (phase = "ready" => Covers(graph', m[2], listed, parsed))
    BY <2>1, <1>s, RebuildCovers
  <2>3. TimersFit(T, mode[1] = "auto") /\ (TimersFit(T, TRUE))
    <3>1. ASSUME NEW S, TimersFit(S, mode[1] = "auto") PROVE TimersFit(S, TRUE)
      BY <3>1 DEF TimersFit
    <3> QED
      BY <3>1, <1>s, CancelFits
  <2> HIDE DEF T
  <2>4. TimersFit(timers', m[1] = "auto")
    <3>1. CASE m[1] # "auto"
      <4>1. TimersFit(timers', FALSE)
        BY <3>1, <2>1, <2>3, CancelFits
      <4> QED
        BY <4>1, <3>1 DEF TimersFit
    <3>2. CASE m[1] = "auto"
      <4>1. TimersFit(timers', TRUE)
        BY <3>2, <2>1, <2>3, ArmFits
      <4> QED
        BY <4>1, <3>2 DEF TimersFit
    <3> QED
      BY <3>1, <3>2
  <2> QED
    BY <2>1, <2>2, <2>4, <1>s, DriveMoves
<1>13. ASSUME NEW q \in Queries, NEW f \in Files, QueryStart(q, f) PROVE DriveInv'
  <2> DEFINE D == EnsureDeclarations(graph, mode[2], listed, parsed, existing)
             G == EnsureRelationships(D, f, parsed, existing)
  <2>1. /\ \/ graph' = G
           \/ \E k \in BatchEnds(G, parsed) : graph' = Batch(G, k, parsed, existing)
        /\ timers' \in {timers, Cancel(timers), Schedule(Cancel(timers))}
        /\ UNCHANGED <<existing, parsed, walking, listed, mode, phase>>
    BY Zenon, <1>13 DEF QueryStart, Finish, Await, world
  <2>2. KeepsBut(graph, D, {}) /\ IsGraph(D)
    BY <1>s, EnsureDeclarationsKeeps DEF KeepsBut
  <2> HIDE DEF D
  <2>3. KeepsBut(D, G, {}) /\ IsGraph(G)
    BY <2>2, EnsureRelationshipsKeeps DEF KeepsBut
  <2> HIDE DEF G
  <2>4. KeepsBut(G, graph', {})
    <3>1. CASE graph' = G
      BY <3>1, <2>3 DEF KeepsBut
    <3>2. CASE \E k \in BatchEnds(G, parsed) : graph' = Batch(G, k, parsed, existing)
      BY <3>2, <2>3, BatchKeeps
    <3> QED
      BY <2>1, <3>1, <3>2
  <2>5. KeepsBut(graph, graph', {})
    BY <2>2, <2>3, <2>4 DEF KeepsBut
  <2>6. TimersFit(timers', mode[1] = "auto")
    <3>1. TimersFit(Cancel(timers), mode[1] = "auto")
      BY <1>s, CancelFits
    <3> QED
      BY <3>1, <2>1, <1>s, ScheduleFits DEF shouldRunBackground
  <2> QED
    BY <2>1, <2>5, <2>6, <1>k
<1>14. CASE UNCHANGED vars
  <2>1. UNCHANGED <<existing, parsed, walking, listed, mode, phase, graph, timers>>
    BY <1>14 DEF vars
  <2> QED
    BY <2>1, <1>s, DriveMoves
<1> QED
  BY <1>1, <1>2, <1>3, <1>4, <1>5, <1>6, <1>7, <1>8, <1>9, <1>10, <1>11, <1>12, <1>13, <1>14
     DEF Next, ServerStep, UserStep
-----------------------------------------------------------------------------
(* After the start-up, whatever the files import, whatever is edited,      *)
(* created, deleted, rebuilt, configured and asked: every parsed file of   *)
(* the workspace that is not indexed is queued, and the background has one *)
(* chain of timers, or none where the setting forbids it                   *)
(* (scheduleGraphRelationshipIndex, drainGraphRelationshipIndexForQuery,   *)
(* refreshFileAndDependents, rebuildWorkspaceDeclarations).                *)
THEOREM QueueStaysDriven ==
  ASSUME Start = "steady"
  PROVE  RunsSpec => []QueueIsDriven
<1> DEFINE J == part = "steady" => DriveInv
<1>1. RunsInit => J
  BY DriveInit DEF RunsInit
<1>2. J /\ [RunsNext]_runsVars => J'
  <2> SUFFICES ASSUME J, [RunsNext]_runsVars, part' = "steady" PROVE DriveInv'
    OBVIOUS
  <2>1. part = "steady" /\ [Next]_vars
    BY DEF RunsNext, runsVars
  <2> QED
    BY <2>1, DriveNext
<1>3. J => QueueIsDriven
  BY DEF DriveInv, QueueIsDriven, NothingForgotten, OneBackground, Covers, Driven, TimersFit, shouldRunBackground
<1> QED
  BY <1>1, <1>2, <1>3, PTL DEF RunsSpec
-----------------------------------------------------------------------------
(* What is kept of a queue, step by step.                                  *)
KeptBySteps(k, q, S) ==
  /\ k \in [0 .. Len(q) -> Seq(Files)] /\ k[0] = <<>>
  /\ \A i \in 1 .. Len(q) : k[i] = IF q[i] \in S THEN Append(k[i - 1], q[i]) ELSE k[i - 1]

LEMMA KeptSteps ==
  ASSUME NEW q \in Seq(Files), NEW S
  PROVE  \E k : KeptBySteps(k, q, S) /\ Kept(q, S) = k[Len(q)]
<1> DEFINE n == Len(q)
           F == [i \in 1 .. n |-> [s \in Seq(Files) |-> IF q[i] \in S THEN Append(s, q[i]) ELSE s]]
           Is(k) == k = [i \in 0 .. n |-> IF i = 0 THEN <<>> ELSE IF q[i] \in S THEN Append(k[i - 1], q[i]) ELSE k[i - 1]]
<1>1. n \in Nat /\ \A i \in 1 .. n : q[i] \in Files
  OBVIOUS
<1>2. \A i \in 1 .. n : F[i] \in [Seq(Files) -> Seq(Files)]
  BY <1>1
<1>3. \A i \in 1 .. n, s \in Seq(Files) : F[i][s] = IF q[i] \in S THEN Append(s, q[i]) ELSE s
  OBVIOUS
<1>4. <<>> \in Seq(Files)
  OBVIOUS
<1> HIDE DEF n, F
<1> DEFINE none == <<>>
<1>a. none \in Seq(Files)
  OBVIOUS
<1> HIDE DEF none
<1>b. PICK k : Stepped(k, n, Seq(Files), none, F)
  BY <1>1, <1>2, <1>a, StepByStep
<1>5. k \in [0 .. n -> Seq(Files)] /\ k[0] = <<>> /\ \A i \in 1 .. n : k[i] = F[i][k[i - 1]]
  BY <1>b DEF Stepped, none
<1>6. \A i \in 1 .. n : k[i - 1] \in Seq(Files) /\ k[i] = IF q[i] \in S THEN Append(k[i - 1], q[i]) ELSE k[i - 1]
  <2>1. \A i \in 1 .. n : k[i - 1] \in Seq(Files)
    BY <1>1, <1>5
  <2> QED
    BY <2>1, <1>3, <1>5
<1>7. Is(k)
  <2> DEFINE At(i) == IF i = 0 THEN <<>> ELSE IF q[i] \in S THEN Append(k[i - 1], q[i]) ELSE k[i - 1]
  <2>1. \A i \in 0 .. n : k[i] = At(i)
    <3> SUFFICES ASSUME NEW i \in 0 .. n PROVE k[i] = At(i)
      OBVIOUS
    <3>1. CASE i = 0
      BY <1>5, <3>1
    <3>2. CASE i # 0
      <4>1. i \in 1 .. n
        BY <1>1, <3>2
      <4> QED
        BY <1>6, <3>2, <4>1
    <3> QED
      BY <3>1, <3>2
  <2> HIDE DEF At
  <2>2. k = [i \in 0 .. n |-> At(i)]
    BY <1>5, <2>1
  <2> QED
    BY <2>2 DEF At
<1> DEFINE h == CHOOSE h : Is(h)
<1>8. Is(h)
  BY <1>7
<1>9. Kept(q, S) = h[n]
  BY DEF Kept, n
<1> HIDE DEF h
<1>10. \A i \in 0 .. n : h[i] = k[i]
  <2> DEFINE T == {i \in 0 .. n : h[i] = k[i]}
  <2>1. h[0] = <<>> /\ \A i \in 1 .. n : h[i] = IF q[i] \in S THEN Append(h[i - 1], q[i]) ELSE h[i - 1]
    <3> DEFINE At(i) == IF i = 0 THEN <<>> ELSE IF q[i] \in S THEN Append(h[i - 1], q[i]) ELSE h[i - 1]
    <3>1. h = [i \in 0 .. n |-> At(i)]
      BY <1>8
    <3> HIDE DEF At
    <3>2. \A i \in 0 .. n : h[i] = At(i)
      BY <3>1
    <3>3. 0 \in 0 .. n /\ \A i \in 1 .. n : i \in 0 .. n /\ i # 0
      BY <1>1
    <3> QED
      BY <3>2, <3>3 DEF At
  <2> HIDE DEF Is
  <2>2. 0 \in T
    BY <1>1, <1>5, <2>1
  <2>3. ASSUME NEW i \in 0 .. n - 1, i \in T PROVE i + 1 \in T
    <3>1. i + 1 \in 1 .. n /\ (i + 1) - 1 = i /\ h[i] = k[i] /\ i + 1 \in 0 .. n
      BY <1>1, <2>3
    <3>2. h[i + 1] = IF q[i + 1] \in S THEN Append(h[i], q[i + 1]) ELSE h[i]
      BY <2>1, <3>1
    <3>3. k[i + 1] = IF q[i + 1] \in S THEN Append(k[i], q[i + 1]) ELSE k[i]
      BY <1>6, <3>1
    <3> QED
      BY <3>1, <3>2, <3>3
  <2> HIDE DEF T
  <2>4. \A i \in 0 .. n : i \in T
    BY <1>1, <2>2, <2>3, NumbersUpTo
  <2> QED
    BY <2>4 DEF T
<1>11. Kept(q, S) = k[n]
  BY <1>1, <1>9, <1>10
<1> QED
  BY <1>5, <1>6, <1>11 DEF n, KeptBySteps

(* A queue without repetitions, of the files in Q.                         *)
IsQueueOf(q, Q) == q \in Seq(Files) /\ IsInjective(q) /\ Range(q) = Q

LEMMA KeptQueue ==
  ASSUME NEW Q, NEW q, IsQueueOf(q, Q), NEW S
  PROVE  IsQueueOf(Kept(q, S), Q \cap S)
<1>1. q \in Seq(Files) /\ Len(q) \in Nat /\ DOMAIN q = 1 .. Len(q)
  BY DEF IsQueueOf
<1>a. PICK k : KeptBySteps(k, q, S) /\ Kept(q, S) = k[Len(q)]
  BY <1>1, KeptSteps
<1>2. /\ k \in [0 .. Len(q) -> Seq(Files)] /\ k[0] = <<>> /\ Kept(q, S) = k[Len(q)]
      /\ \A i \in 1 .. Len(q) : k[i] = IF q[i] \in S THEN Append(k[i - 1], q[i]) ELSE k[i - 1]
  BY <1>a DEF KeptBySteps
<1> DEFINE Part(i) == {q[j] : j \in 1 .. i} \cap S
           T == {i \in 0 .. Len(q) : IsQueueOf(k[i], Part(i))}
<1>3. 0 \in T
  <2>1. Part(0) = {} /\ IsQueueOf(<<>>, {})
    BY DEF IsQueueOf, IsInjective, Range
  <2> QED
    <3>1. 0 \in 0 .. Len(q) /\ k[0] = <<>>
      BY <1>1, <1>2
    <3> HIDE DEF Part
    <3> QED
      BY <2>1, <3>1, Zenon
<1>4. ASSUME NEW i \in 0 .. Len(q) - 1, i \in T PROVE i + 1 \in T
  <2> DEFINE s == k[i]
             x == q[i + 1]
             P == Part(i)
  <2>1. s \in Seq(Files) /\ IsInjective(s) /\ Range(s) = P
    BY <1>4 DEF IsQueueOf
  <2>2. i + 1 \in 1 .. Len(q) /\ i + 1 \in 0 .. Len(q) /\ x \in Files /\ (i + 1) - 1 = i
    BY <1>1
  <2>3. k[i + 1] = IF x \in S THEN Append(s, x) ELSE s
    BY <1>2, <2>2
  <2>4. Part(i + 1) = IF x \in S THEN P \cup {x} ELSE P
    <3>1. {q[j] : j \in 1 .. i + 1} = {q[j] : j \in 1 .. i} \cup {x}
      BY <2>2
    <3> QED
      BY <3>1
  <2>5. x \notin P
    BY <1>1, <2>2 DEF IsQueueOf, IsInjective
  <2> HIDE DEF s, x, P
  <2>6. CASE x \in S
    <3> DEFINE t == Append(s, x)
    <3>1. /\ t \in Seq(Files) /\ DOMAIN t = 1 .. Len(s) + 1 /\ DOMAIN s = 1 .. Len(s) /\ Len(s) \in Nat
          /\ \A j \in 1 .. Len(s) : t[j] = s[j]
          /\ t[Len(s) + 1] = x
      BY <2>1, <2>2
    <3> HIDE DEF t
    <3>2. \A j \in 1 .. Len(s) : s[j] \in P
      BY <2>1, <3>1 DEF Range
    <3>3. Range(t) = P \cup {x}
      <4>1. \A j \in DOMAIN t : t[j] \in P \cup {x}
        BY <3>1, <3>2
      <4>2. \A y \in P : \E j \in DOMAIN t : t[j] = y
        BY <2>1, <3>1 DEF Range
      <4>3. \E j \in DOMAIN t : t[j] = x
        BY <3>1
      <4> QED
        BY <4>1, <4>2, <4>3 DEF Range
    <3>4. IsInjective(t)
      BY <2>1, <2>5, <3>1, <3>2 DEF IsInjective
    <3>5. IsQueueOf(k[i + 1], Part(i + 1))
      BY <2>3, <2>4, <2>6, <3>1, <3>3, <3>4 DEF IsQueueOf, t
    <3> QED
      BY <2>2, <3>5
  <2>7. CASE x \notin S
    <3>1. IsQueueOf(k[i + 1], Part(i + 1))
      BY <2>1, <2>3, <2>4, <2>7 DEF IsQueueOf
    <3> QED
      BY <2>2, <3>1
  <2> QED
    BY <2>6, <2>7
<1>5. Part(Len(q)) = Q \cap S
  BY <1>1 DEF IsQueueOf, Range
<1> HIDE DEF T
<1>6. Len(q) \in T
  <2>1. \A i \in 0 .. Len(q) : i \in T
    BY <1>1, <1>3, <1>4, NumbersUpTo, Zenon
  <2> QED
    BY <1>1, <2>1
<1> QED
  BY <1>2, <1>5, <1>6 DEF T
-----------------------------------------------------------------------------
(* The files of two queues that have none in common, one after another.    *)
LEMMA JoinedQueue ==
  ASSUME NEW P, NEW p, IsQueueOf(p, P), NEW Q, NEW q, IsQueueOf(q, Q), P \cap Q = {}
  PROVE  IsQueueOf(p \o q, P \cup Q)
<1> DEFINE r == p \o q
<1>1. /\ p \in Seq(Files) /\ q \in Seq(Files) /\ Len(p) \in Nat /\ Len(q) \in Nat
      /\ DOMAIN p = 1 .. Len(p) /\ DOMAIN q = 1 .. Len(q)
  BY DEF IsQueueOf
<1>2. /\ r \in Seq(Files) /\ DOMAIN r = 1 .. Len(p) + Len(q)
      /\ \A i \in 1 .. Len(p) + Len(q) : r[i] = IF i <= Len(p) THEN p[i] ELSE q[i - Len(p)]
  BY <1>1
<1> HIDE DEF r
<1>3. /\ \A i \in 1 .. Len(p) : p[i] \in P
      /\ \A i \in 1 .. Len(q) : q[i] \in Q
      /\ \A x \in P : \E i \in 1 .. Len(p) : p[i] = x
      /\ \A x \in Q : \E i \in 1 .. Len(q) : q[i] = x
  BY <1>1 DEF IsQueueOf, Range
<1>4. /\ \A i \in 1 .. Len(p) : i \in 1 .. Len(p) + Len(q) /\ r[i] = p[i]
      /\ \A i \in 1 .. Len(q) : i + Len(p) \in 1 .. Len(p) + Len(q) /\ r[i + Len(p)] = q[i]
  <2>1. \A i \in 1 .. Len(p) : i \in 1 .. Len(p) + Len(q) /\ r[i] = p[i]
    BY <1>1, <1>2
  <2>2. ASSUME NEW i \in 1 .. Len(q) PROVE i + Len(p) \in 1 .. Len(p) + Len(q) /\ r[i + Len(p)] = q[i]
    <3>1. i + Len(p) \in 1 .. Len(p) + Len(q) /\ ~ (i + Len(p) <= Len(p)) /\ (i + Len(p)) - Len(p) = i
      BY <1>1
    <3> QED
      BY <1>2, <3>1
  <2> QED
    BY <2>1, <2>2
<1>5. \A i \in 1 .. Len(p) + Len(q) :
        \/ i \in 1 .. Len(p) /\ r[i] = p[i]
        \/ i - Len(p) \in 1 .. Len(q) /\ r[i] = q[i - Len(p)]
  BY <1>1, <1>2
<1>6. Range(r) = P \cup Q
  <2>1. \A i \in DOMAIN r : r[i] \in P \cup Q
    BY <1>2, <1>3, <1>5
  <2>2. \A x \in P : \E i \in DOMAIN r : r[i] = x
    BY <1>2, <1>3, <1>4
  <2>3. \A x \in Q : \E i \in DOMAIN r : r[i] = x
    BY <1>2, <1>3, <1>4
  <2> QED
    BY <2>1, <2>2, <2>3 DEF Range
<1>7. IsInjective(r)
  <2> SUFFICES ASSUME NEW i \in DOMAIN r, NEW k \in DOMAIN r, r[i] = r[k] PROVE i = k
    BY DEF IsInjective
  <2>1. /\ \A j, m \in 1 .. Len(p) : p[j] = p[m] => j = m
        /\ \A j, m \in 1 .. Len(q) : q[j] = q[m] => j = m
    BY <1>1 DEF IsQueueOf, IsInjective
  <2> QED
    BY <1>1, <1>2, <1>3, <1>5, <2>1
<1> QED
  BY <1>2, <1>6, <1>7 DEF IsQueueOf, r

(* The files that are left when the first k are taken off.                 *)
Taken(q, k) == {q[i] : i \in 1 .. k}

LEMMA RestOfQueue ==
  ASSUME NEW Q, NEW q, IsQueueOf(q, Q), NEW k \in 0 .. Len(q)
  PROVE  IsQueueOf(SubSeq(q, k + 1, Len(q)), Q \ Taken(q, k)) /\ Taken(q, k) \subseteq Q
<1> DEFINE r == SubSeq(q, k + 1, Len(q))
<1>1. q \in Seq(Files) /\ Len(q) \in Nat /\ DOMAIN q = 1 .. Len(q) /\ \A i \in 1 .. Len(q) : q[i] \in Files
  BY DEF IsQueueOf
<1>2. /\ r \in Seq(Files) /\ DOMAIN r = 1 .. Len(q) - k
      /\ \A i \in 1 .. Len(q) - k : r[i] = q[i + k]
  <2>1. r = [i \in 1 .. Len(q) - k |-> q[i + k]]
    BY <1>1
  <2> HIDE DEF r
  <2>2. \A i \in 1 .. Len(q) - k : i + k \in 1 .. Len(q)
    BY <1>1
  <2>3. r \in [1 .. Len(q) - k -> Files] /\ Len(q) - k \in Nat
    BY <1>1, <2>1, <2>2
  <2>4. r \in Seq(Files)
    BY <2>3, SeqDef
  <2> QED
    BY <2>1, <2>4
<1> HIDE DEF r
<1>3. /\ \A i \in 1 .. Len(q) : q[i] \in Q
      /\ \A x \in Q : \E i \in 1 .. Len(q) : q[i] = x
      /\ \A j, m \in 1 .. Len(q) : q[j] = q[m] => j = m
  BY <1>1 DEF IsQueueOf, Range, IsInjective
<1>4. \A i \in 1 .. Len(q) : i > k => i - k \in 1 .. Len(q) - k /\ (i - k) + k = i
  BY <1>1
<1>5. Range(r) = Q \ {q[i] : i \in 1 .. k}
  <2>1. \A i \in 1 .. Len(q) - k : i + k \in 1 .. Len(q) /\ \A j \in 1 .. k : j \in 1 .. Len(q) /\ j # i + k
    BY <1>1
  <2>2. \A i \in DOMAIN r : r[i] \in Q \ {q[j] : j \in 1 .. k}
    BY <1>2, <1>3, <2>1
  <2>3. ASSUME NEW x \in Q \ {q[j] : j \in 1 .. k} PROVE \E i \in DOMAIN r : r[i] = x
    <3>1. PICK i \in 1 .. Len(q) : q[i] = x
      BY <1>3
    <3>2. i > k
      BY <1>1, <2>3, <3>1
    <3>3. i - k \in DOMAIN r /\ r[i - k] = x
      BY <1>2, <1>4, <3>1, <3>2
    <3> QED
      BY <3>3
  <2> QED
    BY <2>2, <2>3 DEF Range
<1>6. IsInjective(r)
  <2> SUFFICES ASSUME NEW i \in DOMAIN r, NEW j \in DOMAIN r, r[i] = r[j] PROVE i = j
    BY DEF IsInjective
  <2>1. i + k \in 1 .. Len(q) /\ j + k \in 1 .. Len(q) /\ q[i + k] = q[j + k]
    BY <1>1, <1>2
  <2>2. i + k = j + k
    BY <1>3, <2>1
  <2> QED
    BY <1>1, <1>2, <2>2
<1>7. {q[i] : i \in 1 .. k} \subseteq Q
  BY <1>1, <1>3
<1> QED
  BY <1>2, <1>5, <1>6, <1>7 DEF IsQueueOf, r, Taken

LEMMA ListedQueue == ASSUME NEW S, S \subseteq Files PROVE IsQueueOf(ListOf(S), S)
<1>1. IsQueueOf(Order, Files)
  BY GraphAssumption DEF IsQueueOf, IsInjective, Range
<1>2. IsQueueOf(Kept(Order, S), Files \cap S)
  BY <1>1, KeptQueue
<1>3. Files \cap S = S
  OBVIOUS
<1> QED
  BY <1>2, <1>3 DEF ListOf

LEMMA QueueLength ==
  ASSUME NEW Q, NEW q, IsQueueOf(q, Q)
  PROVE  Len(q) = Cardinality(Q) /\ Range(q) = Q /\ Q \subseteq Files
<1>1. q \in Seq(Files) /\ Len(q) \in Nat /\ DOMAIN q = 1 .. Len(q) /\ Range(q) = Q /\ IsInjective(q)
  BY DEF IsQueueOf
<1>2. q \in Bijection(1 .. Len(q), Q)
  <2>1. q \in [1 .. Len(q) -> Q] /\ \A x \in Q : \E i \in 1 .. Len(q) : q[i] = x
    BY <1>1 DEF Range
  <2>2. \A i, k \in 1 .. Len(q) : q[i] = q[k] => i = k
    BY <1>1 DEF IsInjective
  <2> QED
    BY <2>1, <2>2 DEF Bijection, Injection, Surjection, IsInjective
<1>3. ExistsBijection(1 .. Len(q), Q)
  BY <1>2 DEF ExistsBijection
<1>4. IsFiniteSet(1 .. Len(q)) /\ Cardinality(1 .. Len(q)) = Len(q)
  BY <1>1, FS_Interval
<1>5. Cardinality(Q) = Len(q)
  BY <1>3, <1>4, FS_Bijection
<1>6. Q \subseteq Files
  BY <1>1 DEF Range
<1> QED
  BY <1>1, <1>5, <1>6
-----------------------------------------------------------------------------
(* The fields of a graph.                                                  *)
IsA(G, d, e, i, r, q, u) ==
  G = [declared |-> d, edges |-> e, indexed |-> i, related |-> r, queue |-> q, queued |-> u]

LEMMA Fields ==
  ASSUME NEW G, NEW d, NEW e, NEW i, NEW r, NEW q, NEW u, IsA(G, d, e, i, r, q, u)
  PROVE  /\ IsGraph(G) /\ G.declared = d /\ G.edges = e /\ G.indexed = i /\ G.related = r
         /\ G.queue = q /\ G.queued = u
BY DEF IsA, IsGraph

LEMMA WithQueueIs ==
  ASSUME NEW G, IsGraph(G), NEW x, NEW y
  PROVE  IsA(WithQueue(G, x, y), G.declared, G.edges, G.indexed, G.related, x, y)
<1> DEFINE A == [G EXCEPT !.queue = x]
<1>1. IsA(A, G.declared, G.edges, G.indexed, G.related, x, G.queued)
  BY DEF IsGraph, IsA
<1> HIDE DEF A
<1> DEFINE B == [A EXCEPT !.queued = y]
<1>2. IsA(B, G.declared, G.edges, G.indexed, G.related, x, y)
  BY <1>1 DEF IsA
<1>3. B = WithQueue(G, x, y)
  BY Zenon DEF A, WithQueue
<1> HIDE DEF B
<1> QED
  BY <1>2, <1>3

LEMMA WithDeclaredIs ==
  ASSUME NEW G, IsGraph(G), NEW x, NEW y
  PROVE  IsA(WithDeclared(G, x, y), x, y, G.indexed, G.related, G.queue, G.queued)
<1> DEFINE A == [G EXCEPT !.declared = x]
<1>1. IsA(A, x, G.edges, G.indexed, G.related, G.queue, G.queued)
  BY DEF IsGraph, IsA
<1> HIDE DEF A
<1> DEFINE B == [A EXCEPT !.edges = y]
<1>2. IsA(B, x, y, G.indexed, G.related, G.queue, G.queued)
  BY <1>1 DEF IsA
<1>3. B = WithDeclared(G, x, y)
  BY Zenon DEF A, WithDeclared
<1> HIDE DEF B
<1> QED
  BY <1>2, <1>3

LEMMA WithRelatedIs ==
  ASSUME NEW G, IsGraph(G), NEW x, NEW y
  PROVE  IsA(WithRelated(G, x, y), G.declared, G.edges, x, y, G.queue, G.queued)
<1> DEFINE A == [G EXCEPT !.indexed = x]
<1>1. IsA(A, G.declared, G.edges, x, G.related, G.queue, G.queued)
  BY DEF IsGraph, IsA
<1> HIDE DEF A
<1> DEFINE B == [A EXCEPT !.related = y]
<1>2. IsA(B, G.declared, G.edges, x, y, G.queue, G.queued)
  BY <1>1 DEF IsA
<1>3. B = WithRelated(G, x, y)
  BY Zenon DEF A, WithRelated
<1> HIDE DEF B
<1> QED
  BY <1>2, <1>3

(* What each operator makes of them.                                       *)
LEMMA OutdateIs ==
  ASSUME NEW G, IsGraph(G), NEW f
  PROVE  IsA(Outdate(G, f), G.declared, G.edges, G.indexed, G.related \ (Users(f) \cup {f}), G.queue, G.queued)
BY DEF IsGraph, IsA, Outdate

LEMMA ClearIs ==
  ASSUME NEW G, NEW f
  PROVE  IF f \notin G.declared THEN Clear(G, f) = G
         ELSE IsA(Clear(G, f), G.declared \ {f}, {x \in G.edges : f \notin {x[1], x[2]}}, G.indexed \ {f},
                  G.related \ (Users(f) \cup {f}), Kept(G.queue, Files \ {f}), G.queued \ {f})
BY Zenon DEF Clear, IsA

LEMMA UpdateFileIs ==
  ASSUME NEW G, IsGraph(G), NEW f, NEW done, NEW there
  PROVE  LET C == Clear(G, f)
         IN  IF f \notin done THEN UpdateFile(G, f, done, there) = C
             ELSE IsA(UpdateFile(G, f, done, there), C.declared \cup {f},
                      C.edges \cup ({f} \X (Imports[f] \cap there)), C.indexed, C.related, C.queue, C.queued)
<1> DEFINE C == Clear(G, f)
           e == C.edges \cup ({f} \X (Imports[f] \cap there))
           d == C.declared \cup {f}
           D == WithDeclared(C, d, e)
<1>1. IsGraph(C)
  <2>1. IF f \notin G.declared THEN C = G ELSE \E d0, e0, i0, r0, q0, u0 : IsA(C, d0, e0, i0, r0, q0, u0)
    BY ClearIs, Zenon
  <2> HIDE DEF C
  <2> QED
    BY <2>1, Fields
<1>2. UpdateFile(G, f, done, there) = IF f \notin done THEN C ELSE D
  BY Zenon DEF UpdateFile, WithDeclared
<1> HIDE DEF C
<1>3. IsA(D, d, e, C.indexed, C.related, C.queue, C.queued)
  <2> HIDE DEF d, e
  <2> QED
    BY <1>1, WithDeclaredIs
<1>4. IF f \notin done THEN UpdateFile(G, f, done, there) = C
      ELSE IsA(UpdateFile(G, f, done, there), d, e, C.indexed, C.related, C.queue, C.queued)
  <2> HIDE DEF d, e, D
  <2> QED
    BY <1>2, <1>3
<1> QED
  BY <1>4 DEF C

(* The edges that updateFile() adds for the files of a list, in its order. *)
AddedEdges(list, cleared, done, there) ==
  UNION {{list[i]} \X ((Imports[list[i]] \cap there) \ (cleared \cap {list[j] : j \in i + 1 .. Len(list)})) :
           i \in {k \in DOMAIN list : list[k] \in done}}

LEMMA UpdateAllIs ==
  ASSUME NEW G, NEW list, NEW done, NEW there
  PROVE  LET cleared == Range(list) \cap G.declared
         IN  IsA(UpdateAll(G, list, done, there), (G.declared \ cleared) \cup (Range(list) \cap done),
                 {x \in G.edges : {x[1], x[2]} \cap cleared = {}} \cup AddedEdges(list, cleared, done, there),
                 G.indexed \ cleared, G.related \ UNION {Users(f) \cup {f} : f \in cleared},
                 Kept(G.queue, Files \ cleared), G.queued \ cleared)
BY Zenon DEF UpdateAll, AddedEdges, IsA

LEMMA EnqueueIs ==
  ASSUME NEW G, IsGraph(G), NEW m, NEW S
  PROVE  LET new == RelationshipFiles(m, S) \ (G.indexed \cup G.queued)
         IN  IsA(Enqueue(G, m, S), G.declared, G.edges, G.indexed, G.related,
                 G.queue \o ListOf(new), G.queued \cup new)
<1> DEFINE new == RelationshipFiles(m, S) \ (G.indexed \cup G.queued)
           q == G.queue \o ListOf(new)
           u == G.queued \cup new
<1>1. Enqueue(G, m, S) = WithQueue(G, q, u)
  BY Zenon DEF Enqueue, WithQueue
<1>2. IsA(Enqueue(G, m, S), G.declared, G.edges, G.indexed, G.related, q, u)
  <2> HIDE DEF q, u
  <2> QED
    BY <1>1, WithQueueIs
<1> QED
  BY <1>2

LEMMA EnsureRelationshipsIs ==
  ASSUME NEW G, IsGraph(G), NEW f, NEW done, NEW there
  PROVE  IF f \in G.indexed \/ f \notin done THEN EnsureRelationships(G, f, done, there) = G
         ELSE IsA(EnsureRelationships(G, f, done, there), G.declared, G.edges, G.indexed \cup {f},
                  IF Imports[f] \cap there \subseteq done THEN G.related \cup {f} ELSE G.related,
                  Kept(G.queue, Files \ {f}), G.queued \ {f})
<1> DEFINE q == Kept(G.queue, Files \ {f})
           u == G.queued \ {f}
           D == WithQueue(G, q, u)
           i == D.indexed \cup {f}
           r == IF Imports[f] \cap there \subseteq done THEN D.related \cup {f} ELSE D.related
           H == WithRelated(D, i, r)
<1>1. EnsureRelationships(G, f, done, there) = IF f \in G.indexed \/ f \notin done THEN G ELSE H
  BY Zenon DEF EnsureRelationships, Relate, WithRelated, WithQueue
<1>2. IsA(D, G.declared, G.edges, G.indexed, G.related, q, u)
  <2> HIDE DEF q, u
  <2> QED
    BY WithQueueIs
<1> HIDE DEF D
<1>3. /\ IsGraph(D) /\ D.declared = G.declared /\ D.edges = G.edges /\ D.indexed = G.indexed
      /\ D.related = G.related /\ D.queue = q /\ D.queued = u
  <2> HIDE DEF q, u
  <2> QED
    BY <1>2, Fields
<1>4. IsA(H, D.declared, D.edges, i, r, D.queue, D.queued)
  <2> HIDE DEF i, r
  <2> QED
    BY <1>3, WithRelatedIs
<1> HIDE DEF H
<1>5. IsA(H, G.declared, G.edges, G.indexed \cup {f},
          IF Imports[f] \cap there \subseteq done THEN G.related \cup {f} ELSE G.related, q, u)
  BY <1>3, <1>4 DEF i, r
<1> QED
  BY <1>1, <1>5

LEMMA BatchIs ==
  ASSUME NEW G, IsGraph(G), NEW k, NEW done, NEW there
  PROVE  LET taken == {G.queue[i] : i \in 1 .. k}
         IN  IsA(Batch(G, k, done, there), G.declared, G.edges, G.indexed \cup taken,
                 G.related \cup {f \in (taken \cap done) \ G.indexed : Imports[f] \cap there \subseteq done},
                 SubSeq(G.queue, k + 1, Len(G.queue)), G.queued \ taken)
<1> DEFINE taken == {G.queue[j] : j \in 1 .. k}
           q == SubSeq(G.queue, k + 1, Len(G.queue))
           u == G.queued \ taken
           i == G.indexed \cup taken
           r == G.related \cup {f \in (taken \cap done) \ G.indexed : Imports[f] \cap there \subseteq done}
           D == WithQueue(G, q, u)
           H == WithRelated(D, i, r)
<1>1. Batch(G, k, done, there) = H
  BY Zenon DEF Batch, WithRelated, WithQueue
<1> HIDE DEF q, u, i, r
<1>2. IsA(D, G.declared, G.edges, G.indexed, G.related, q, u)
  BY WithQueueIs
<1> HIDE DEF D
<1>3. IsGraph(D) /\ D.declared = G.declared /\ D.edges = G.edges /\ D.queue = q /\ D.queued = u
  BY <1>2, Fields
<1>4. IsA(H, D.declared, D.edges, i, r, D.queue, D.queued)
  BY <1>3, WithRelatedIs
<1> HIDE DEF H
<1>5. IsA(H, G.declared, G.edges, i, r, q, u)
  BY <1>3, <1>4
<1> QED
  BY <1>1, <1>5 DEF q, u, i, r

(* Imports of the files F, as they are there.                              *)
EdgesOf(F, there) == UNION {{f} \X (Imports[f] \cap there) : f \in F}

LEMMA RebuildIs ==
  ASSUME NEW m, NEW list, NEW done, NEW there
  PROVE  LET files == GraphFiles(m, list)
         IN  \E D : /\ IsA(D, files \cap done, EdgesOf(files \cap done, there), {}, {}, <<>>, {})
                    /\ RebuildDeclarations(m, list, done, there) = Enqueue(D, m, files)
<1> DEFINE files == GraphFiles(m, list)
           d == files \cap done
           e == EdgesOf(files \cap done, there)
           D == WithDeclared(EmptyGraph, d, e)
<1>1. RebuildDeclarations(m, list, done, there) = Enqueue(D, m, files)
  BY Zenon DEF RebuildDeclarations, WithDeclared, EdgesOf
<1>2. IsA(EmptyGraph, {}, {}, {}, {}, <<>>, {})
  BY DEF EmptyGraph, IsA
<1>3. IsGraph(EmptyGraph)
  BY DEF EmptyGraph, IsGraph
<1>4. IsA(D, d, e, {}, {}, <<>>, {})
  <2>1. IsA(D, d, e, EmptyGraph.indexed, EmptyGraph.related, EmptyGraph.queue, EmptyGraph.queued)
    <3> HIDE DEF d, e
    <3> QED
      BY <1>3, WithDeclaredIs
  <2> HIDE DEF D, d, e
  <2> QED
    BY <2>1, <1>2, Fields
<1> HIDE DEF D
<1> QED
  BY <1>1, <1>4

LEMMA EnsureDeclarationsIs ==
  ASSUME NEW G, IsGraph(G), NEW m, NEW list, NEW done, NEW there
  PROVE  LET files == GraphFiles(m, list)
             new   == (files \ G.declared) \cap done
         IN  \E D : /\ IsA(D, G.declared \cup new, G.edges \cup EdgesOf(new, there), G.indexed, G.related, G.queue, G.queued)
                    /\ EnsureDeclarations(G, m, list, done, there) = Enqueue(D, m, files \ G.indexed)
<1> DEFINE files == GraphFiles(m, list)
           new == (files \ G.declared) \cap done
           d == G.declared \cup new
           e == G.edges \cup EdgesOf(new, there)
           D == WithDeclared(G, d, e)
<1>1. EnsureDeclarations(G, m, list, done, there) = Enqueue(D, m, files \ G.indexed)
  BY Zenon DEF EnsureDeclarations, WithDeclared, EdgesOf
<1>2. IsA(D, d, e, G.indexed, G.related, G.queue, G.queued)
  <2> HIDE DEF d, e
  <2> QED
    BY WithDeclaredIs
<1> HIDE DEF D
<1> QED
  BY <1>1, <1>2
-----------------------------------------------------------------------------
(***************************************************************************)
(* A graph in order: the queue has each file once, those of "queued", and  *)
(* none that is indexed.                                                   *)
(***************************************************************************)
InOrderly(d, e, i, r, q, u) ==
  /\ d \subseteq Files /\ e \subseteq Files \X Files /\ i \subseteq Files /\ r \subseteq Files
  /\ IsQueueOf(q, u) /\ u \cap i = {}
GraphOK(G) == IsGraph(G) /\ InOrderly(G.declared, G.edges, G.indexed, G.related, G.queue, G.queued)

LEMMA OrderlyIsOK ==
  ASSUME NEW G, NEW d, NEW e, NEW i, NEW r, NEW q, NEW u, IsA(G, d, e, i, r, q, u), InOrderly(d, e, i, r, q, u)
  PROVE  GraphOK(G)
BY Fields DEF GraphOK

LEMMA OutdateOK == ASSUME NEW G, GraphOK(G), NEW f PROVE GraphOK(Outdate(G, f))
<1>1. IsA(Outdate(G, f), G.declared, G.edges, G.indexed, G.related \ (Users(f) \cup {f}), G.queue, G.queued)
  BY OutdateIs DEF GraphOK
<1>2. InOrderly(G.declared, G.edges, G.indexed, G.related \ (Users(f) \cup {f}), G.queue, G.queued)
  BY DEF GraphOK, InOrderly
<1> QED
  BY <1>1, <1>2, OrderlyIsOK

LEMMA KeptWithout ==
  ASSUME NEW q, NEW Q, IsQueueOf(q, Q), NEW S, S \subseteq Files
  PROVE  IsQueueOf(Kept(q, Files \ S), Q \ S)
<1>1. IsQueueOf(Kept(q, Files \ S), Q \cap (Files \ S))
  BY KeptQueue
<1>2. Q \subseteq Files
  BY QueueLength
<1>3. Q \cap (Files \ S) = Q \ S
  BY <1>2
<1> QED
  BY <1>1, <1>3

LEMMA ClearOK == ASSUME NEW G, GraphOK(G), NEW f PROVE GraphOK(Clear(G, f))
<1>1. CASE f \notin G.declared
  BY <1>1, ClearIs
<1>2. CASE f \in G.declared
  <2> DEFINE e == {x \in G.edges : f \notin {x[1], x[2]}}
             r == G.related \ (Users(f) \cup {f})
             q == Kept(G.queue, Files \ {f})
  <2>1. IsA(Clear(G, f), G.declared \ {f}, e, G.indexed \ {f}, r, q, G.queued \ {f})
    BY <1>2, ClearIs
  <2>2. f \in Files
    BY <1>2 DEF GraphOK, InOrderly
  <2>3. IsQueueOf(q, G.queued \ {f})
    <3>1. IsQueueOf(G.queue, G.queued) /\ {f} \subseteq Files
      BY <2>2 DEF GraphOK, InOrderly
    <3> QED
      BY <3>1, KeptWithout
  <2> HIDE DEF q
  <2>4. InOrderly(G.declared \ {f}, e, G.indexed \ {f}, r, q, G.queued \ {f})
    BY <2>3 DEF GraphOK, InOrderly
  <2> HIDE DEF e, r
  <2> QED
    BY <2>1, <2>4, OrderlyIsOK
<1> QED
  BY <1>1, <1>2

LEMMA UpdateFileOK ==
  ASSUME NEW G, GraphOK(G), NEW f \in Files, NEW done, NEW there
  PROVE  GraphOK(UpdateFile(G, f, done, there))
<1> DEFINE C == Clear(G, f)
           d == C.declared \cup {f}
           e == C.edges \cup ({f} \X (Imports[f] \cap there))
<1>1. GraphOK(C)
  BY ClearOK
<1>2. IF f \notin done THEN UpdateFile(G, f, done, there) = C
      ELSE IsA(UpdateFile(G, f, done, there), d, e, C.indexed, C.related, C.queue, C.queued)
  BY UpdateFileIs DEF GraphOK
<1>3. InOrderly(d, e, C.indexed, C.related, C.queue, C.queued)
  <2> HIDE DEF C
  <2>1. Imports[f] \subseteq Files
    BY GraphAssumption
  <2>2. e \subseteq Files \X Files
    BY <1>1, <2>1 DEF GraphOK, InOrderly
  <2> HIDE DEF e
  <2> QED
    BY <1>1, <2>2 DEF GraphOK, InOrderly
<1> HIDE DEF C, d, e
<1> QED
  BY <1>1, <1>2, <1>3, OrderlyIsOK

LEMMA UpdateAllOK ==
  ASSUME NEW G, GraphOK(G), NEW list, Range(list) \subseteq Files, NEW done, NEW there
  PROVE  GraphOK(UpdateAll(G, list, done, there))
<1> DEFINE cleared == Range(list) \cap G.declared
           d == (G.declared \ cleared) \cup (Range(list) \cap done)
           e == {x \in G.edges : {x[1], x[2]} \cap cleared = {}} \cup AddedEdges(list, cleared, done, there)
           r == G.related \ UNION {Users(f) \cup {f} : f \in cleared}
           q == Kept(G.queue, Files \ cleared)
<1>1. IsA(UpdateAll(G, list, done, there), d, e, G.indexed \ cleared, r, q, G.queued \ cleared)
  BY UpdateAllIs
<1>2. cleared \subseteq Files /\ d \subseteq Files /\ r \subseteq Files
  BY DEF GraphOK, InOrderly
<1>3. e \subseteq Files \X Files
  <2>1. \A i \in DOMAIN list : list[i] \in Files /\ Imports[list[i]] \subseteq Files
    BY GraphAssumption DEF Range
  <2>2. AddedEdges(list, cleared, done, there) \subseteq Files \X Files
    BY <2>1 DEF AddedEdges
  <2> QED
    BY <2>2 DEF GraphOK, InOrderly
<1>4. IsQueueOf(q, G.queued \ cleared)
  BY <1>2, KeptWithout DEF GraphOK, InOrderly
<1> HIDE DEF e, d, r, q, cleared
<1>5. InOrderly(d, e, G.indexed \ cleared, r, q, G.queued \ cleared)
  BY <1>2, <1>3, <1>4 DEF GraphOK, InOrderly
<1> QED
  BY <1>1, <1>5, OrderlyIsOK

LEMMA EnqueueOK ==
  ASSUME NEW G, GraphOK(G), NEW m, NEW S, S \subseteq Files
  PROVE  GraphOK(Enqueue(G, m, S))
<1> DEFINE new == RelationshipFiles(m, S) \ (G.indexed \cup G.queued)
           q == G.queue \o ListOf(new)
           u == G.queued \cup new
<1>1. IsA(Enqueue(G, m, S), G.declared, G.edges, G.indexed, G.related, q, u)
  BY EnqueueIs DEF GraphOK
<1>2. new \subseteq Files /\ G.queued \cap new = {} /\ new \cap G.indexed = {}
  BY DEF RelationshipFiles
<1>3. IsQueueOf(q, u)
  <2> HIDE DEF new
  <2>1. IsQueueOf(ListOf(new), new) /\ IsQueueOf(G.queue, G.queued)
    BY <1>2, ListedQueue DEF GraphOK, InOrderly
  <2> QED
    BY <2>1, <1>2, JoinedQueue
<1> HIDE DEF q, new
<1>4. InOrderly(G.declared, G.edges, G.indexed, G.related, q, u)
  BY <1>2, <1>3 DEF GraphOK, InOrderly
<1> QED
  BY <1>1, <1>4, OrderlyIsOK

LEMMA EdgesOfFiles == ASSUME NEW F, F \subseteq Files, NEW there PROVE EdgesOf(F, there) \subseteq Files \X Files
BY GraphAssumption DEF EdgesOf

LEMMA RebuildOK ==
  ASSUME NEW m, NEW list, list \subseteq Files, NEW done, NEW there
  PROVE  GraphOK(RebuildDeclarations(m, list, done, there))
<1> DEFINE files == GraphFiles(m, list)
           e == EdgesOf(files \cap done, there)
<1>1. PICK D : IsA(D, files \cap done, e, {}, {}, <<>>, {}) /\ RebuildDeclarations(m, list, done, there) = Enqueue(D, m, files)
  BY RebuildIs
<1>2. files \subseteq Files /\ e \subseteq Files \X Files
  BY EdgesOfFiles DEF GraphFiles
<1>3. IsQueueOf(<<>>, {})
  BY DEF IsQueueOf, IsInjective, Range
<1> HIDE DEF files, e
<1>4. InOrderly(files \cap done, e, {}, {}, <<>>, {})
  BY <1>2, <1>3 DEF InOrderly
<1>5. GraphOK(D)
  BY <1>1, <1>4, OrderlyIsOK
<1> QED
  BY <1>1, <1>2, <1>5, EnqueueOK

LEMMA EnsureDeclarationsOK ==
  ASSUME NEW G, GraphOK(G), NEW m, NEW list, list \subseteq Files, NEW done, NEW there
  PROVE  GraphOK(EnsureDeclarations(G, m, list, done, there))
<1> DEFINE files == GraphFiles(m, list)
           new == (files \ G.declared) \cap done
           d == G.declared \cup new
           e == G.edges \cup EdgesOf(new, there)
<1>1. PICK D : /\ IsA(D, d, e, G.indexed, G.related, G.queue, G.queued)
               /\ EnsureDeclarations(G, m, list, done, there) = Enqueue(D, m, files \ G.indexed)
  BY EnsureDeclarationsIs DEF GraphOK
<1>2. files \subseteq Files /\ d \subseteq Files /\ e \subseteq Files \X Files
  <2>1. files \subseteq Files
    BY DEF GraphFiles
  <2>2. EdgesOf(new, there) \subseteq Files \X Files
    BY <2>1, EdgesOfFiles
  <2> QED
    BY <2>1, <2>2 DEF GraphOK, InOrderly
<1> HIDE DEF files, d, e
<1>3. InOrderly(d, e, G.indexed, G.related, G.queue, G.queued)
  BY <1>2 DEF GraphOK, InOrderly
<1>4. GraphOK(D)
  BY <1>1, <1>3, OrderlyIsOK
<1> QED
  BY <1>1, <1>2, <1>4, EnqueueOK

LEMMA EnsureRelationshipsOK ==
  ASSUME NEW G, GraphOK(G), NEW f \in Files, NEW done, NEW there
  PROVE  GraphOK(EnsureRelationships(G, f, done, there))
<1> DEFINE r == IF Imports[f] \cap there \subseteq done THEN G.related \cup {f} ELSE G.related
           q == Kept(G.queue, Files \ {f})
           H == EnsureRelationships(G, f, done, there)
<1>1. IF f \in G.indexed \/ f \notin done THEN H = G
      ELSE IsA(H, G.declared, G.edges, G.indexed \cup {f}, r, q, G.queued \ {f})
  BY EnsureRelationshipsIs DEF GraphOK
<1>2. IsQueueOf(q, G.queued \ {f}) /\ r \subseteq Files
  BY KeptWithout DEF GraphOK, InOrderly
<1> HIDE DEF r, q, H
<1>3. InOrderly(G.declared, G.edges, G.indexed \cup {f}, r, q, G.queued \ {f})
  BY <1>2 DEF GraphOK, InOrderly
<1>4. GraphOK(H)
  BY <1>1, <1>3, OrderlyIsOK
<1> QED
  BY <1>4 DEF H

LEMMA BatchOK ==
  ASSUME NEW G, GraphOK(G), NEW k \in 0 .. Len(G.queue), NEW done, NEW there
  PROVE  GraphOK(Batch(G, k, done, there))
<1> DEFINE taken == {G.queue[i] : i \in 1 .. k}
           q == SubSeq(G.queue, k + 1, Len(G.queue))
           r == G.related \cup {f \in (taken \cap done) \ G.indexed : Imports[f] \cap there \subseteq done}
<1>1. IsA(Batch(G, k, done, there), G.declared, G.edges, G.indexed \cup taken, r, q, G.queued \ taken)
  BY BatchIs DEF GraphOK
<1>2. IsQueueOf(q, G.queued \ taken) /\ taken \subseteq G.queued /\ G.queued \subseteq Files
  <2> DEFINE p == G.queue
             Q == G.queued
  <2>1. IsQueueOf(p, Q) /\ k \in 0 .. Len(p)
    BY DEF GraphOK, InOrderly
  <2> HIDE DEF p, Q
  <2>2. IsQueueOf(SubSeq(p, k + 1, Len(p)), Q \ Taken(p, k)) /\ Taken(p, k) \subseteq Q /\ Q \subseteq Files
    BY <2>1, RestOfQueue, QueueLength
  <2> QED
    BY <2>2 DEF p, Q, Taken
<1>3. r \subseteq Files
  BY <1>2 DEF GraphOK, InOrderly
<1> HIDE DEF taken, q, r
<1>4. InOrderly(G.declared, G.edges, G.indexed \cup taken, r, q, G.queued \ taken)
  BY <1>2, <1>3 DEF GraphOK, InOrderly
<1> QED
  BY <1>1, <1>4, OrderlyIsOK
-----------------------------------------------------------------------------
(***************************************************************************)
(* The files that depend on f: what the steps of the search reach.         *)
(***************************************************************************)
NextUp(G, S) == S \cup {e[1] : e \in {x \in G.edges : x[2] \in S}}
N == Cardinality(Files)

LEMMA ImportersSteps ==
  ASSUME NEW G, G.edges \subseteq Files \X Files, NEW f \in Files
  PROVE  LET up == ImportersWithin(G, f)
         IN  /\ N \in Nat /\ DOMAIN up = 0 .. N /\ up[0] = {f}
             /\ \A n \in 0 .. N : up[n] \subseteq Files
             /\ \A n \in 0 .. N - 1 : up[n + 1] = NextUp(G, up[n])
<1> DEFINE F == [n \in 1 .. N |-> [S \in SUBSET Files |-> NextUp(G, S)]]
           At(h, n) == IF n = 0 THEN {f} ELSE h[n - 1] \cup {e[1] : e \in {x \in G.edges : x[2] \in h[n - 1]}}
           Is(h) == h = [n \in 0 .. N |-> At(h, n)]
<1>0. N \in Nat
  BY GraphAssumption, FS_CardinalityType DEF N
<1>1. \A S \in SUBSET Files : NextUp(G, S) \in SUBSET Files
  BY DEF NextUp
<1>2. \A n \in 1 .. N : F[n] \in [SUBSET Files -> SUBSET Files] /\ \A S \in SUBSET Files : F[n][S] = NextUp(G, S)
  BY <1>1
<1> HIDE DEF F
<1>3. PICK k : Stepped(k, N, SUBSET Files, {f}, F)
  <2>1. {f} \in SUBSET Files
    OBVIOUS
  <2> QED
    BY <1>0, <1>2, <2>1, StepByStep
<1>4. k \in [0 .. N -> SUBSET Files] /\ k[0] = {f} /\ \A n \in 1 .. N : k[n] = NextUp(G, k[n - 1])
  <2>1. \A n \in 1 .. N : n - 1 \in 0 .. N
    BY <1>0
  <2> QED
    BY <1>2, <1>3, <2>1 DEF Stepped
<1>5. Is(k)
  <2>1. \A n \in 0 .. N : k[n] = At(k, n)
    <3> SUFFICES ASSUME NEW n \in 0 .. N PROVE k[n] = At(k, n)
      OBVIOUS
    <3>1. CASE n = 0
      BY <3>1, <1>4
    <3>2. CASE n # 0
      <4>1. n \in 1 .. N
        BY <1>0, <3>2
      <4> QED
        BY <4>1, <3>2, <1>4 DEF NextUp
    <3> QED
      BY <3>1, <3>2
  <2> HIDE DEF At
  <2> QED
    BY <1>4, <2>1
<1> DEFINE up == CHOOSE h : Is(h)
<1>6. Is(up)
  BY <1>5
<1>7. ImportersWithin(G, f) = up
  BY DEF ImportersWithin, N
<1> HIDE DEF up
<1>8. DOMAIN up = 0 .. N /\ \A n \in 0 .. N : up[n] = At(up, n)
  <2> HIDE DEF At
  <2> QED
    BY <1>6
<1>9. up[0] = {f} /\ \A n \in 0 .. N - 1 : up[n + 1] = NextUp(G, up[n])
  <2>1. up[0] = {f}
    BY <1>0, <1>8
  <2>2. ASSUME NEW n \in 0 .. N - 1 PROVE up[n + 1] = NextUp(G, up[n])
    <3>1. n + 1 \in 0 .. N /\ n + 1 # 0 /\ (n + 1) - 1 = n
      BY <1>0
    <3>2. up[n + 1] = At(up, n + 1)
      BY <3>1, <1>8
    <3> QED
      BY <3>1, <3>2 DEF NextUp
  <2> QED
    BY <2>1, <2>2
<1>10. \A n \in 0 .. N : up[n] \subseteq Files
  <2> DEFINE T == {n \in 0 .. N : up[n] \subseteq Files}
  <2>1. 0 \in T
    BY <1>0, <1>9
  <2>2. \A n \in 0 .. N - 1 : n \in T => n + 1 \in T
    BY <1>0, <1>1, <1>9
  <2> HIDE DEF T
  <2>3. \A n \in 0 .. N : n \in T
    BY <1>0, <2>1, <2>2, NumbersUpTo
  <2> QED
    BY <2>3 DEF T
<1> QED
  BY <1>0, <1>7, <1>8, <1>9, <1>10

(* The search has come to an end after as many steps as there are files:   *)
(* who imports a file that it has met has been met, too.                   *)
LEMMA SearchEnds ==
  ASSUME NEW G, G.edges \subseteq Files \X Files, NEW f \in Files, NEW e \in G.edges,
         e[2] = f \/ e[2] \in Dependents(G, f)
  PROVE  e[1] = f \/ e[1] \in Dependents(G, f)
<1> DEFINE up == ImportersWithin(G, f)
<1>1. /\ N \in Nat /\ DOMAIN up = 0 .. N /\ up[0] = {f}
      /\ \A n \in 0 .. N : up[n] \subseteq Files
      /\ \A n \in 0 .. N - 1 : up[n + 1] = NextUp(G, up[n])
  BY ImportersSteps
<1>2. Dependents(G, f) = up[N] \ {f}
  BY DEF Dependents, N
<1> HIDE DEF up
<1>3. \A n \in 0 .. N : IsFiniteSet(up[n]) /\ Cardinality(up[n]) \in Nat /\ Cardinality(up[n]) <= N
  BY <1>1, GraphAssumption, FS_Subset, FS_CardinalityType DEF N
<1> DEFINE T == {n \in 0 .. N : f \in up[n] /\ (Cardinality(up[n]) >= n + 1 \/ NextUp(G, up[n]) = up[n])}
<1>4. 0 \in T
  <2>1. Cardinality({f}) = 1
    BY FS_Singleton
  <2>2. Cardinality(up[0]) >= 0 + 1 /\ f \in up[0] /\ 0 \in 0 .. N
    <3>1. Cardinality(up[0]) = 1
      BY <1>1, <2>1
    <3> QED
      BY <1>1, <3>1
  <2> QED
    BY <2>2
<1>5. ASSUME NEW n \in 0 .. N - 1, n \in T PROVE n + 1 \in T
  <2>1. n + 1 \in 0 .. N /\ n \in 0 .. N /\ up[n + 1] = NextUp(G, up[n]) /\ f \in up[n]
    BY <1>1, <1>5
  <2>2. CASE NextUp(G, up[n]) = up[n]
    BY <2>1, <2>2
  <2>3. CASE NextUp(G, up[n]) # up[n]
    <3>1. up[n] \subseteq up[n + 1] /\ up[n] # up[n + 1]
      BY <2>1, <2>3 DEF NextUp
    <3>2. Cardinality(up[n]) < Cardinality(up[n + 1])
      BY <2>1, <3>1, <1>3, FS_Subset
    <3>3. Cardinality(up[n]) >= n + 1
      BY <1>5, <2>3
    <3>4. Cardinality(up[n + 1]) >= (n + 1) + 1
      BY <1>3, <2>1, <3>2, <3>3
    <3> QED
      BY <2>1, <3>1, <3>4
  <2> QED
    BY <2>2, <2>3
<1> HIDE DEF T
<1>6. N \in T
  <2>1. \A n \in 0 .. N : n \in T
    BY <1>1, <1>4, <1>5, NumbersUpTo
  <2> QED
    BY <1>1, <2>1
<1>7. f \in up[N] /\ NextUp(G, up[N]) = up[N]
  <2>1. N \in 0 .. N /\ ~ (N >= N + 1)
    BY <1>1
  <2>2. ~ (Cardinality(up[N]) >= N + 1)
    BY <1>1, <1>3, <2>1
  <2> QED
    BY <1>6, <2>2 DEF T
<1> QED
  BY <1>2, <1>7 DEF NextUp

LEMMA DependentsAreSources ==
  ASSUME NEW G, G.edges \subseteq Files \X Files, NEW f \in Files
  PROVE  Dependents(G, f) \subseteq {e[1] : e \in G.edges} /\ Dependents(G, f) \subseteq Files
<1> DEFINE up == ImportersWithin(G, f)
<1>1. /\ N \in Nat /\ DOMAIN up = 0 .. N /\ up[0] = {f}
      /\ \A n \in 0 .. N : up[n] \subseteq Files
      /\ \A n \in 0 .. N - 1 : up[n + 1] = NextUp(G, up[n])
  BY ImportersSteps
<1>2. Dependents(G, f) = up[N] \ {f}
  BY DEF Dependents, N
<1> HIDE DEF up
<1> DEFINE T == {n \in 0 .. N : up[n] \ {f} \subseteq {e[1] : e \in G.edges}}
<1>3. 0 \in T
  BY <1>1
<1>4. ASSUME NEW n \in 0 .. N - 1, n \in T PROVE n + 1 \in T
  <2>1. up[n + 1] = up[n] \cup {e[1] : e \in {x \in G.edges : x[2] \in up[n]}} /\ n + 1 \in 0 .. N
    BY <1>1 DEF NextUp
  <2>2. up[n + 1] \ {f} \subseteq {e[1] : e \in G.edges}
    BY <2>1, <1>4
  <2> QED
    BY <2>1, <2>2
<1> HIDE DEF T
<1>5. \A n \in 0 .. N : n \in T
  BY <1>1, <1>3, <1>4, NumbersUpTo
<1>6. N \in T /\ N \in 0 .. N
  BY <1>1, <1>5
<1> QED
  BY <1>1, <1>2, <1>6 DEF T

(* A list of the dependents has them all, each once.                       *)
LEMMA ListHasDependents ==
  ASSUME NEW G, G.edges \subseteq Files \X Files, NEW f \in Files, NEW list \in DependentLists(G, f)
  PROVE  /\ Range(list) = Dependents(G, f)
         /\ Len(list) \in Nat /\ DOMAIN list = 1 .. Len(list)
<1> DEFINE S == Dependents(G, f)
           n == Cardinality(S)
<1>1. list \in SetToSeqs(S)
  BY DEF DependentLists
<1>2. IsFiniteSet(S) /\ n \in Nat
  BY DependentsAreSources, GraphAssumption, FS_Subset, FS_CardinalityType
<1>3. list \in [1 .. n -> S] /\ \A i, j \in 1 .. n : i # j => list[i] # list[j]
  BY <1>1 DEF SetToSeqs
<1> HIDE DEF S
<1>4. list \in Injection(1 .. n, S)
  BY <1>3 DEF Injection, IsInjective
<1>5. IsFiniteSet(1 .. n) /\ Cardinality(1 .. n) = n
  BY <1>2, FS_Interval
<1>6. list \in Surjection(1 .. n, S)
  BY <1>2, <1>4, <1>5, FS_Injection
<1>7. Range(list) = S
  BY <1>3, <1>6 DEF Surjection, Range
<1>8. Len(list) = n
  <2>1. list \in Seq(S)
    BY <1>2, <1>3, SeqDef
  <2> QED
    BY <1>2, <1>3, <2>1, LenProperties
<1> QED
  BY <1>2, <1>3, <1>7, <1>8 DEF S
-----------------------------------------------------------------------------
LEMMA RefreshOK ==
  ASSUME NEW G, GraphOK(G), NEW f \in Files, NEW list \in DependentLists(G, f), NEW m, NEW done, NEW there
  PROVE  /\ GraphOK(RefreshWithDependents(Outdate(G, f), m, f, list, done, there))
         /\ GraphOK(RemoveWithDependents(Outdate(G, f), m, f, list, done, there))
<1> DEFINE O == Outdate(G, f)
           U == UpdateFile(O, f, done, there)
           A == UpdateAll(U, list, done, there)
           C == Clear(O, f)
           B == UpdateAll(C, list, done, there)
<1>1. GraphOK(O)
  BY OutdateOK
<1>2. GraphOK(U) /\ GraphOK(C)
  BY <1>1, UpdateFileOK, ClearOK
<1>3. Range(list) \subseteq Files
  <2>1. G.edges \subseteq Files \X Files
    BY DEF GraphOK, InOrderly
  <2> QED
    BY <2>1, ListHasDependents, DependentsAreSources
<1>4. GraphOK(A) /\ GraphOK(B)
  <2> HIDE DEF U, C
  <2> QED
    BY <1>2, <1>3, UpdateAllOK
<1>5. {f} \cup Range(list) \subseteq Files
  BY <1>3
<1>6. GraphOK(Enqueue(A, m, {f} \cup Range(list))) /\ GraphOK(Enqueue(B, m, Range(list)))
  <2> HIDE DEF A, B
  <2> QED
    BY <1>3, <1>4, <1>5, EnqueueOK
<1> QED
  BY <1>6 DEF RefreshWithDependents, RemoveWithDependents

LEMMA EmptyOK == GraphOK(EmptyGraph)
<1>1. IsQueueOf(<<>>, {})
  BY DEF IsQueueOf, IsInjective, Range
<1>2. IsA(EmptyGraph, {}, {}, {}, {}, <<>>, {})
  BY DEF EmptyGraph, IsA
<1>3. InOrderly({}, {}, {}, {}, <<>>, {})
  BY <1>1 DEF InOrderly
<1> QED
  BY <1>2, <1>3, OrderlyIsOK

(***************************************************************************)
(* The types of both parts, with the queue's order.  A fresh start has the *)
(* same operators, but for the size of a batch.                            *)
(***************************************************************************)
LEMMA FreshOperators ==
  ASSUME NEW G, NEW f, NEW done, NEW there, NEW m, NEW S, NEW list, NEW k
  PROVE  /\ Fresh!Outdate(G, f) = Outdate(G, f)
         /\ Fresh!Clear(G, f) = Clear(G, f)
         /\ Fresh!DependentLists(G, f) = DependentLists(G, f)
         /\ Fresh!UpdateFile(G, f, done, there) = UpdateFile(G, f, done, there)
         /\ Fresh!Enqueue(G, m, S) = Enqueue(G, m, S)
         /\ Fresh!UpdateAll(G, list, done, there) = UpdateAll(G, list, done, there)
         /\ Fresh!Batch(G, k, done, there) = Batch(G, k, done, there)
         /\ Fresh!Range(list) = Range(list) /\ Fresh!EmptyGraph = EmptyGraph /\ Fresh!GraphFiles(m, S) = GraphFiles(m, S)
<1>1. Fresh!Outdate(G, f) = Outdate(G, f)
  BY Zenon DEF Fresh!Outdate, Outdate, Fresh!Users, Users
<1>2. Fresh!Clear(G, f) = Clear(G, f)
  BY Zenon DEF Fresh!Clear, Clear, Fresh!Users, Users, Fresh!Kept, Kept
<1>3. Fresh!DependentLists(G, f) = DependentLists(G, f)
  BY Zenon DEF Fresh!DependentLists, DependentLists, Fresh!Dependents, Dependents, Fresh!ImportersWithin, ImportersWithin,
     Fresh!Cardinality, Cardinality, Fresh!IsFiniteSet, IsFiniteSet, Fresh!SetToSeqs, SetToSeqs
<1>4. Fresh!UpdateFile(G, f, done, there) = UpdateFile(G, f, done, there)
  BY Zenon, <1>2 DEF Fresh!UpdateFile, UpdateFile
<1>5. Fresh!Enqueue(G, m, S) = Enqueue(G, m, S)
  BY Zenon DEF Fresh!Enqueue, Enqueue, Fresh!RelationshipFiles, RelationshipFiles, Fresh!ListOf, ListOf, Fresh!Kept, Kept
<1>6. Fresh!UpdateAll(G, list, done, there) = UpdateAll(G, list, done, there)
  BY Zenon DEF Fresh!UpdateAll, UpdateAll, Fresh!Users, Users, Fresh!Kept, Kept, Fresh!Range, Range
<1>7. Fresh!Batch(G, k, done, there) = Batch(G, k, done, there)
  BY Zenon DEF Fresh!Batch, Batch
<1>8. Fresh!Range(list) = Range(list) /\ Fresh!EmptyGraph = EmptyGraph /\ Fresh!GraphFiles(m, S) = GraphFiles(m, S)
  BY Zenon DEF Fresh!Range, Range, Fresh!EmptyGraph, EmptyGraph, Fresh!GraphFiles, GraphFiles
<1> QED
  BY <1>1, <1>2, <1>3, <1>4, <1>5, <1>6, <1>7, <1>8

LEMMA FreshUpdates ==
  ASSUME NEW G, NEW f, NEW done, NEW there, NEW m, NEW S, NEW list
  PROVE  /\ Fresh!RefreshWithDependents(G, m, f, list, done, there) = RefreshWithDependents(G, m, f, list, done, there)
         /\ Fresh!RemoveWithDependents(G, m, f, list, done, there) = RemoveWithDependents(G, m, f, list, done, there)
         /\ Fresh!RebuildDeclarations(m, S, done, there) = RebuildDeclarations(m, S, done, there)
         /\ Fresh!EnsureDeclarations(G, m, S, done, there) = EnsureDeclarations(G, m, S, done, there)
         /\ Fresh!EnsureRelationships(G, f, done, there) = EnsureRelationships(G, f, done, there)
<1>1. Fresh!RefreshWithDependents(G, m, f, list, done, there) = RefreshWithDependents(G, m, f, list, done, there)
  BY FreshOperators DEF Fresh!RefreshWithDependents, RefreshWithDependents
<1>2. Fresh!RemoveWithDependents(G, m, f, list, done, there) = RemoveWithDependents(G, m, f, list, done, there)
  BY FreshOperators DEF Fresh!RemoveWithDependents, RemoveWithDependents
<1>3. Fresh!RebuildDeclarations(m, S, done, there) = RebuildDeclarations(m, S, done, there)
  <2> DEFINE files == GraphFiles(m, S)
             D == [EmptyGraph EXCEPT !.declared = files \cap done,
                                     !.edges = UNION {{g} \X (Imports[g] \cap there) : g \in files \cap done}]
  <2>1. RebuildDeclarations(m, S, done, there) = Enqueue(D, m, files)
    BY Zenon DEF RebuildDeclarations
  <2>2. Fresh!RebuildDeclarations(m, S, done, there) = Fresh!Enqueue(D, m, files)
    BY Zenon DEF Fresh!RebuildDeclarations, Fresh!EmptyGraph, EmptyGraph, Fresh!GraphFiles, GraphFiles
  <2> HIDE DEF D, files
  <2> QED
    BY <2>1, <2>2, FreshOperators
<1>4. Fresh!EnsureDeclarations(G, m, S, done, there) = EnsureDeclarations(G, m, S, done, there)
  <2> DEFINE files == GraphFiles(m, S)
             new == (files \ G.declared) \cap done
             D == [G EXCEPT !.declared = @ \cup new, !.edges = @ \cup UNION {{g} \X (Imports[g] \cap there) : g \in new}]
             F == files \ G.indexed
  <2>1. EnsureDeclarations(G, m, S, done, there) = Enqueue(D, m, F)
    BY Zenon DEF EnsureDeclarations
  <2>2. Fresh!EnsureDeclarations(G, m, S, done, there) = Fresh!Enqueue(D, m, F)
    BY Zenon DEF Fresh!EnsureDeclarations, Fresh!GraphFiles, GraphFiles
  <2> HIDE DEF D, F
  <2> QED
    BY <2>1, <2>2, FreshOperators
<1>5. Fresh!EnsureRelationships(G, f, done, there) = EnsureRelationships(G, f, done, there)
  BY Zenon DEF Fresh!EnsureRelationships, EnsureRelationships, Fresh!Relate, Relate, Fresh!Kept, Kept
<1> QED
  BY <1>1, <1>2, <1>3, <1>4, <1>5
-----------------------------------------------------------------------------
Timers == [generation : Nat, handle : Nat, armed : SUBSET Nat]
Drains == [Queries -> [at : {"idle", "waiting", "done"}, indexed : Nat, remaining : Nat, left : SUBSET Files]]
ModesOf(which) == IF which = "steady" THEN Modes ELSE AutoModes

TypesInv ==
  /\ part \in {"steady", "fresh"} /\ mode \in ModesOf(part)
  /\ existing \subseteq Files /\ listed \subseteq Files /\ parsed \subseteq existing /\ walking \subseteq existing
  /\ GraphOK(graph)
  /\ timers \in Timers /\ phase \in {"sweeping", "ready", "rebuilding"}
  /\ drain \in Drains /\ changes \in 0 .. MaxChanges

LEMMA TypesMove ==
  ASSUME part' \in {"steady", "fresh"}, mode' \in ModesOf(part'),
         existing' \subseteq Files, listed' \subseteq Files, parsed' \subseteq existing', walking' \subseteq existing',
         GraphOK(graph'), timers' \in Timers, phase' \in {"sweeping", "ready", "rebuilding"},
         drain' \in Drains, changes' \in 0 .. MaxChanges
  PROVE  TypesInv'
BY DEF TypesInv, GraphOK, IsGraph, InOrderly, IsQueueOf, ModesOf

LEMMA TimersMove ==
  ASSUME NEW T \in Timers
  PROVE  /\ Arm(T) \in Timers /\ Cancel(T) \in Timers /\ Schedule(T) \in Timers
         /\ Fresh!Arm(T) \in Timers /\ Fresh!Cancel(T) \in Timers /\ Fresh!Schedule(T) \in Timers
BY DEF Timers, Arm, Cancel, Schedule, Fresh!Arm, Fresh!Cancel, Fresh!Schedule

LEMMA WalksStayThere ==
  ASSUME existing \subseteq Files, NEW S, S \subseteq existing, NEW done
  PROVE  WalkFrom(S, done) \subseteq existing /\ Fresh!WalkFrom(S, done) \subseteq existing
<1> DEFINE walks == {T \in SUBSET Files : S \subseteq T /\ \A f \in T \cap done : Imports[f] \cap existing \subseteq T}
<1>1. existing \in walks
  OBVIOUS
<1> HIDE DEF walks
<1>2. WalkFrom(S, done) = {f \in Files : \A T \in walks : f \in T} \ done
  BY Zenon DEF WalkFrom, walks
<1>3. Fresh!WalkFrom(S, done) = {f \in Files : \A T \in walks : f \in T} \ done
  BY Zenon DEF Fresh!WalkFrom, walks
<1> QED
  BY <1>1, <1>2, <1>3

LEMMA BatchesEndThere ==
  ASSUME NEW G, NEW done
  PROVE  BatchEnds(G, done) \subseteq 0 .. Len(G.queue) /\ Fresh!BatchEnds(G, done) \subseteq 0 .. Len(G.queue)
BY DEF BatchEnds, Fresh!BatchEnds

LEMMA CountsAreNumbers ==
  ASSUME NEW G, NEW m, NEW list, list \subseteq Files
  PROVE  /\ Indexed(G, m, list) \in Nat /\ Remaining(G, m, list) \in Nat
         /\ Fresh!Indexed(G, m, list) \in Nat /\ Fresh!Remaining(G, m, list) \in Nat
<1> DEFINE R == RelationshipFiles(m, list)
<1>1. IsFiniteSet(R \cap G.indexed) /\ IsFiniteSet(R \ G.indexed)
  <2>1. R \subseteq Files
    BY DEF RelationshipFiles
  <2> QED
    BY <2>1, GraphAssumption, FS_Subset
<1>2. Cardinality(R \cap G.indexed) \in Nat /\ Cardinality(R \ G.indexed) \in Nat
  BY <1>1, FS_CardinalityType
<1>3. Fresh!Indexed(G, m, list) = Indexed(G, m, list) /\ Fresh!Remaining(G, m, list) = Remaining(G, m, list)
  BY Zenon DEF Fresh!Indexed, Indexed, Fresh!Remaining, Remaining, Fresh!RelationshipFiles, RelationshipFiles,
     Fresh!Cardinality, Cardinality, Fresh!IsFiniteSet, IsFiniteSet
<1>4. Indexed(G, m, list) \in Nat /\ Remaining(G, m, list) \in Nat
  BY <1>2 DEF Indexed, Remaining
<1> QED
  BY <1>3, <1>4

LEMMA DrainsMove ==
  ASSUME drain \in Drains, NEW q \in Queries, NEW G, NEW canceled \in BOOLEAN, NEW T \in Timers,
         GraphOK(G), listed \subseteq Files,
         Finish(q, G, T, canceled) \/ Await(q, G, T) \/ Fresh!Finish(q, G, T, canceled) \/ Fresh!Await(q, G, T)
  PROVE  drain' \in Drains /\ timers' \in Timers
<1> DEFINE Rec == [at : {"idle", "waiting", "done"}, indexed : Nat, remaining : Nat, left : SUBSET Files]
<1>1. timers' \in {T, Schedule(T), Fresh!Schedule(T)} /\ timers' \in Timers
  BY TimersMove DEF Finish, Await, Fresh!Finish, Fresh!Await
<1>2. \E d \in Rec : drain' = [drain EXCEPT ![q] = d]
  <2>1. G.queued \subseteq Files
    BY QueueLength DEF GraphOK, InOrderly
  <2>2. CASE Finish(q, G, T, canceled) \/ Fresh!Finish(q, G, T, canceled)
    <3> DEFINE d == [Idle EXCEPT !.at = "done", !.left = IF canceled THEN {} ELSE G.queued]
    <3>1. drain' = [drain EXCEPT ![q] = d]
      BY <2>2, Zenon DEF Finish, Fresh!Finish, Idle, Fresh!Idle
    <3>2. (IF canceled THEN {} ELSE G.queued) \in SUBSET Files
      BY <2>1
    <3>3. d \in Rec
      <4> DEFINE rest == IF canceled THEN {} ELSE G.queued
                 d0 == [Idle EXCEPT !.at = "done"]
                 d1 == [d0 EXCEPT !.left = rest]
      <4>1. d = d1
        BY Zenon
      <4>2. d0 \in Rec
        BY DEF Idle
      <4> HIDE DEF d0, d, rest
      <4>3. d1 \in Rec
        BY <3>2, <4>2 DEF rest
      <4> QED
        BY <4>1, <4>3
    <3> QED
      BY <3>1, <3>3
  <2>3. CASE Await(q, G, T) \/ Fresh!Await(q, G, T)
    <3>1. PICK x, y : /\ x \in Nat /\ y \in Nat
                      /\ drain' = [drain EXCEPT ![q] = [at |-> "waiting", left |-> {}, indexed |-> x, remaining |-> y]]
      BY <2>3, CountsAreNumbers DEF Await, Fresh!Await
    <3>2. [at |-> "waiting", left |-> {}, indexed |-> x, remaining |-> y] \in Rec
      BY <3>1
    <3> QED
      BY <3>1, <3>2
  <2> QED
    BY <2>2, <2>3
<1> HIDE DEF Rec
<1>3. drain' \in [Queries -> Rec]
  BY <1>2 DEF Drains, Rec
<1> QED
  BY <1>1, <1>3 DEF Drains, Rec
-----------------------------------------------------------------------------
LEMMA TypesInit == ASSUME Start = "steady", RunsInit PROVE TypesInv
<1>1. [generation |-> 0, handle |-> 0, armed |-> {}] \in Timers /\ [q \in Queries |-> Idle] \in Drains /\ 0 \in 0 .. MaxChanges
  BY ScheduleAssumption DEF Timers, Drains, Idle
<1>2. CASE part = "steady" /\ Init
  <2> DEFINE G == RebuildDeclarations(mode[2], listed, listed, listed)
  <2>1. /\ existing = Files \ Missing /\ listed = Files \ Missing /\ mode \in Modes /\ walking = {}
        /\ timers = [generation |-> 0, handle |-> 0, armed |-> {}] /\ drain = [q \in Queries |-> Idle]
        /\ changes = 0 /\ phase = "ready" /\ parsed = listed /\ graph = Batch(G, Len(G.queue), listed, listed)
    BY <1>2 DEF Init
  <2>2. GraphOK(G)
    BY <2>1, RebuildOK
  <2> HIDE DEF G
  <2>3. Len(G.queue) \in 0 .. Len(G.queue)
    BY <2>2 DEF GraphOK, InOrderly, IsQueueOf
  <2>4. GraphOK(graph)
    BY <2>1, <2>2, <2>3, BatchOK
  <2> QED
    BY <1>1, <1>2, <2>1, <2>4 DEF TypesInv, ModesOf
<1>3. CASE part = "fresh" /\ Fresh!Init
  <2>1. /\ existing = Files \ {c} /\ listed = Files \ {c} /\ mode \in AutoModes /\ walking = {}
        /\ timers = [generation |-> 0, handle |-> 0, armed |-> {}] /\ drain = [q \in Queries |-> Idle]
        /\ changes = 0 /\ phase = "sweeping" /\ parsed = {} /\ graph = EmptyGraph
    BY <1>3 DEF Fresh!Init, Fresh!EmptyGraph, EmptyGraph, Fresh!Idle, Idle
  <2> QED
    BY <1>1, <1>3, <2>1, EmptyOK DEF TypesInv, ModesOf
<1> QED
  BY <1>2, <1>3 DEF RunsInit

LEMMA TypesNext == TypesInv /\ [RunsNext]_runsVars => TypesInv'
<1> SUFFICES ASSUME TypesInv, [RunsNext]_runsVars PROVE TypesInv'
  OBVIOUS
<1>s. /\ part \in {"steady", "fresh"} /\ mode \in ModesOf(part)
      /\ existing \subseteq Files /\ listed \subseteq Files /\ parsed \subseteq existing /\ walking \subseteq existing
      /\ GraphOK(graph) /\ timers \in Timers /\ phase \in {"sweeping", "ready", "rebuilding"}
      /\ drain \in Drains /\ changes \in 0 .. MaxChanges
  BY DEF TypesInv
<1>p. part' = part
  BY DEF RunsNext, runsVars
<1>m. ASSUME NEW move, May(move) \/ Fresh!May(move) PROVE changes' \in 0 .. MaxChanges
  BY <1>m, <1>s, ScheduleAssumption DEF May, Fresh!May
(* The batches of the background and of queries.                           *)
<1>b. ASSUME NEW G, GraphOK(G), NEW H, (\E k \in BatchEnds(G, parsed) : H = Batch(G, k, parsed, existing))
             \/ (\E k \in Fresh!BatchEnds(G, parsed) : H = Fresh!Batch(G, k, parsed, existing))
      PROVE  GraphOK(H)
  <2>1. \E k \in 0 .. Len(G.queue) : H = Batch(G, k, parsed, existing)
    BY <1>b, BatchesEndThere, FreshOperators
  <2> QED
    BY <1>b, <2>1, BatchOK
<1>1. ASSUME NEW t, RunBatch(t) \/ Fresh!RunBatch(t) PROVE TypesInv'
  <2>1. UNCHANGED <<existing, listed, parsed, walking, mode, phase, drain, changes>> /\ t \in timers.armed
    BY <1>1 DEF RunBatch, Fresh!RunBatch, world, Fresh!world
  <2>2. GraphOK(graph')
    <3>1. \/ graph' = graph
          \/ \E k \in BatchEnds(graph, parsed) : graph' = Batch(graph, k, parsed, existing)
          \/ \E k \in Fresh!BatchEnds(graph, parsed) : graph' = Fresh!Batch(graph, k, parsed, existing)
      BY <1>1, Zenon DEF RunBatch, Fresh!RunBatch
    <3> QED
      BY <3>1, <1>s, <1>b
  <2>3. timers' \in Timers
    <3>1. \/ timers' = [timers EXCEPT !.armed = timers.armed \ {t}]
          \/ timers' = Reset(timers, 0, timers.armed \ {t})
          \/ timers' = [timers EXCEPT !.handle = t]
      BY <1>1, Zenon DEF RunBatch, Fresh!RunBatch, Reset
    <3>2. timers.armed \in SUBSET Nat /\ t \in Nat
      BY <1>s, <2>1 DEF Timers
    <3>3. Reset(timers, 0, timers.armed \ {t}) \in Timers
      BY <1>s, <3>2, ResetFields DEF Timers
    <3>4. [timers EXCEPT !.armed = timers.armed \ {t}] \in Timers /\ [timers EXCEPT !.handle = t] \in Timers
      BY <1>s, <3>2 DEF Timers
    <3> QED
      BY <3>1, <3>3, <3>4
  <2> QED
    BY <1>s, <1>p, <2>1, <2>2, <2>3, TypesMove
<1>2. ASSUME NEW f \in Files, SweepFile(f) \/ Fresh!SweepFile(f) PROVE TypesInv'
  <2>1. /\ f \in existing /\ parsed' = parsed \cup {f}
        /\ UNCHANGED <<existing, listed, walking, graph, mode, timers, phase, drain, changes>>
    BY <1>2 DEF SweepFile, Fresh!SweepFile
  <2> QED
    BY <1>s, <1>p, <2>1, TypesMove
<1>3. ASSUME NEW f \in Files, WalkDone(f) \/ Fresh!WalkDone(f) PROVE TypesInv'
  <2>1. /\ parsed' = parsed \cup (existing \cap {f})
        /\ \/ walking' = (walking \ {f}) \cup WalkFrom({f} \cap existing, parsed')
           \/ walking' = (walking \ {f}) \cup Fresh!WalkFrom({f} \cap existing, parsed')
        /\ graph' = UpdateFile(graph, f, parsed', existing)
        /\ UNCHANGED <<existing, listed, mode, timers, phase, drain, changes>>
    BY <1>3, FreshOperators DEF WalkDone, Fresh!WalkDone
  <2>2. walking' \subseteq existing
    BY <1>s, <2>1, WalksStayThere
  <2>3. GraphOK(graph')
    BY <1>s, <2>1, UpdateFileOK
  <2> QED
    BY <1>s, <1>p, <2>1, <2>2, <2>3, TypesMove
<1>4. CASE Initialized \/ Fresh!Initialized
  <2>1. /\ graph' = EnsureDeclarations(graph, mode[2], listed, parsed, existing)
        /\ timers' \in {timers, Schedule(timers), Fresh!Schedule(timers)} /\ phase' = "ready"
        /\ UNCHANGED <<existing, listed, parsed, walking, mode, drain, changes>>
    BY <1>4, FreshUpdates DEF Initialized, Fresh!Initialized, world, Fresh!world
  <2>2. GraphOK(graph') /\ timers' \in Timers
    BY <1>s, <2>1, EnsureDeclarationsOK, TimersMove
  <2> QED
    BY <1>s, <1>p, <2>1, <2>2, TypesMove
<1>5. ASSUME NEW r, RebuildEnd(r) \/ Fresh!RebuildEnd(r) PROVE TypesInv'
  <2> DEFINE G == RebuildDeclarations(mode[2], listed, parsed, existing)
             B == Batch(G, Len(G.queue), parsed, existing)
  <2> DEFINE Moved == /\ graph' \in {G, B} /\ timers' \in {timers, Schedule(timers), Fresh!Schedule(timers)}
                      /\ phase' = "ready" /\ UNCHANGED <<existing, listed, parsed, walking, mode, drain, changes>>
  <2>1. Moved
    <3>1. ASSUME RebuildEnd(r) PROVE Moved
      BY <3>1 DEF RebuildEnd, world
    <3>2. ASSUME Fresh!RebuildEnd(r) PROVE Moved
      <4> DEFINE FG == Fresh!RebuildDeclarations(mode[2], listed, parsed, existing)
                 FB == Fresh!Batch(FG, Len(FG.queue), parsed, existing)
      <4>1. graph' \in {FG, FB}
        BY <3>2 DEF Fresh!RebuildEnd
      <4>2. FG = G
        BY FreshUpdates
      <4> HIDE DEF FG, G
      <4>3. FB = B
        BY <4>2, FreshOperators
      <4> QED
        BY <3>2, <4>1, <4>2, <4>3 DEF Fresh!RebuildEnd, Fresh!world
    <3> QED
      BY <1>5, <3>1, <3>2
  <2>2. GraphOK(G)
    BY <1>s, RebuildOK
  <2> HIDE DEF G
  <2>3. GraphOK(B)
    <3>1. Len(G.queue) \in 0 .. Len(G.queue)
      BY <2>2 DEF GraphOK, InOrderly, IsQueueOf
    <3> QED
      BY <2>2, <3>1, BatchOK
  <2> HIDE DEF B
  <2>4. timers' \in Timers /\ GraphOK(graph')
    BY <1>s, <2>1, <2>2, <2>3, TimersMove
  <2> QED
    BY <1>s, <1>p, <2>1, <2>4, TypesMove
<1>6. ASSUME NEW q \in Queries, NEW canceled \in BOOLEAN, QueryStep(q, canceled) \/ Fresh!QueryStep(q, canceled) PROVE TypesInv'
  <2>1. /\ UNCHANGED <<existing, listed, parsed, walking, mode, phase, changes>>
        /\ \/ \E k \in BatchEnds(graph, parsed) : graph' = Batch(graph, k, parsed, existing)
           \/ \E k \in Fresh!BatchEnds(graph, parsed) : graph' = Fresh!Batch(graph, k, parsed, existing)
        /\ \/ Finish(q, graph', timers, canceled) \/ Await(q, graph', timers)
           \/ Fresh!Finish(q, graph', timers, canceled) \/ Fresh!Await(q, graph', timers)
    BY <1>6, Zenon DEF QueryStep, Fresh!QueryStep, world, Fresh!world
  <2>2. GraphOK(graph')
    BY <1>s, <2>1, <1>b
  <2>3. drain' \in Drains /\ timers' \in Timers
    BY <1>s, <2>1, <2>2, DrainsMove
  <2> QED
    BY <1>s, <1>p, <2>1, <2>2, <2>3, TypesMove
<1>7. ASSUME NEW f \in Files, OnDidChangeContent(f) \/ Fresh!OnDidChangeContent(f) PROVE TypesInv'
  <2>1. /\ May("edit") \/ Fresh!May("edit")
        /\ f \in existing /\ parsed' = parsed \cup {f} /\ existing' = existing
        /\ \/ walking' = walking \cup WalkFrom({f}, parsed')
           \/ walking' = walking \cup Fresh!WalkFrom({f}, parsed')
        /\ timers' \in {Schedule(timers), Fresh!Schedule(timers)}
        /\ UNCHANGED <<listed, mode, phase, drain>> /\ (RefreshGraph(f) \/ Fresh!RefreshGraph(f))
    BY <1>7 DEF OnDidChangeContent, Fresh!OnDidChangeContent
  <2>2. \E list \in DependentLists(graph, f) :
           graph' = RefreshWithDependents(Outdate(graph, f), mode[2], f, list, parsed', existing')
    BY <2>1, FreshOperators, FreshUpdates DEF RefreshGraph, Fresh!RefreshGraph
  <2>3. GraphOK(graph')
    BY <1>s, <2>2, RefreshOK
  <2>4. walking' \subseteq existing' /\ timers' \in Timers
    BY <1>s, <2>1, WalksStayThere, TimersMove
  <2> QED
    BY <1>s, <1>p, <1>m, <2>1, <2>3, <2>4, TypesMove
<1>8. ASSUME NEW f \in Files, FileCreated(f) \/ Fresh!FileCreated(f) PROVE TypesInv'
  <2>1. /\ May("create") \/ Fresh!May("create")
        /\ existing' = existing \cup {f} /\ parsed' = parsed \cup {f}
        /\ timers' \in {Schedule(timers), Fresh!Schedule(timers)}
        /\ UNCHANGED <<listed, walking, mode, phase, drain>> /\ (RefreshGraph(f) \/ Fresh!RefreshGraph(f))
    BY <1>8 DEF FileCreated, Fresh!FileCreated
  <2>2. \E list \in DependentLists(graph, f) :
           graph' = RefreshWithDependents(Outdate(graph, f), mode[2], f, list, parsed', existing')
    BY <2>1, FreshOperators, FreshUpdates DEF RefreshGraph, Fresh!RefreshGraph
  <2>3. GraphOK(graph') /\ timers' \in Timers
    BY <1>s, <2>1, <2>2, RefreshOK, TimersMove
  <2> QED
    BY <1>s, <1>p, <1>m, <2>1, <2>3, TypesMove
<1>9. ASSUME NEW f \in Files, FileDeleted(f) \/ Fresh!FileDeleted(f) PROVE TypesInv'
  <2>1. /\ May("delete") \/ Fresh!May("delete")
        /\ f \notin walking /\ existing' = existing \ {f} /\ parsed' = parsed \ {f}
        /\ timers' \in {Schedule(timers), Fresh!Schedule(timers)}
        /\ UNCHANGED <<listed, walking, mode, phase, drain>>
    BY <1>9 DEF FileDeleted, Fresh!FileDeleted
  <2>2. \E list \in DependentLists(graph, f) :
           graph' = RemoveWithDependents(Outdate(graph, f), mode[2], f, list, parsed', existing')
    BY <1>9, FreshOperators, FreshUpdates DEF FileDeleted, Fresh!FileDeleted
  <2>3. GraphOK(graph') /\ timers' \in Timers
    BY <1>s, <2>1, <2>2, RefreshOK, TimersMove
  <2> QED
    BY <1>s, <1>p, <1>m, <2>1, <2>3, TypesMove
<1>10. CASE Search \/ Fresh!Search
  <2>1. /\ May("search") \/ Fresh!May("search")
        /\ graph' = EnsureDeclarations(graph, mode[2], listed, parsed, existing)
        /\ UNCHANGED <<existing, listed, parsed, walking, mode, timers, phase, drain>>
    BY <1>10, FreshUpdates DEF Search, Fresh!Search, world, Fresh!world
  <2>2. GraphOK(graph')
    BY <1>s, <2>1, EnsureDeclarationsOK
  <2> QED
    BY <1>s, <1>p, <1>m, <2>1, <2>2, TypesMove
<1>11. CASE Reload \/ Fresh!Reload
  <2>1. /\ May("reload") \/ Fresh!May("reload")
        /\ listed' = existing /\ parsed' = parsed \cup (GraphFiles(mode[2], existing) \ walking)
        /\ graph' = RebuildDeclarations(mode[2], listed', parsed', existing)
        /\ timers' \in {Schedule(Cancel(timers)), Fresh!Schedule(Fresh!Cancel(timers))}
        /\ UNCHANGED <<existing, walking, mode, phase, drain>>
    BY <1>11, FreshUpdates, FreshOperators DEF Reload, Fresh!Reload
  <2>2. parsed' \subseteq existing
    BY <1>s, <2>1 DEF GraphFiles
  <2>3. GraphOK(graph') /\ timers' \in Timers
    BY <1>s, <2>1, RebuildOK, TimersMove
  <2> QED
    BY <1>s, <1>p, <1>m, <2>1, <2>2, <2>3, TypesMove
<1>12. CASE RebuildStart \/ Fresh!RebuildStart
  <2>1. /\ May("rebuild") \/ Fresh!May("rebuild")
        /\ phase' = "rebuilding" /\ listed' = existing /\ timers' \in {Cancel(timers), Fresh!Cancel(timers)}
        /\ UNCHANGED <<existing, parsed, walking, graph, mode, drain>>
    BY <1>12 DEF RebuildStart, Fresh!RebuildStart
  <2>2. timers' \in Timers
    BY <1>s, <2>1, TimersMove
  <2> QED
    BY <1>s, <1>p, <1>m, <2>1, <2>2, TypesMove
<1>13. ASSUME NEW n, n \in ModesOf(part), OnDidChangeConfiguration(n) \/ Fresh!OnDidChangeConfiguration(n) PROVE TypesInv'
  <2>1. /\ May("config") \/ Fresh!May("config")
        /\ mode' = n /\ graph' \in {graph, RebuildDeclarations(n[2], listed, parsed, existing)}
        /\ UNCHANGED <<existing, listed, parsed, walking, phase, drain>>
    BY <1>13, FreshUpdates DEF OnDidChangeConfiguration, Fresh!OnDidChangeConfiguration, world, Fresh!world
  <2>2. \E T \in {timers, Cancel(timers), Fresh!Cancel(timers)} : timers' \in {T, Cancel(T), Fresh!Cancel(T), Arm(T), Fresh!Arm(T)}
    BY <1>13 DEF OnDidChangeConfiguration, Fresh!OnDidChangeConfiguration
  <2>3. GraphOK(graph') /\ timers' \in Timers
    BY <1>s, <2>1, <2>2, RebuildOK, TimersMove
  <2> QED
    BY <1>s, <1>p, <1>m, <1>13, <2>1, <2>3, TypesMove
<1>14. ASSUME NEW q \in Queries, NEW f \in Files, QueryStart(q, f) \/ Fresh!QueryStart(q, f) PROVE TypesInv'
  <2> DEFINE D == EnsureDeclarations(graph, mode[2], listed, parsed, existing)
             G == EnsureRelationships(D, f, parsed, existing)
             FG == Fresh!EnsureRelationships(Fresh!EnsureDeclarations(graph, mode[2], listed, parsed, existing), f, parsed, existing)
             done == [drain EXCEPT ![q].at = "done"]
             Drained(T, U) == \/ Finish(q, graph', T, FALSE) \/ Await(q, graph', T)
                              \/ Fresh!Finish(q, graph', U, FALSE) \/ Fresh!Await(q, graph', U)
  <2>1. GraphOK(G)
    <3>1. GraphOK(D)
      BY <1>s, EnsureDeclarationsOK
    <3> HIDE DEF D
    <3> QED
      BY <3>1, EnsureRelationshipsOK
  <2>2. FG = G
    <3>1. Fresh!EnsureDeclarations(graph, mode[2], listed, parsed, existing) = D
      BY FreshUpdates
    <3> HIDE DEF D
    <3> QED
      BY <3>1, FreshUpdates
  <2> HIDE DEF G, D, FG
  <2> DEFINE Moved == /\ UNCHANGED <<existing, listed, parsed, walking, mode, phase, changes>>
                      /\ \/ graph' = G /\ drain' = done /\ timers' = timers
                         \/ /\ \/ \E k \in BatchEnds(G, parsed) : graph' = Batch(G, k, parsed, existing)
                               \/ \E k \in Fresh!BatchEnds(G, parsed) : graph' = Fresh!Batch(G, k, parsed, existing)
                            /\ Drained(Cancel(timers), Fresh!Cancel(timers))
  <2>3. Moved
    <3>1. ASSUME QueryStart(q, f) PROVE Moved
      BY <3>1, Zenon DEF QueryStart, world, G, D
    <3>2. ASSUME Fresh!QueryStart(q, f) PROVE Moved
      <4>1. /\ UNCHANGED <<existing, listed, parsed, walking, mode, phase, changes>>
            /\ \/ graph' = FG /\ drain' = done /\ timers' = timers
               \/ /\ \E k \in Fresh!BatchEnds(FG, parsed) : graph' = Fresh!Batch(FG, k, parsed, existing)
                  /\ Drained(Cancel(timers), Fresh!Cancel(timers))
        BY <3>2, Zenon DEF Fresh!QueryStart, Fresh!world, FG
      <4> HIDE DEF Drained, done
      <4> QED
        BY <2>2, <4>1
    <3> QED
      BY <1>14, <3>1, <3>2
  <2>4. GraphOK(graph')
    BY <2>1, <2>3, <1>b
  <2>5. drain' \in Drains /\ timers' \in Timers
    <3>1. done \in Drains
      BY <1>s DEF Drains
    <3>2. ASSUME Drained(Cancel(timers), Fresh!Cancel(timers)) PROVE drain' \in Drains /\ timers' \in Timers
      <4>1. Cancel(timers) \in Timers /\ Fresh!Cancel(timers) \in Timers
        BY <1>s, TimersMove
      <4> QED
        BY <1>s, <2>4, <3>2, <4>1, DrainsMove
    <3> HIDE DEF done, Drained
    <3> QED
      BY <1>s, <2>3, <3>1, <3>2
  <2> QED
    BY <1>s, <1>p, <2>3, <2>4, <2>5, TypesMove
<1>15. CASE UNCHANGED runsVars
  <2>1. UNCHANGED <<existing, listed, parsed, walking, graph, mode, timers, phase, drain, changes>>
    BY <1>15 DEF runsVars, vars
  <2> QED
    BY <1>s, <1>p, <2>1, TypesMove
<1>16. CASE part = "steady" /\ Next
  <2>1. Modes = ModesOf(part)
    BY <1>16 DEF ModesOf
  <2>2. ServerStep \/ UserStep
    BY <1>16 DEF Next
  <2>3. CASE ServerStep
    BY <2>3, <1>1, <1>2, <1>3, <1>4, <1>5, <1>6 DEF ServerStep
  <2>4. CASE UserStep
    BY <2>1, <2>4, <1>7, <1>8, <1>9, <1>10, <1>11, <1>12, <1>13, <1>14 DEF UserStep
  <2> QED
    BY <2>2, <2>3, <2>4
<1>17. CASE part = "fresh" /\ Fresh!Next
  <2>1. AutoModes = ModesOf(part)
    BY <1>17 DEF ModesOf
  <2>2. Fresh!ServerStep \/ Fresh!UserStep
    BY <1>17 DEF Fresh!Next
  <2>3. CASE Fresh!ServerStep
    BY <2>3, <1>1, <1>2, <1>3, <1>4, <1>5, <1>6 DEF Fresh!ServerStep
  <2>4. CASE Fresh!UserStep
    BY <2>1, <2>4, <1>7, <1>8, <1>9, <1>10, <1>11, <1>12, <1>13, <1>14 DEF Fresh!UserStep
  <2> QED
    BY <2>2, <2>3, <2>4
<1> QED
  BY <1>15, <1>16, <1>17 DEF RunsNext
-----------------------------------------------------------------------------
(***************************************************************************)
(* Where importing leads, and what the search for dependents meets.        *)
(***************************************************************************)
EdgesFit(G, there) == G.declared \subseteq Files /\ G.edges \subseteq EdgesOf(G.declared, there)

LEMMA EdgesAre ==
  ASSUME NEW S, NEW there
  PROVE  /\ \A x \in EdgesOf(S, there) : x[1] \in S /\ x[2] \in Imports[x[1]] \cap there /\ x = <<x[1], x[2]>>
         /\ \A g \in S : \A h \in Imports[g] \cap there : <<g, h>> \in EdgesOf(S, there)
BY DEF EdgesOf

LEMMA FittingEdges ==
  ASSUME NEW G, NEW there, EdgesFit(G, there)
  PROVE  /\ G.edges \subseteq Files \X Files
         /\ \A e \in G.edges : e[1] \in G.declared /\ e[2] \in Imports[e[1]] \cap there /\ e = <<e[1], e[2]>>
<1>1. \A e \in G.edges : e[1] \in G.declared /\ e[2] \in Imports[e[1]] \cap there /\ e = <<e[1], e[2]>>
  BY EdgesAre DEF EdgesFit
<1>2. G.edges \subseteq Files \X Files
  BY EdgesOfFiles DEF EdgesFit
<1> QED
  BY <1>1, <1>2

LEMMA LeadsOn ==
  ASSUME NEW f \in Files, NEW g \in Imports[f], NEW x, Leads(g, x)
  PROVE  Leads(f, x)
BY DEF Leads

(* Importing leads to f from every file that the search from f meets.      *)
LEMMA MetLeadHere ==
  ASSUME NEW G, NEW there, EdgesFit(G, there), NEW f \in Files
  PROVE  \A n \in 0 .. N : \A d \in ImportersWithin(G, f)[n] : Leads(d, f)
<1> DEFINE up == ImportersWithin(G, f)
           T == {i \in 0 .. N : \A x \in up[i] : Leads(x, f)}
<1>1. /\ N \in Nat /\ DOMAIN up = 0 .. N /\ up[0] = {f}
      /\ \A i \in 0 .. N : up[i] \subseteq Files
      /\ \A i \in 0 .. N - 1 : up[i + 1] = NextUp(G, up[i])
  BY FittingEdges, ImportersSteps
<1> HIDE DEF up
<1>2. 0 \in T
  <2>1. Leads(f, f)
    BY DEF Leads
  <2> QED
    BY <1>1, <2>1
<1>3. ASSUME NEW i \in 0 .. N - 1, i \in T PROVE i + 1 \in T
  <2>1. i \in 0 .. N /\ i + 1 \in 0 .. N /\ up[i + 1] = NextUp(G, up[i])
    BY <1>1
  <2>2. ASSUME NEW x \in up[i + 1], x \notin up[i] PROVE Leads(x, f)
    <3>1. PICK e \in G.edges : e[1] = x /\ e[2] \in up[i]
      BY <2>1, <2>2 DEF NextUp
    <3>2. x \in Files /\ e[2] \in Imports[x] /\ Leads(e[2], f)
      BY <1>1, <1>3, <2>1, <3>1, FittingEdges
    <3> QED
      BY <3>2, LeadsOn
  <2> QED
    BY <1>3, <2>1, <2>2
<1> HIDE DEF T
<1>4. \A i \in 0 .. N : i \in T
  BY <1>1, <1>2, <1>3, NumbersUpTo
<1> QED
  BY <1>4 DEF T, up

(* A file that the search meets, it meets for the first time at some step. *)
LEMMA MetFirst ==
  ASSUME NEW up, NEW n \in Nat, NEW d, NEW k \in 0 .. n, d \in up[k]
  PROVE  \E i \in 0 .. n : d \in up[i] /\ \A j \in 0 .. i - 1 : d \notin up[j]
<1> DEFINE Meets(i) == d \in up[i] /\ \A j \in 0 .. i - 1 : d \notin up[j]
           T == {i \in 0 .. n : (\E j \in 0 .. i : d \in up[j]) => \E j \in 0 .. i : Meets(j)}
<1>1. 0 \in T
  OBVIOUS
<1>2. ASSUME NEW i \in 0 .. n - 1, i \in T PROVE i + 1 \in T
  <2>1. i + 1 \in 0 .. n /\ i \in Nat /\ \A j \in 0 .. i + 1 : j \in 0 .. i \/ j = i + 1
    OBVIOUS
  <2>2. CASE \E j \in 0 .. i : d \in up[j]
    <3>1. PICK j \in 0 .. i : Meets(j)
      BY <1>2, <2>2
    <3>2. j \in 0 .. i + 1
      BY <2>1
    <3> HIDE DEF Meets
    <3> QED
      BY <2>1, <3>1, <3>2
  <2>3. CASE ~ \E j \in 0 .. i : d \in up[j]
    <3>1. ASSUME d \in up[i + 1] PROVE Meets(i + 1)
      <4>1. (i + 1) - 1 = i
        BY <2>1
      <4> QED
        BY <2>3, <3>1, <4>1
    <3>2. i + 1 \in 0 .. i + 1
      BY <2>1
    <3> HIDE DEF Meets
    <3> QED
      BY <2>1, <2>3, <3>1, <3>2
  <2> QED
    BY <2>2, <2>3
<1> HIDE DEF T
<1>3. \A i \in 0 .. n : i \in T
  BY <1>1, <1>2, NumbersUpTo
<1>4. n \in T /\ n \in 0 .. n
  BY <1>3
<1> QED
  BY <1>4 DEF T

(* A file that comes later in a list than one that imports it is bypassed  *)
(* from there: the search met the importer over another of its imports.    *)
LEMMA LaterIsBypassed ==
  ASSUME NEW G, NEW there, EdgesFit(G, there), NEW f \in Files, NEW list \in DependentLists(G, f),
         NEW i \in 1 .. Len(list), NEW k \in 1 .. Len(list), i < k, list[k] \in Imports[list[i]]
  PROVE  Bypassed(list[i], list[k])
<1> DEFINE up == ImportersWithin(G, f)
           Level(d) == CHOOSE n \in DOMAIN up : d \in up[n] /\ \A j \in 0 .. n - 1 : d \notin up[j]
<1>1. /\ N \in Nat /\ DOMAIN up = 0 .. N /\ up[0] = {f}
      /\ \A n \in 0 .. N : up[n] \subseteq Files
      /\ \A n \in 0 .. N - 1 : up[n + 1] = NextUp(G, up[n])
  BY FittingEdges, ImportersSteps
<1>2. Dependents(G, f) = up[N] \ {f}
  BY DEF Dependents, N
<1>3. /\ Range(list) = Dependents(G, f) /\ Len(list) \in Nat /\ DOMAIN list = 1 .. Len(list)
      /\ Level(list[i]) <= Level(list[k])
  <2>1. \A p, q \in DOMAIN list : p < q => Level(list[p]) <= Level(list[q])
    BY Zenon DEF DependentLists
  <2> QED
    BY <2>1, FittingEdges, ListHasDependents
<1>4. \A n \in 0 .. N : \A d \in up[n] : Leads(d, f)
  BY MetLeadHere
<1> HIDE DEF up
<1>5. ASSUME NEW d \in Dependents(G, f)
      PROVE  Level(d) \in 0 .. N /\ d \in up[Level(d)] /\ \A j \in 0 .. Level(d) - 1 : d \notin up[j]
  <2>1. d \in up[N] /\ N \in 0 .. N
    BY <1>1, <1>2
  <2>2. \E n \in DOMAIN up : d \in up[n] /\ \A j \in 0 .. n - 1 : d \notin up[j]
    BY <1>1, <2>1, MetFirst
  <2>3. Level(d) \in DOMAIN up /\ d \in up[Level(d)] /\ \A j \in 0 .. Level(d) - 1 : d \notin up[j]
    BY <2>2
  <2> HIDE DEF Level
  <2> QED
    BY <1>1, <2>3
<1> DEFINE m == Level(list[i])
           n == Level(list[k])
           x == list[i]
           g == list[k]
<1>6. /\ x \in Dependents(G, f) /\ g \in Dependents(G, f) /\ m <= n
      /\ m \in 0 .. N /\ x \in up[m] /\ \A j \in 0 .. m - 1 : x \notin up[j]
      /\ n \in 0 .. N /\ g \in up[n] /\ \A j \in 0 .. n - 1 : g \notin up[j]
  <2>1. list[i] \in Dependents(G, f) /\ list[k] \in Dependents(G, f)
    BY <1>3 DEF Range
  <2> HIDE DEF Level
  <2> QED
    BY <1>3, <1>5, <2>1
<1>g. g \in Imports[x]
  OBVIOUS
<1> HIDE DEF Level, m, n, x, g
<1>7. x # f /\ g # f /\ x \in Files /\ g \in Files /\ Leads(g, f)
  BY <1>1, <1>2, <1>4, <1>6
<1>8. m # 0
  BY <1>1, <1>6, <1>7
<1> DEFINE p == m - 1
<1>9. p \in 0 .. N - 1 /\ p \in 0 .. N /\ p + 1 = m /\ p \in 0 .. m - 1 /\ p \in 0 .. n - 1
  BY <1>1, <1>6, <1>8
<1> HIDE DEF p
<1>10. x \in NextUp(G, up[p]) /\ x \notin up[p] /\ g \notin up[p]
  BY <1>1, <1>6, <1>9
<1>11. PICK e \in G.edges : e[1] = x /\ e[2] \in up[p]
  BY <1>10 DEF NextUp
<1>12. e[2] \in Imports[x] \ {g} /\ Leads(e[2], f)
  BY <1>4, <1>9, <1>10, <1>11, FittingEdges
<1>13. Bypassed(x, g)
  BY <1>7, <1>12 DEF Bypassed
<1> QED
  BY <1>13 DEF x, g

(* When the dependents are updated one after another, an edge is lost only *)
(* if its target is bypassed.                                              *)
LEMMA EdgesAdded ==
  ASSUME NEW G, NEW there, EdgesFit(G, there), NEW f \in Files, NEW list \in DependentLists(G, f),
         NEW cleared, NEW done, NEW now
  PROVE  /\ AddedEdges(list, cleared, done, now) \subseteq EdgesOf(Range(list) \cap done, now)
         /\ \A d \in Range(list) \cap done : \A g \in Imports[d] \cap now :
              <<d, g>> \in AddedEdges(list, cleared, done, now) \/ Bypassed(d, g)
<1> DEFINE Later(i) == cleared \cap {list[j] : j \in i + 1 .. Len(list)}
           A == AddedEdges(list, cleared, done, now)
<1>1. Len(list) \in Nat /\ DOMAIN list = 1 .. Len(list)
  BY FittingEdges, ListHasDependents
<1>2. A = UNION {{list[i]} \X ((Imports[list[i]] \cap now) \ Later(i)) : i \in {k \in DOMAIN list : list[k] \in done}}
  BY Zenon DEF AddedEdges
<1> HIDE DEF A
<1>3. A \subseteq EdgesOf(Range(list) \cap done, now)
  <2> HIDE DEF Later
  <2> QED
    BY <1>2 DEF EdgesOf, Range
<1>4. ASSUME NEW d \in Range(list) \cap done, NEW g \in Imports[d] \cap now, ~ Bypassed(d, g) PROVE <<d, g>> \in A
  <2>1. PICK i \in 1 .. Len(list) : list[i] = d
    BY <1>1 DEF Range
  <2>2. g \notin Later(i)
    <3>1. ASSUME NEW j \in i + 1 .. Len(list), list[j] = g PROVE FALSE
      <4>1. j \in 1 .. Len(list) /\ i < j
        BY <1>1
      <4> QED
        BY <1>4, <2>1, <3>1, <4>1, LaterIsBypassed
    <3> QED
      BY <3>1
  <2> HIDE DEF Later
  <2>3. <<d, g>> \in {list[i]} \X ((Imports[list[i]] \cap now) \ Later(i))
    BY <2>1, <2>2
  <2>4. i \in {k \in DOMAIN list : list[k] \in done}
    BY <1>1, <2>1
  <2> QED
    BY <1>2, <2>3, <2>4
<1> QED
  BY <1>3, <1>4 DEF A
-----------------------------------------------------------------------------
-----------------------------------------------------------------------------
(***************************************************************************)
(* A current graph, when "there" are the files that exist and are parsed   *)
(* and "late" those created since the start-up: every edge is of the text, *)
(* and a missing one may be missing; of the files that count and were      *)
(* there from the start, one that is indexed is declared and has its       *)
(* relationships unless an edge of it is missing, and one that is queued   *)
(* is declared.                                                            *)
(***************************************************************************)
Counted(m) == RelationshipFiles(m, Files)
Unnoticed(f, e, late) == \E g \in Imports[f] : <<f, g>> \notin e /\ MayMiss(f, g, late)
IsCurrent(m, there, late, d, e, i, r, u) ==
  /\ d \subseteq there /\ e \subseteq EdgesOf(d, there)
  /\ \A f \in d : \A g \in Imports[f] \cap there : <<f, g>> \in e \/ MayMiss(f, g, late)
  /\ \A f \in (Counted(m) \cap there \cap i) \ late : f \in d /\ (f \in r \/ Unnoticed(f, e, late))
  /\ (Counted(m) \cap there \cap u) \ late \subseteq d
Current(G, m, there, late) == IsCurrent(m, there, late, G.declared, G.edges, G.indexed, G.related, G.queued)

LEMMA CurrentIs ==
  ASSUME NEW G, NEW m, NEW there, NEW late, NEW d, NEW e, NEW i, NEW r, NEW q, NEW u, IsA(G, d, e, i, r, q, u),
         IsCurrent(m, there, late, d, e, i, r, u)
  PROVE  Current(G, m, there, late)
BY Fields DEF Current

LEMMA EnqueueCurrent ==
  ASSUME NEW G, IsGraph(G), NEW m, NEW there, NEW late, Current(G, m, there, late), NEW S, S \subseteq Files,
         (Counted(m) \cap S \cap there) \ late \subseteq G.declared
  PROVE  Current(Enqueue(G, m, S), m, there, late)
<1> DEFINE new == RelationshipFiles(m, S) \ (G.indexed \cup G.queued)
           q == G.queue \o ListOf(new)
           u == G.queued \cup new
<1>1. IsA(Enqueue(G, m, S), G.declared, G.edges, G.indexed, G.related, q, u)
  BY EnqueueIs
<1>2. RelationshipFiles(m, S) \subseteq Counted(m) \cap S
  BY DEF RelationshipFiles, Counted
<1>3. IsCurrent(m, there, late, G.declared, G.edges, G.indexed, G.related, u)
  BY <1>2 DEF Current, IsCurrent
<1> HIDE DEF q, u
<1> QED
  BY <1>1, <1>3, CurrentIs

LEMMA RebuildCurrent ==
  ASSUME NEW m, NEW list, list \subseteq Files, NEW there, NEW late
  PROVE  Current(RebuildDeclarations(m, list, there, there), m, there, late)
<1> DEFINE files == GraphFiles(m, list)
           d == files \cap there
           e == EdgesOf(files \cap there, there)
<1>1. PICK D : IsA(D, d, e, {}, {}, <<>>, {}) /\ RebuildDeclarations(m, list, there, there) = Enqueue(D, m, files)
  BY RebuildIs
<1>2. IsCurrent(m, there, late, d, e, {}, {}, {})
  <2>1. \A g \in d : \A h \in Imports[g] \cap there : <<g, h>> \in e
    BY EdgesAre
  <2> HIDE DEF e
  <2> QED
    BY <2>1 DEF IsCurrent, e
<1>3. files \subseteq Files
  BY DEF GraphFiles
<1> HIDE DEF files, e
<1>4. IsGraph(D) /\ Current(D, m, there, late) /\ D.declared = d
  BY <1>1, <1>2, CurrentIs, Fields
<1>5. (Counted(m) \cap files \cap there) \ late \subseteq D.declared
  BY <1>4
<1> HIDE DEF d
<1> QED
  BY <1>1, <1>3, <1>4, <1>5, EnqueueCurrent

LEMMA EnsureDeclarationsCurrent ==
  ASSUME NEW G, IsGraph(G), NEW m, NEW there, NEW late, Current(G, m, there, late), NEW list, list \subseteq Files
  PROVE  LET H == EnsureDeclarations(G, m, list, there, there)
         IN  /\ IsGraph(H) /\ Current(H, m, there, late)
             /\ Counted(m) \cap list \cap there \subseteq H.declared
<1> DEFINE files == GraphFiles(m, list)
           new == (files \ G.declared) \cap there
           d == G.declared \cup new
           e == G.edges \cup EdgesOf(new, there)
           S == files \ G.indexed
           H == EnsureDeclarations(G, m, list, there, there)
<1>1. PICK D : /\ IsA(D, d, e, G.indexed, G.related, G.queue, G.queued)
               /\ H = Enqueue(D, m, S)
  BY EnsureDeclarationsIs
<1> HIDE DEF H
<1>2. /\ e \subseteq EdgesOf(d, there)
      /\ \A g \in d : \A h \in Imports[g] \cap there : <<g, h>> \in e \/ MayMiss(g, h, late)
      /\ \A g \in G.declared : \A h : <<g, h>> \in e => <<g, h>> \in G.edges
  <2>1. /\ G.edges \subseteq EdgesOf(G.declared, there)
        /\ \A g \in G.declared : \A h \in Imports[g] \cap there : <<g, h>> \in G.edges \/ MayMiss(g, h, late)
    BY DEF Current, IsCurrent
  <2>2. new \cap G.declared = {}
    OBVIOUS
  <2> HIDE DEF new
  <2>3. \A g \in new : \A h \in Imports[g] \cap there : <<g, h>> \in e
    BY EdgesAre
  <2>4. e \subseteq EdgesOf(d, there)
    BY <2>1 DEF EdgesOf
  <2>5. ASSUME NEW g \in G.declared, NEW h, <<g, h>> \in EdgesOf(new, there) PROVE FALSE
    <3>1. <<g, h>>[1] \in new
      BY <2>5, EdgesAre
    <3> QED
      BY <2>2, <3>1
  <2> QED
    BY <2>1, <2>3, <2>4, <2>5
<1> HIDE DEF e
<1>3. IsCurrent(m, there, late, d, e, G.indexed, G.related, G.queued)
  <2>1. \A g \in (Counted(m) \cap there \cap G.indexed) \ late :
          g \in G.declared /\ (g \in G.related \/ Unnoticed(g, G.edges, late))
    BY DEF Current, IsCurrent
  <2>2. \A g \in G.declared : Unnoticed(g, G.edges, late) => Unnoticed(g, e, late)
    BY <1>2 DEF Unnoticed
  <2>3. d \subseteq there /\ (Counted(m) \cap there \cap G.queued) \ late \subseteq d
    BY DEF Current, IsCurrent
  <2>4. G.declared \subseteq d
    OBVIOUS
  <2> HIDE DEF d
  <2> QED
    BY <1>2, <2>1, <2>2, <2>3, <2>4 DEF IsCurrent
<1>4. S \subseteq Files /\ files \cap there \subseteq d /\ S \cap there \subseteq d
  BY DEF GraphFiles
<1>5. Counted(m) \cap list \subseteq files
  BY DEF Counted, RelationshipFiles, GraphFiles
<1> HIDE DEF files, S, d
<1>6. IsGraph(D) /\ Current(D, m, there, late) /\ D.declared = d
  BY <1>1, <1>3, CurrentIs, Fields
<1>7. Current(H, m, there, late)
  BY <1>1, <1>4, <1>6, EnqueueCurrent
<1>8. IsGraph(H) /\ H.declared = d
  <2> DEFINE added == RelationshipFiles(m, S) \ (D.indexed \cup D.queued)
             q == D.queue \o ListOf(added)
             u == D.queued \cup added
  <2>1. IsA(Enqueue(D, m, S), D.declared, D.edges, D.indexed, D.related, q, u)
    BY <1>6, EnqueueIs
  <2> HIDE DEF q, u
  <2> QED
    BY <1>1, <1>6, <2>1, Fields
<1> QED
  BY <1>4, <1>5, <1>7, <1>8 DEF H

LEMMA EnsureRelationshipsCurrent ==
  ASSUME NEW G, IsGraph(G), NEW m, NEW there, NEW late, Current(G, m, there, late),
         NEW f, f \in (Counted(m) \cap there) \ late => f \in G.declared
  PROVE  Current(EnsureRelationships(G, f, there, there), m, there, late)
<1> DEFINE r == IF Imports[f] \cap there \subseteq there THEN G.related \cup {f} ELSE G.related
           q == Kept(G.queue, Files \ {f})
           H == EnsureRelationships(G, f, there, there)
<1>1. IF f \in G.indexed \/ f \notin there THEN H = G
      ELSE IsA(H, G.declared, G.edges, G.indexed \cup {f}, r, q, G.queued \ {f})
  BY EnsureRelationshipsIs
<1>2. r = G.related \cup {f}
  OBVIOUS
<1> HIDE DEF r, q, H
<1>3. IsCurrent(m, there, late, G.declared, G.edges, G.indexed \cup {f}, r, G.queued \ {f})
  BY <1>2 DEF Current, IsCurrent
<1>4. Current(H, m, there, late)
  BY <1>1, <1>3, CurrentIs
<1> QED
  BY <1>4 DEF H

LEMMA BatchCurrent ==
  ASSUME NEW G, GraphOK(G), NEW m, NEW there, NEW late, Current(G, m, there, late), NEW k \in 0 .. Len(G.queue)
  PROVE  Current(Batch(G, k, there, there), m, there, late)
<1> DEFINE taken == {G.queue[i] : i \in 1 .. k}
           q == SubSeq(G.queue, k + 1, Len(G.queue))
           r == G.related \cup {f \in (taken \cap there) \ G.indexed : Imports[f] \cap there \subseteq there}
<1>1. IsA(Batch(G, k, there, there), G.declared, G.edges, G.indexed \cup taken, r, q, G.queued \ taken)
  BY BatchIs DEF GraphOK
<1>2. taken \subseteq G.queued
  <2> DEFINE p == G.queue
             Q == G.queued
  <2>1. IsQueueOf(p, Q) /\ k \in 0 .. Len(p)
    BY DEF GraphOK, InOrderly
  <2> HIDE DEF p, Q
  <2>2. Taken(p, k) \subseteq Q
    BY <2>1, RestOfQueue
  <2> QED
    BY <2>2 DEF p, Q, Taken
<1>3. taken \cap G.indexed = {}
  BY <1>2 DEF GraphOK, InOrderly
<1> HIDE DEF taken
<1>4. G.related \cup (taken \cap there) \subseteq r /\ taken \subseteq G.queued
  BY <1>2, <1>3
<1> HIDE DEF q, r
<1>5. IsCurrent(m, there, late, G.declared, G.edges, G.indexed \cup taken, r, G.queued \ taken)
  BY <1>4 DEF Current, IsCurrent
<1> QED
  BY <1>1, <1>5, CurrentIs

(***************************************************************************)
(* The update of f, which may be new or gone now, and of its dependents: U *)
(* is the graph after f itself, H after the dependents.                    *)
(***************************************************************************)
FirstUpdated(G, U, f, there) ==
  /\ U.declared = (G.declared \ {f}) \cup ({f} \cap there)
  /\ \A x : x \in U.edges <=> \/ x \in G.edges /\ (f \notin {x[1], x[2]} \/ f \notin G.declared)
                              \/ f \in there /\ x \in {f} \X (Imports[f] \cap there)
  /\ U.indexed \subseteq G.indexed /\ (f \in G.declared => f \notin U.indexed)
  /\ U.related = G.related \ (Users(f) \cup {f})
  /\ U.queued \subseteq G.queued

LEMMA UpdatedIsCurrent ==
  ASSUME NEW G, GraphOK(G), NEW m, NEW before, NEW late, Current(G, m, before, late), NEW f \in Files,
         NEW there, f \in before \cup there, there \subseteq Files, there \ {f} = before \ {f}, before \subseteq Files,
         NEW list \in DependentLists(G, f), NEW U, FirstUpdated(G, U, f, there),
         NEW after, after = late \cup (there \ before)
  PROVE  LET H == UpdateAll(U, list, there, there)
         IN  /\ IsGraph(H) /\ Current(H, m, there, after)
             /\ (Range(list) \cup {f}) \cap there \subseteq H.declared /\ Range(list) \subseteq Files
<1> DEFINE D == Dependents(G, f)
           cleared == Range(list) \cap U.declared
           d == (U.declared \ cleared) \cup (Range(list) \cap there)
           kept == {x \in U.edges : {x[1], x[2]} \cap cleared = {}}
           new == AddedEdges(list, cleared, there, there)
           e == kept \cup new
           i == U.indexed \ cleared
           r == U.related \ UNION {Users(g) \cup {g} : g \in cleared}
           q == Kept(U.queue, Files \ cleared)
           u == U.queued \ cleared
           H == UpdateAll(U, list, there, there)
<1>0. IsA(H, d, e, i, r, q, u)
  BY UpdateAllIs
<1> HIDE DEF H, q
<1>2. /\ EdgesFit(G, before) /\ G.declared \subseteq before
      /\ \A g \in G.declared : \A h \in Imports[g] \cap before : <<g, h>> \in G.edges \/ MayMiss(g, h, late)
  BY DEF Current, IsCurrent, EdgesFit, GraphOK, InOrderly
<1>3. /\ G.edges \subseteq Files \X Files
      /\ \A x \in G.edges : x[1] \in G.declared /\ x[2] \in Imports[x[1]] \cap before /\ x = <<x[1], x[2]>>
  BY <1>2, FittingEdges
<1>4. /\ Range(list) = D /\ D \subseteq {x[1] : x \in G.edges} /\ D \subseteq Files /\ f \notin D
      /\ \A x \in G.edges : x[2] = f \/ x[2] \in D => x[1] = f \/ x[1] \in D
  <2>1. Range(list) = D /\ D \subseteq {x[1] : x \in G.edges} /\ D \subseteq Files
    BY <1>3, ListHasDependents, DependentsAreSources
  <2>2. f \notin D
    BY DEF Dependents
  <2> HIDE DEF D
  <2>3. \A x \in G.edges : x[2] = f \/ x[2] \in D => x[1] = f \/ x[1] \in D
    BY <1>3, SearchEnds DEF D
  <2> QED
    BY <2>1, <2>2, <2>3
<1>5. \A g \in D : Leads(g, f)
  <2>1. N \in 0 .. N /\ Dependents(G, f) = ImportersWithin(G, f)[N] \ {f}
    BY <1>3, ImportersSteps DEF Dependents, N
  <2> QED
    BY <1>2, <2>1, MetLeadHere
<1>6. /\ new \subseteq EdgesOf(D \cap there, there)
      /\ \A g \in D \cap there : \A h \in Imports[g] \cap there : <<g, h>> \in new \/ Bypassed(g, h)
  <2> HIDE DEF cleared, D
  <2> QED
    BY <1>2, <1>4, EdgesAdded
<1> HIDE DEF D, new
<1>7. D \subseteq G.declared /\ D \subseteq there /\ cleared = D /\ d = U.declared /\ U.declared \subseteq there
  <2>1. D \subseteq G.declared
    BY <1>3, <1>4
  <2>2. D \subseteq there /\ U.declared \subseteq there
    BY <1>2, <1>4, <2>1 DEF FirstUpdated
  <2>3. D \subseteq U.declared
    BY <1>4, <2>1 DEF FirstUpdated
  <2> QED
    BY <1>4, <2>1, <2>2, <2>3
<1>8. \A x \in new : x[1] \in D /\ x \in EdgesOf(D, there)
  <2>1. D \cap there = D
    BY <1>7
  <2> QED
    BY <1>6, <2>1, EdgesAre
<1>9. \A x \in kept : {x[1], x[2]} \cap D = {} /\ x \in U.edges
  BY <1>7
<1>10. \A x \in U.edges : {x[1], x[2]} \cap D = {} => x \in kept
  BY <1>7
<1>m. late \subseteq after /\ there \ before \subseteq after
      /\ \A g, h : MayMiss(g, h, late) => MayMiss(g, h, after)
  BY DEF MayMiss
<1>e. e = kept \cup new
  OBVIOUS
<1>t. there \ {f} = before \ {f}
  OBVIOUS
<1> HIDE DEF cleared, d, e, kept
<1>11. e \subseteq EdgesOf(d, there)
  <2>1. ASSUME NEW x \in kept PROVE x \in EdgesOf(d, there)
    <3>1. CASE f \in there /\ x \in {f} \X (Imports[f] \cap there)
      <4>1. f \in d
        BY <1>7, <3>1 DEF FirstUpdated
      <4> QED
        BY <3>1, <4>1 DEF EdgesOf
    <3>2. CASE x \in G.edges /\ (f \notin {x[1], x[2]} \/ f \notin G.declared)
      <4>1. x[1] \in G.declared /\ x[2] \in Imports[x[1]] \cap before /\ x = <<x[1], x[2]>> /\ x[1] \notin D /\ x[2] \notin D
        BY <1>3, <1>9, <3>2
      <4>2. x[1] # f /\ x[2] # f
        BY <1>4, <3>2, <4>1
      <4>3. x[1] \in d /\ x[2] \in Imports[x[1]] \cap there
        BY <1>7, <1>t, <4>1, <4>2 DEF FirstUpdated
      <4> QED
        BY <4>1, <4>3 DEF EdgesOf
    <3> QED
      BY <1>9, <3>1, <3>2 DEF FirstUpdated
  <2>2. EdgesOf(D, there) \subseteq EdgesOf(d, there)
    <3>1. D \subseteq d
      BY <1>4, <1>7 DEF FirstUpdated
    <3> QED
      BY <3>1 DEF EdgesOf
  <2> QED
    BY <1>e, <1>8, <2>1, <2>2
<1>12. \A g \in d : \A h \in Imports[g] \cap there : <<g, h>> \in e \/ MayMiss(g, h, after)
  <2> SUFFICES ASSUME NEW g \in d, NEW h \in Imports[g] \cap there, ~ MayMiss(g, h, after) PROVE <<g, h>> \in e
    OBVIOUS
  <2> DEFINE x == <<g, h>>
  <2>0. x[1] = g /\ x[2] = h /\ ~ Bypassed(g, h) /\ h \notin after /\ h \in Files
    BY DEF MayMiss
  <2>1. CASE g \in D
    BY <1>e, <1>6, <1>7, <2>0, <2>1
  <2>2. CASE g = f
    <3>1. f \in there /\ h \in Imports[f] /\ h \in there
      BY <1>7, <2>2
    <3>2. x \in U.edges
      <4>1. x \in {f} \X (Imports[f] \cap there)
        BY <2>2, <3>1
      <4> QED
        BY <3>1, <4>1 DEF FirstUpdated
    <3>3. h \notin D
      <4>1. h \in D => Leads(h, f) /\ h # f
        BY <1>4, <1>5
      <4> QED
        BY <2>0, <2>2, <4>1 DEF Bypassed
    <3> HIDE DEF x
    <3>4. x \in kept
      BY <1>4, <1>10, <2>0, <2>2, <3>2, <3>3
    <3> QED
      BY <1>e, <3>4 DEF x
  <2>3. CASE g \notin D /\ g # f
    <3>1. g \in G.declared
      BY <1>7, <2>3 DEF FirstUpdated
    <3>2. h \in before
      BY <1>m, <2>0
    <3>3. x \in G.edges
      BY <1>2, <1>m, <3>1, <3>2
    <3> HIDE DEF x
    <3>4. h # f /\ h \notin D
      BY <1>4, <2>0, <2>3, <3>3
    <3>5. x \in U.edges
      BY <2>0, <2>3, <3>3, <3>4 DEF FirstUpdated
    <3>6. x \in kept
      BY <1>10, <2>0, <2>3, <3>4, <3>5
    <3> QED
      BY <1>e, <3>6 DEF x
  <2> QED
    BY <2>1, <2>2, <2>3
(* What was missing of another file is missing still.                      *)
<1>s. ASSUME NEW x, NEW g, x # f, x \notin D, <<x, g>> \notin G.edges PROVE <<x, g>> \notin e
  <2> DEFINE y == <<x, g>>
  <2>1. y[1] = x /\ y \notin {f} \X (Imports[f] \cap there)
    BY <1>s
  <2> HIDE DEF y
  <2>2. y \notin G.edges
    BY <1>s DEF y
  <2>3. y \notin kept
    BY <1>9, <2>1, <2>2 DEF FirstUpdated
  <2>4. y \notin new
    BY <1>8, <1>s, <2>1
  <2> QED
    BY <1>e, <2>3, <2>4 DEF y
<1>13. \A x \in (Counted(m) \cap there \cap i) \ after : x \in d /\ (x \in r \/ Unnoticed(x, e, after))
  <2> SUFFICES ASSUME NEW x \in Counted(m) \cap there \cap i, x \notin after PROVE x \in d /\ (x \in r \/ Unnoticed(x, e, after))
    OBVIOUS
  <2>1. x \in U.indexed /\ x \notin D /\ x \in G.indexed /\ x \in before /\ x \notin late
    BY <1>7, <1>m DEF FirstUpdated
  <2>2. x \in G.declared /\ (x \in G.related \/ Unnoticed(x, G.edges, late))
    BY <2>1 DEF Current, IsCurrent
  <2>3. x # f /\ x \in d
    BY <1>7, <2>1, <2>2 DEF FirstUpdated
  <2>4. ASSUME NEW g \in Imports[x], <<x, g>> \notin G.edges, MayMiss(x, g, after) PROVE Unnoticed(x, e, after)
    BY <1>s, <2>1, <2>3, <2>4 DEF Unnoticed
  <2>5. CASE Unnoticed(x, G.edges, late)
    <3>1. PICK g \in Imports[x] : <<x, g>> \notin G.edges /\ MayMiss(x, g, late)
      BY <2>5 DEF Unnoticed
    <3> QED
      BY <1>m, <2>3, <2>4, <3>1
  <2>6. CASE x \in G.related /\ \E g \in D \cup {f} : g \in Imports[x]
    <3>1. PICK g \in D \cup {f} : g \in Imports[x]
      BY <2>6
    <3>2. <<x, g>> \notin G.edges
      <4> DEFINE y == <<x, g>>
      <4>1. y[1] = x /\ y[2] = g
        OBVIOUS
      <4> HIDE DEF y
      <4> QED
        BY <1>4, <2>1, <2>3, <3>1, <4>1 DEF y
    <3>3. MayMiss(x, g, after)
      <4>1. CASE g \in before
        BY <1>2, <1>m, <2>2, <3>1, <3>2, <4>1
      <4>2. CASE g \notin before
        <5>1. g \in there \ before
          BY <1>7, <3>1, <4>2
        <5> QED
          BY <1>m, <5>1 DEF MayMiss
      <4> QED
        BY <4>1, <4>2
    <3> QED
      BY <2>3, <2>4, <3>1, <3>2, <3>3
  <2>7. CASE x \in G.related /\ ~ \E g \in D \cup {f} : g \in Imports[x]
    <3>1. \A g \in D \cup {f} : x \notin Users(g)
      BY <2>7 DEF Users
    <3>2. x \in U.related
      BY <2>3, <2>7, <3>1 DEF FirstUpdated
    <3>3. x \in r
      BY <1>7, <2>1, <3>1, <3>2
    <3> QED
      BY <2>3, <3>3
  <2> QED
    BY <2>2, <2>5, <2>6, <2>7
<1>14. (Counted(m) \cap there \cap u) \ after \subseteq d
  <2> SUFFICES ASSUME NEW x \in Counted(m) \cap there \cap u, x \notin after PROVE x \in d
    OBVIOUS
  <2>1. x \in G.queued
    BY DEF FirstUpdated
  <2>2. CASE x = f
    BY <1>7, <2>2 DEF FirstUpdated
  <2>3. CASE x # f
    <3>1. x \in G.declared
      BY <1>m, <1>t, <2>1, <2>3 DEF Current, IsCurrent
    <3> QED
      BY <1>7, <2>3, <3>1 DEF FirstUpdated
  <2> QED
    BY <2>2, <2>3
<1> HIDE DEF i, r, u
<1>15. IsCurrent(m, there, after, d, e, i, r, u)
  <2>1. d \subseteq there
    BY <1>7
  <2> QED
    BY <2>1, <1>11, <1>12, <1>13, <1>14 DEF IsCurrent
<1>16. Current(H, m, there, after) /\ IsGraph(H) /\ H.declared = d
  BY <1>0, <1>15, CurrentIs, Fields
<1>17. (Range(list) \cup {f}) \cap there \subseteq d /\ Range(list) \subseteq Files
  BY <1>4, <1>7 DEF FirstUpdated
<1> QED
  BY <1>16, <1>17 DEF H
-----------------------------------------------------------------------------
LEMMA FirstIsUpdated ==
  ASSUME NEW G, GraphOK(G), NEW f \in Files, NEW there
  PROVE  LET O == Outdate(G, f)
         IN  /\ f \in there => FirstUpdated(G, UpdateFile(O, f, there, there), f, there)
             /\ f \notin there => FirstUpdated(G, Clear(O, f), f, there)
<1> DEFINE O == Outdate(G, f)
           C == Clear(O, f)
           U == UpdateFile(O, f, there, there)
           now == {f} \X (Imports[f] \cap there)
<1>o. IsA(O, G.declared, G.edges, G.indexed, G.related \ (Users(f) \cup {f}), G.queue, G.queued)
  BY OutdateIs DEF GraphOK
<1> HIDE DEF O
<1>1. /\ IsGraph(O) /\ O.declared = G.declared /\ O.edges = G.edges /\ O.indexed = G.indexed
      /\ O.related = G.related \ (Users(f) \cup {f}) /\ O.queue = G.queue /\ O.queued = G.queued
  <2> DEFINE d == G.declared
             e == G.edges
             i == G.indexed
             r == G.related \ (Users(f) \cup {f})
             q == G.queue
             u == G.queued
  <2>1. IsA(O, d, e, i, r, q, u)
    BY <1>o
  <2> HIDE DEF d, e, i, r, q, u
  <2>2. /\ IsGraph(O) /\ O.declared = d /\ O.edges = e /\ O.indexed = i
        /\ O.related = r /\ O.queue = q /\ O.queued = u
    BY <2>1, Fields
  <2> QED
    BY <2>2 DEF d, e, i, r, q, u
<1>2. /\ IsGraph(C) /\ C.declared = G.declared \ {f}
      /\ \A x : x \in C.edges <=> x \in G.edges /\ (f \notin {x[1], x[2]} \/ f \notin G.declared)
      /\ C.indexed \subseteq G.indexed /\ (f \in G.declared => f \notin C.indexed)
      /\ C.related = G.related \ (Users(f) \cup {f}) /\ C.queued \subseteq G.queued
  <2>1. CASE f \notin O.declared
    <3>1. C = O
      BY <2>1, ClearIs
    <3> HIDE DEF C
    <3> QED
      BY <1>1, <2>1, <3>1
  <2>2. CASE f \in O.declared
    <3> DEFINE e == {x \in O.edges : f \notin {x[1], x[2]}}
               r == O.related \ (Users(f) \cup {f})
               q == Kept(O.queue, Files \ {f})
    <3>1. IsA(C, O.declared \ {f}, e, O.indexed \ {f}, r, q, O.queued \ {f})
      BY <2>2, ClearIs
    <3> HIDE DEF C, q
    <3>2. /\ IsGraph(C) /\ C.declared = O.declared \ {f} /\ C.edges = e /\ C.indexed = O.indexed \ {f}
          /\ C.related = r /\ C.queued = O.queued \ {f}
      <4> HIDE DEF e, r
      <4> QED
        BY <3>1, Fields
    <3>3. r = G.related \ (Users(f) \cup {f})
      BY <1>1
    <3>4. \A x : x \in e <=> x \in G.edges /\ f \notin {x[1], x[2]}
      BY <1>1
    <3> HIDE DEF e, r
    <3> QED
      BY <1>1, <2>2, <3>2, <3>3, <3>4
  <2> QED
    BY <2>1, <2>2
<1>3. CASE f \notin there
  <2>1. {f} \cap there = {}
    BY <1>3
  <2> HIDE DEF C
  <2>2. FirstUpdated(G, C, f, there)
    BY <1>2, <1>3, <2>1 DEF FirstUpdated
  <2> QED
    BY <1>3, <2>2 DEF C, O
<1>4. CASE f \in there
  <2>1. IsA(U, C.declared \cup {f}, C.edges \cup now, C.indexed, C.related, C.queue, C.queued)
    BY <1>1, <1>4, UpdateFileIs
  <2>2. {f} \cap there = {f}
    BY <1>4
  <2> HIDE DEF C, U, now
  <2>3. /\ U.declared = C.declared \cup {f} /\ U.edges = C.edges \cup now /\ U.indexed = C.indexed
        /\ U.related = C.related /\ U.queued = C.queued
    BY <2>1, Fields
  <2>4. \A x : x \in U.edges <=> x \in C.edges \/ x \in now
    BY <2>3
  <2>5. FirstUpdated(G, U, f, there)
    BY <1>2, <1>4, <2>2, <2>3, <2>4 DEF FirstUpdated, now
  <2> QED
    BY <1>4, <2>5 DEF U, O
<1> QED
  BY <1>3, <1>4

LEMMA RefreshCurrent ==
  ASSUME NEW G, GraphOK(G), NEW m, NEW before, NEW late, Current(G, m, before, late), NEW f \in Files,
         NEW there, f \in before \cup there, there \subseteq Files, there \ {f} = before \ {f}, before \subseteq Files,
         NEW list \in DependentLists(G, f), NEW after, after = late \cup (there \ before)
  PROVE  /\ f \in there => Current(RefreshWithDependents(Outdate(G, f), m, f, list, there, there), m, there, after)
         /\ f \notin there => Current(RemoveWithDependents(Outdate(G, f), m, f, list, there, there), m, there, after)
<1> DEFINE U == UpdateFile(Outdate(G, f), f, there, there)
           C == Clear(Outdate(G, f), f)
           H == UpdateAll(U, list, there, there)
           I == UpdateAll(C, list, there, there)
<1>1. (f \in there => FirstUpdated(G, U, f, there)) /\ (f \notin there => FirstUpdated(G, C, f, there))
  BY FirstIsUpdated
<1> HIDE DEF U, C
<1>2. CASE f \in there
  <2>1. /\ IsGraph(H) /\ Current(H, m, there, after)
        /\ (Range(list) \cup {f}) \cap there \subseteq H.declared /\ Range(list) \subseteq Files
    BY <1>1, <1>2, UpdatedIsCurrent
  <2> DEFINE S == {f} \cup Range(list)
  <2>2. S \subseteq Files /\ (Counted(m) \cap S \cap there) \ after \subseteq H.declared
    BY <2>1
  <2> HIDE DEF H, S
  <2>3. Current(Enqueue(H, m, S), m, there, after)
    BY <2>1, <2>2, EnqueueCurrent
  <2> QED
    BY <1>2, <2>3 DEF RefreshWithDependents, H, S, U
<1>3. CASE f \notin there
  <2>1. /\ IsGraph(I) /\ Current(I, m, there, after)
        /\ (Range(list) \cup {f}) \cap there \subseteq I.declared /\ Range(list) \subseteq Files
    BY <1>1, <1>3, UpdatedIsCurrent
  <2> DEFINE S == Range(list)
  <2>2. S \subseteq Files /\ (Counted(m) \cap S \cap there) \ after \subseteq I.declared
    BY <2>1
  <2> HIDE DEF I, S
  <2>3. Current(Enqueue(I, m, S), m, there, after)
    BY <2>1, <2>2, EnqueueCurrent
  <2> QED
    BY <1>3, <2>3 DEF RemoveWithDependents, I, S, C
<1> QED
  BY <1>2, <1>3

(***************************************************************************)
(* After the start-up.                                                     *)
(***************************************************************************)
GraphInv ==
  /\ DriveInv /\ GraphOK(graph) /\ listed \subseteq Files /\ existing \ created \subseteq listed
  /\ Current(graph, mode[2], existing, created)

LEMMA GraphMoves ==
  ASSUME DriveInv', GraphOK(graph'), listed' \subseteq Files, existing' \ created' \subseteq listed',
         NEW m, m = mode'[2], NEW there, there = existing', NEW late, late = created', Current(graph', m, there, late)
  PROVE  GraphInv'
<1>1. Current(graph', mode'[2], existing', created')
  OBVIOUS
<1>2. Current(graph, mode[2], existing, created)'
  BY <1>1
<1>3. GraphOK(graph)'
  BY DEF GraphOK, IsGraph, InOrderly, IsQueueOf
<1> QED
  BY <1>2, <1>3 DEF GraphInv

LEMMA GraphInit ==
  ASSUME Start = "steady", part = "steady", RunsInit PROVE GraphInv
<1> DEFINE G == RebuildDeclarations(mode[2], listed, listed, listed)
<1>1. DriveInv /\ TypesInv
  BY DriveInit, TypesInit DEF RunsInit
<1>2. /\ created = {} /\ existing = listed /\ listed \subseteq Files /\ graph = Batch(G, Len(G.queue), listed, listed)
  BY DEF RunsInit, Init
<1>3. GraphOK(G) /\ Current(G, mode[2], listed, created)
  BY <1>2, RebuildOK, RebuildCurrent
<1> HIDE DEF G
<1>4. Len(G.queue) \in 0 .. Len(G.queue)
  BY <1>3 DEF GraphOK, InOrderly, IsQueueOf
<1>5. Current(graph, mode[2], listed, created)
  BY <1>2, <1>3, <1>4, BatchCurrent
<1> QED
  BY <1>1, <1>2, <1>5 DEF GraphInv, TypesInv

LEMMA GraphNext ==
  ASSUME GraphInv, DriveInv', GraphOK(graph'), listed' \subseteq Files, [Next]_vars,
         created' = created \cup (existing' \ existing)
  PROVE  GraphInv'
<1>s. /\ existing \subseteq Files /\ parsed = existing /\ walking = {} /\ phase \in {"ready", "rebuilding"}
      /\ GraphOK(graph) /\ IsGraph(graph) /\ listed \subseteq Files /\ existing \ created \subseteq listed
      /\ Current(graph, mode[2], existing, created)
  BY DEF GraphInv, DriveInv
<1>b. ASSUME NEW G, GraphOK(G), Current(G, mode[2], existing, created), NEW H,
             \E k \in BatchEnds(G, parsed) : H = Batch(G, k, parsed, existing)
      PROVE  Current(H, mode[2], existing, created)
  <2>1. PICK k \in 0 .. Len(G.queue) : H = Batch(G, k, existing, existing)
    BY <1>b, <1>s, BatchesEndThere
  <2> QED
    BY <1>b, <2>1, BatchCurrent
(* A step that leaves the files, or only their list, as they are.          *)
<1>c. existing' = existing => created' = created
  OBVIOUS
<1>k. ASSUME UNCHANGED <<existing, listed, mode>>, Current(graph', mode[2], existing, created) PROVE GraphInv'
  BY <1>k, <1>c, <1>s, GraphMoves
<1>1. ASSUME NEW t, RunBatch(t) PROVE GraphInv'
  <2>1. UNCHANGED <<existing, listed, mode>>
    BY <1>1 DEF RunBatch, world
  <2>2. \/ graph' = graph
        \/ \E k \in BatchEnds(graph, parsed) : graph' = Batch(graph, k, parsed, existing)
    BY <1>1, Zenon DEF RunBatch
  <2>3. Current(graph', mode[2], existing, created)
    BY <1>s, <1>b, <2>2
  <2> QED
    BY <1>k, <2>1, <2>3
<1>2. ASSUME NEW f \in Files, SweepFile(f) \/ WalkDone(f) PROVE GraphInv'
  BY <1>2, <1>s DEF SweepFile, WalkDone
<1>3. CASE Initialized
  BY <1>3, <1>s DEF Initialized
<1>4. ASSUME NEW r, RebuildEnd(r) PROVE GraphInv'
  <2> DEFINE G == RebuildDeclarations(mode[2], listed, existing, existing)
             B == Batch(G, Len(G.queue), existing, existing)
  <2>1. graph' \in {G, B} /\ UNCHANGED <<existing, listed, mode>>
    BY <1>4, <1>s DEF RebuildEnd, world
  <2>2. GraphOK(G) /\ Current(G, mode[2], existing, created)
    BY <1>s, RebuildOK, RebuildCurrent
  <2> HIDE DEF G
  <2>3. Len(G.queue) \in 0 .. Len(G.queue)
    BY <2>2 DEF GraphOK, InOrderly, IsQueueOf
  <2>4. Current(B, mode[2], existing, created)
    BY <2>2, <2>3, BatchCurrent
  <2> HIDE DEF B
  <2>5. Current(graph', mode[2], existing, created)
    BY <2>1, <2>2, <2>4
  <2> QED
    BY <1>k, <2>1, <2>5
<1>5. ASSUME NEW q \in Queries, NEW canceled, QueryStep(q, canceled) PROVE GraphInv'
  <2>1. /\ \E k \in BatchEnds(graph, parsed) : graph' = Batch(graph, k, parsed, existing)
        /\ UNCHANGED <<existing, listed, mode>>
    BY Zenon, <1>5 DEF QueryStep, world
  <2>2. Current(graph', mode[2], existing, created)
    BY <1>s, <1>b, <2>1
  <2> QED
    BY <1>k, <2>1, <2>2
<1>6. ASSUME NEW f \in Files, OnDidChangeContent(f) PROVE GraphInv'
  <2>1. f \in existing /\ parsed' = existing /\ UNCHANGED <<existing, listed, mode>> /\ RefreshGraph(f)
    BY <1>6, <1>s DEF OnDidChangeContent
  <2>2. PICK list \in DependentLists(graph, f) :
           graph' = RefreshWithDependents(Outdate(graph, f), mode[2], f, list, existing, existing)
    BY <2>1 DEF RefreshGraph
  <2>3. Current(graph', mode[2], existing, created)
    <3> DEFINE m == mode[2]
               there == existing
               G == graph
    <3>1. /\ GraphOK(G) /\ Current(G, m, there, created) /\ f \in there /\ there \subseteq Files /\ there \ {f} = there \ {f}
          /\ list \in DependentLists(G, f) /\ f \in there \cup there /\ created = created \cup (there \ there)
      BY <1>s, <2>1, <2>2
    <3> HIDE DEF m, there, G
    <3>2. Current(RefreshWithDependents(Outdate(G, f), m, f, list, there, there), m, there, created)
      BY <3>1, RefreshCurrent
    <3> QED
      BY <2>2, <3>2 DEF m, there, G
  <2> QED
    BY <1>k, <2>1, <2>3
<1>7. ASSUME NEW f \in Files, FileCreated(f) PROVE GraphInv'
  <2> DEFINE there == existing \cup {f}
             late == created \cup (there \ existing)
  <2>1. existing' = there /\ parsed' = there /\ created' = late /\ UNCHANGED <<listed, mode>> /\ RefreshGraph(f)
    BY <1>7, <1>s DEF FileCreated
  <2>2. PICK list \in DependentLists(graph, f) :
           graph' = RefreshWithDependents(Outdate(graph, f), mode[2], f, list, parsed', existing')
    BY <2>1 DEF RefreshGraph
  <2>3. graph' = RefreshWithDependents(Outdate(graph, f), mode[2], f, list, there, there)
    BY <2>1, <2>2
  <2>4. /\ there \subseteq Files /\ there \ {f} = existing \ {f} /\ f \in there /\ f \in existing \cup there
        /\ there \ late \subseteq listed /\ late = created \cup (there \ existing)
    BY <1>s
  <2> HIDE DEF there, late
  <2>5. Current(graph', mode[2], there, late)
    BY <1>s, <2>2, <2>3, <2>4, RefreshCurrent
  <2> QED
    BY <1>s, <2>1, <2>4, <2>5, GraphMoves
<1>8. ASSUME NEW f \in Files, FileDeleted(f) PROVE GraphInv'
  <2> DEFINE there == existing \ {f}
  <2>1. f \in existing /\ existing' = there /\ parsed' = there /\ UNCHANGED <<listed, mode>>
    BY <1>8, <1>s DEF FileDeleted
  <2>2. PICK list \in DependentLists(graph, f) :
           graph' = RemoveWithDependents(Outdate(graph, f), mode[2], f, list, parsed', existing')
    BY <1>8 DEF FileDeleted
  <2>3. graph' = RemoveWithDependents(Outdate(graph, f), mode[2], f, list, there, there)
    BY <2>1, <2>2
  <2>4. /\ there \subseteq Files /\ there \ {f} = existing \ {f} /\ f \notin there /\ f \in existing \cup there
        /\ there \ created \subseteq listed /\ created = created \cup (there \ existing)
    BY <1>s, <2>1
  <2>c. created' = created
    <3>1. existing' \ existing = {}
      BY <2>1
    <3> QED
      BY <3>1
  <2> HIDE DEF there
  <2>5. Current(graph', mode[2], there, created)
    <3> DEFINE before == existing
               late == created
               m == mode[2]
               G == graph
    <3>1. /\ GraphOK(G) /\ Current(G, m, before, late) /\ f \in before \cup there /\ there \subseteq Files
          /\ there \ {f} = before \ {f} /\ before \subseteq Files /\ list \in DependentLists(G, f)
          /\ late = late \cup (there \ before) /\ f \notin there
      BY <1>s, <2>2, <2>4
    <3> HIDE DEF before, late, m, G
    <3>2. Current(RemoveWithDependents(Outdate(G, f), m, f, list, there, there), m, there, late)
      BY <3>1, RefreshCurrent
    <3> QED
      BY <2>3, <3>2 DEF before, late, m, G
  <2> QED
    BY <1>s, <2>1, <2>c, <2>4, <2>5, GraphMoves
<1>9. CASE Search
  <2>1. /\ graph' = EnsureDeclarations(graph, mode[2], listed, existing, existing)
        /\ UNCHANGED <<existing, listed, mode>>
    BY <1>9, <1>s DEF Search, world
  <2>2. Current(graph', mode[2], existing, created)
    BY <1>s, <2>1, EnsureDeclarationsCurrent
  <2> QED
    BY <1>k, <2>1, <2>2
<1>10. CASE Reload
  <2>1. /\ listed' = existing /\ parsed' = parsed \cup (GraphFiles(mode[2], existing) \ walking)
        /\ graph' = RebuildDeclarations(mode[2], listed', parsed', existing)
        /\ UNCHANGED <<existing, mode>>
    BY <1>10 DEF Reload
  <2>2. parsed' = existing
    BY <2>1, <1>s DEF GraphFiles
  <2>3. Current(graph', mode[2], existing, created)
    BY <1>s, <2>1, <2>2, RebuildCurrent
  <2> QED
    BY <1>c, <1>s, <2>1, <2>3, GraphMoves
<1>11. CASE RebuildStart
  <2>1. listed' = existing /\ UNCHANGED <<existing, graph, mode>>
    BY <1>11 DEF RebuildStart
  <2> QED
    BY <1>c, <1>s, <2>1, GraphMoves
<1>12. ASSUME NEW n, OnDidChangeConfiguration(n) PROVE GraphInv'
  <2>1. /\ mode' = n /\ UNCHANGED <<existing, listed>>
        /\ graph' = IF n[2] = mode[2] THEN graph ELSE RebuildDeclarations(n[2], listed, existing, existing)
    BY <1>12, <1>s DEF OnDidChangeConfiguration, world
  <2>2. Current(graph', n[2], existing, created)
    BY <1>s, <2>1, RebuildCurrent
  <2> QED
    BY <1>c, <1>s, <2>1, <2>2, GraphMoves
<1>13. ASSUME NEW q \in Queries, NEW f \in Files, QueryStart(q, f) PROVE GraphInv'
  <2> DEFINE D == EnsureDeclarations(graph, mode[2], listed, parsed, existing)
             G == EnsureRelationships(D, f, parsed, existing)
  <2>1. /\ \/ graph' = G
           \/ \E k \in BatchEnds(G, parsed) : graph' = Batch(G, k, parsed, existing)
        /\ UNCHANGED <<existing, listed, mode>>
    BY Zenon, <1>13 DEF QueryStart, world
  <2>2. /\ IsGraph(D) /\ Current(D, mode[2], existing, created) /\ GraphOK(D)
        /\ Counted(mode[2]) \cap listed \cap existing \subseteq D.declared
    <3>1. D = EnsureDeclarations(graph, mode[2], listed, existing, existing)
      BY <1>s
    <3> HIDE DEF D
    <3> QED
      BY <1>s, <3>1, EnsureDeclarationsCurrent, EnsureDeclarationsOK
  <2> HIDE DEF D
  <2>3. GraphOK(G) /\ Current(G, mode[2], existing, created)
    <3>1. G = EnsureRelationships(D, f, existing, existing)
      BY <1>s
    <3>2. f \in (Counted(mode[2]) \cap existing) \ created => f \in D.declared
      BY <1>s, <2>2
    <3> HIDE DEF G
    <3> QED
      BY <2>2, <3>1, <3>2, EnsureRelationshipsOK, EnsureRelationshipsCurrent
  <2> HIDE DEF G
  <2>4. Current(graph', mode[2], existing, created)
    BY <1>b, <2>1, <2>3
  <2> QED
    BY <1>k, <2>1, <2>4
<1>14. CASE UNCHANGED vars
  <2>1. UNCHANGED <<existing, listed, graph, mode>>
    BY <1>14 DEF vars
  <2> QED
    BY <1>s, <1>k, <2>1
<1> QED
  BY <1>1, <1>2, <1>3, <1>4, <1>5, <1>6, <1>7, <1>8, <1>9, <1>10, <1>11, <1>12, <1>13, <1>14
     DEF Next, ServerStep, UserStep

LEMMA TypesHold == TypesInv => RunsTypeOK /\ QueueMatches
<1> SUFFICES ASSUME TypesInv PROVE RunsTypeOK /\ QueueMatches
  OBVIOUS
<1>1. IsQueueOf(graph.queue, graph.queued) /\ graph.queued \cap graph.indexed = {}
  BY DEF TypesInv, GraphOK, InOrderly
<1>2. /\ Len(graph.queue) = Cardinality(graph.queued) /\ Range(graph.queue) = graph.queued
      /\ graph.queued \subseteq Files /\ graph.queue \in Seq(Files)
  BY <1>1, QueueLength DEF IsQueueOf
<1>3. graph \in Graphs
  BY <1>2 DEF TypesInv, GraphOK, IsGraph, InOrderly, Graphs
<1>4. part = "steady" => TypeOK
  BY <1>3 DEF TypesInv, TypeOK, ModesOf, Timers, Drains
<1>5. part # "steady" => Fresh!TypeOK
  BY <1>3 DEF TypesInv, Fresh!TypeOK, Fresh!Graphs, Graphs, ModesOf, Timers, Drains
<1> QED
  BY <1>1, <1>2, <1>4, <1>5 DEF RunsTypeOK, QueueMatches

LEMMA EdgesHold == GraphInv => IndexedHasEdges(created) /\ ImportEdgesMatch(created)
<1> SUFFICES ASSUME GraphInv PROVE IndexedHasEdges(created) /\ ImportEdgesMatch(created)
  OBVIOUS
<1>1. /\ parsed = existing /\ listed \subseteq Files /\ graph.declared \subseteq Files
      /\ IsCurrent(mode[2], existing, created, graph.declared, graph.edges, graph.indexed, graph.related, graph.queued)
  BY DEF GraphInv, DriveInv, GraphOK, InOrderly, Current
<1>2. IndexedHasEdges(created)
  BY <1>1 DEF IndexedHasEdges, IsCurrent, Unnoticed, Counted, RelationshipFiles
<1>3. ImportEdgesMatch(created)
  <2>1. EdgesFit(graph, existing)
    BY <1>1 DEF EdgesFit, IsCurrent
  <2>2. \A e \in graph.edges : e[1] \in graph.declared /\ e[2] \in Imports[e[1]] \cap existing
    BY <2>1, FittingEdges
  <2> QED
    BY <1>1, <2>2 DEF ImportEdgesMatch, IsCurrent
<1> QED
  BY <1>2, <1>3

(* In both parts the queue has each file once and none that is indexed;    *)
(* and after the start-up, whatever the files import of each other and     *)
(* whatever is edited, created, deleted, reloaded, configured and asked,   *)
(* nodes and import edges are of files that exist and of their texts, what *)
(* counts as indexed has its relationships, and an edge is missing only    *)
(* where MayMiss says so (indexRelationshipBatch,                          *)
(* refreshFileAndDependents, removeFileAndDependents,                      *)
(* rebuildWorkspaceDeclarations).                                          *)
THEOREM GraphStaysCurrent ==
  ASSUME Start = "steady"
  PROVE  RunsSpec => []GraphIsCurrent
<1> DEFINE J == TypesInv /\ (part = "steady" => GraphInv)
<1>1. RunsInit => J
  BY TypesInit, GraphInit
<1>2. J /\ [RunsNext]_runsVars => J'
  <2> SUFFICES ASSUME J, [RunsNext]_runsVars PROVE J'
    OBVIOUS
  <2>1. TypesInv'
    BY TypesNext
  <2>2. ASSUME part' = "steady" PROVE GraphInv'
    <3>1. part = "steady" /\ [Next]_vars /\ created' = created \cup (existing' \ existing)
      BY <2>2 DEF RunsNext, runsVars, vars
    <3>2. DriveInv'
      BY <3>1, DriveNext DEF GraphInv
    <3>3. GraphOK(graph') /\ listed' \subseteq Files
      BY <2>1 DEF TypesInv, GraphOK, IsGraph, InOrderly, IsQueueOf
    <3> QED
      BY <3>1, <3>2, <3>3, GraphNext
  <2> QED
    BY <2>1, <2>2
<1>3. J => GraphIsCurrent
  BY TypesHold, EdgesHold DEF GraphIsCurrent
<1> QED
  BY <1>1, <1>2, <1>3, PTL DEF RunsSpec
=============================================================================
