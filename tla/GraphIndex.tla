------------------------------ MODULE GraphIndex ------------------------------
(***************************************************************************)
(* The bookkeeping of the Project Graph (analyzer/graph-index.ts) as       *)
(* operators: every method that changes the graph maps a graph to a graph. *)
(*                                                                         *)
(* A graph is a record                                                     *)
(*   declared  the files with nodes (nodeIdsByFile)                        *)
(*   edges     the import edges, pairs of files                            *)
(*   indexed   relationshipIndexedUris                                     *)
(*   queue     relationshipQueue                                           *)
(*   queued    relationshipQueuedUris                                      *)
(*   related   the files whose relationship edges (calls, reads, writes,   *)
(*             ...) are in the graph and are those of the current texts    *)
(*                                                                         *)
(* Nodes, kinds and ranges are left out: a file's relationship edges go to *)
(* the files it imports, and are kept or lost together.                    *)
(***************************************************************************)
EXTENDS Naturals, FiniteSets, SequencesExt

CONSTANTS Files,
          Order,       \* the files sorted by tier and name
          Deps,        \* the files of the "deps" tier
          Imports,     \* what each file imports
          BatchSize    \* maxFiles of a batch

ASSUME GraphAssumption ==
  /\ Files # {} /\ IsFiniteSet(Files) /\ Deps \subseteq Files
  /\ Order \in Seq(Files) /\ Files \subseteq {Order[i] : i \in DOMAIN Order}
  /\ \A i, k \in DOMAIN Order : Order[i] = Order[k] => i = k
  /\ Imports \in [Files -> SUBSET Files]
  /\ BatchSize \in Nat \ {0}

Graphs == [declared : SUBSET Files, edges : SUBSET (Files \X Files), indexed : SUBSET Files,
           related : SUBSET Files, queue : Seq(Files), queued : SUBSET Files]

EmptyGraph == [declared |-> {}, edges |-> {}, indexed |-> {}, related |-> {},
               queue |-> <<>>, queued |-> {}]

(* The part of a queue that is in S; stated as a recursive function, which  *)
(* the proofs can use.                                                     *)
Kept(q, S) ==
  LET kept[i \in 0 .. Len(q)] ==
        IF i = 0 THEN <<>> ELSE IF q[i] \in S THEN Append(kept[i - 1], q[i]) ELSE kept[i - 1]
  IN  kept[Len(q)]

ListOf(S) == Kept(Order, S)
Users(f) == {d \in Files : f \in Imports[d]}

(* The files a dependency mode keeps in the graph, and those whose         *)
(* relationships it indexes.                                               *)
GraphFiles(mode, S) == IF mode = "disabled" THEN S \ Deps ELSE S
RelationshipFiles(mode, S) == IF mode = "relationships" THEN S ELSE S \ Deps

Complete(G, mode, listed) == RelationshipFiles(mode, listed) \subseteq G.indexed
Indexed(G, mode, listed) == Cardinality(RelationshipFiles(mode, listed) \cap G.indexed)
Remaining(G, mode, listed) == Cardinality(RelationshipFiles(mode, listed) \ G.indexed)
-----------------------------------------------------------------------------
(* The text of f has changed, or it is gone: what edges say of f is out of *)
(* date.                                                                   *)
Outdate(G, f) == [G EXCEPT !.related = @ \ (Users(f) \cup {f})]

(* clearFileForUpdate() and removeFile(): the nodes of f go, with every    *)
(* edge from or to them.                                                   *)
Clear(G, f) ==
  IF f \notin G.declared THEN G
  ELSE [declared |-> G.declared \ {f},
        edges |-> {e \in G.edges : f \notin {e[1], e[2]}},
        indexed |-> G.indexed \ {f},
        related |-> G.related \ (Users(f) \cup {f}),
        queue |-> Kept(G.queue, Files \ {f}),
        queued |-> G.queued \ {f}]

(* updateFile(f, false): the declarations of f and its imports that        *)
(* resolve; "parsed" are the files with parser state, "existing" those on  *)
(* disk.                                                                   *)
UpdateFile(G, f, parsed, existing) ==
  LET C == Clear(G, f)
  IN  IF f \notin parsed THEN C
      ELSE [C EXCEPT !.declared = @ \cup {f},
                     !.edges = @ \cup ({f} \X (Imports[f] \cap existing))]

(* enqueueRelationshipFiles() *)
Enqueue(G, mode, S) ==
  LET new == RelationshipFiles(mode, S) \ (G.indexed \cup G.queued)
  IN  [G EXCEPT !.queue = @ \o ListOf(new), !.queued = @ \cup new]

(* indexFileRelationships(): the edges of f, as far as what f imports has  *)
(* been parsed.                                                            *)
Relate(G, f, parsed, existing) ==
  [G EXCEPT !.indexed = @ \cup {f},
            !.related = IF Imports[f] \cap existing \subseteq parsed THEN @ \cup {f} ELSE @]
-----------------------------------------------------------------------------
(* collectImportDependents(): a breadth-first search against the import    *)
(* edges; up[n] is what n steps reach.                                     *)
ImportersWithin(G, f) ==
  LET up[n \in 0 .. Cardinality(Files)] ==
        IF n = 0 THEN {f} ELSE up[n - 1] \cup {e[1] : e \in {x \in G.edges : x[2] \in up[n - 1]}}
  IN  up

Dependents(G, f) == ImportersWithin(G, f)[Cardinality(Files)] \ {f}

(* Dependents come level by level; within a level in the order of the      *)
(* edges, which is any.                                                    *)
DependentLists(G, f) ==
  LET up == ImportersWithin(G, f)
      level(d) == CHOOSE n \in DOMAIN up : d \in up[n] /\ \A k \in 0 .. n - 1 : d \notin up[k]
  IN  {s \in SetToSeqs(Dependents(G, f)) : \A i, k \in DOMAIN s : i < k => level(s[i]) <= level(s[k])}

(* updateFile() for one file of the list after another.  A file is cleared *)
(* before its edges are added, so an edge to a file that comes later is    *)
(* lost again when that file is cleared.                                   *)
UpdateAll(G, list, parsed, existing) ==
  LET files    == Range(list)
      cleared  == files \cap G.declared
      later(i) == cleared \cap {list[j] : j \in i + 1 .. Len(list)}
  IN  [declared |-> (G.declared \ cleared) \cup (files \cap parsed),
       edges |-> {e \in G.edges : {e[1], e[2]} \cap cleared = {}}
                 \cup UNION {{list[i]} \X ((Imports[list[i]] \cap existing) \ later(i)) :
                              i \in {k \in DOMAIN list : list[k] \in parsed}},
       indexed |-> G.indexed \ cleared,
       related |-> G.related \ UNION {Users(f) \cup {f} : f \in cleared},
       queue |-> Kept(G.queue, Files \ cleared),
       queued |-> G.queued \ cleared]

(* Mutant of RefreshWithDependents: the dependents are queued as they are. *)
RefreshAlone(G, mode, f, list, parsed, existing) ==
  Enqueue(UpdateFile(G, f, parsed, existing), mode, {f} \cup Range(list))

(* updateFileAndDependents(f, false), with the dependents in the order     *)
(* "list".                                                                 *)
RefreshWithDependents(G, mode, f, list, parsed, existing) ==
  Enqueue(UpdateAll(UpdateFile(G, f, parsed, existing), list, parsed, existing),
          mode, {f} \cup Range(list))

(* removeFileAndDependents(f, false) *)
RemoveWithDependents(G, mode, f, list, parsed, existing) ==
  Enqueue(UpdateAll(Clear(G, f), list, parsed, existing), mode, Range(list))
-----------------------------------------------------------------------------
(* rebuildWorkspaceDeclarations(): all from nothing, the listed files      *)
(* queued.                                                                 *)
RebuildDeclarations(mode, listed, parsed, existing) ==
  LET files == GraphFiles(mode, listed)
  IN  Enqueue([EmptyGraph EXCEPT
                 !.declared = files \cap parsed,
                 !.edges = UNION {{f} \X (Imports[f] \cap existing) : f \in files \cap parsed}],
              mode, files)

(* ensureWorkspaceDeclarations(): the listed files that have no nodes are  *)
(* declared, those whose relationships are not indexed queued.             *)
EnsureDeclarations(G, mode, listed, parsed, existing) ==
  LET files == GraphFiles(mode, listed)
      new   == (files \ G.declared) \cap parsed
  IN  Enqueue([G EXCEPT !.declared = @ \cup new,
                        !.edges = @ \cup UNION {{f} \X (Imports[f] \cap existing) : f \in new}],
              mode, files \ G.indexed)

(* ensureFileRelationships(): one file, ahead of the queue. *)
EnsureRelationships(G, f, parsed, existing) ==
  IF f \in G.indexed \/ f \notin parsed THEN G
  ELSE Relate([G EXCEPT !.queue = Kept(@, Files \ {f}), !.queued = @ \ {f}],
              f, parsed, existing)

(* How far into the queue a batch may go: files that are indexed already   *)
(* or have no parser state do not count, and the time budget may end the   *)
(* batch after the first file that does.                                   *)
BatchEnds(G, parsed) ==
  LET counted(k) == Cardinality({i \in 1 .. k : G.queue[i] \in parsed \ G.indexed})
      last == Len(G.queue)
  IN  {k \in 0 .. last : /\ k = last \/ counted(k) > 0
                         /\ k = 0 \/ counted(k - 1) < BatchSize}

(* indexRelationshipBatch(), ending after the k-th file of the queue: what *)
(* it takes counts as indexed, and what was not indexed yet and has parser *)
(* state gets its edges (indexFileRelationships).                          *)
Batch(G, k, parsed, existing) ==
  LET taken == {G.queue[i] : i \in 1 .. k}
  IN  [G EXCEPT !.queue = SubSeq(@, k + 1, Len(@)), !.queued = @ \ taken, !.indexed = @ \cup taken,
                !.related = @ \cup {f \in (taken \cap parsed) \ G.indexed : Imports[f] \cap existing \subseteq parsed}]
=============================================================================
