------------------------- MODULE SemanticResolver -------------------------
(***************************************************************************)
(* The resolver that the language features share: which contract a name    *)
(* means in a file, the chain of its bases, and which names a file sees,   *)
(* over the syntax trees that are known so far.  Its answers are cached;   *)
(* an edit drops the caches, the walk over imports and the background      *)
(* sweep of the dependencies only add trees.                               *)
(*                                                                         *)
(* A tree is [imports, contracts, decls]: a sequence of imports            *)
(* [target, alias, symbols], where symbols lists [name, as]; a sequence of *)
(* contracts [name, bases, members]; and the names of the other top-level  *)
(* declarations.  A name is a sequence of one or two identifiers.          *)
(***************************************************************************)
EXTENDS Naturals, Sequences, FiniteSets, SequencesExt

CONSTANTS
  Files, Trees,   \* Trees[f]: the trees that f may get
  Swept,          \* files the background sweep parses, too
  Names,
  NoTree, None,
  MaxEvents,      \* bound of the changes of trees
  MaxVisits       \* bound of the visits of a walk over bases

VARIABLES
  trees,          \* what the parser knows of each file
  cache,          \* [reach, imported, all, chains]
  listed,         \* files the walk or the sweep has still to parse
  reloading, events

vars == <<trees, cache, listed, reloading, events>>

Known(T) == {f \in Files : T[f] # NoTree}
TopLevel(u) == {u.contracts[i].name : i \in DOMAIN u.contracts} \cup u.decls
NameLeaf(name) == name[Len(name)]
NameOf(x) == <<x>>

Nowhere == [reach |-> <<>>, imported |-> <<>>, all |-> None, chains |-> <<>>]
\* The first of two sets that has an element, and an element of a set.
Prefer(S, T) == IF S # {} THEN S ELSE T
AnyOf(S) == IF S = {} THEN None ELSE CHOOSE x \in S : TRUE

Put(F, k, v) == [x \in DOMAIN F \cup {k} |-> IF x = k THEN v ELSE F[x]]
-----------------------------------------------------------------------------
\* collectReachableUris: a file that has no tree is reached, and leads nowhere.
Reach(T, f) ==
  LET targets(g) == IF T[g] = NoTree THEN {} ELSE {i.target : i \in ToSet(T[g].imports)} \ {None}
      within[k \in 0..Cardinality(Files)] ==
        IF k = 0 THEN {f} ELSE within[k - 1] \cup UNION {targets(g) : g \in within[k - 1]}
  IN  within[Cardinality(Files)]

\* Mutant of ImportGives: a renamed symbol is looked up by its original name.
ByOriginalName(T, imp, name) ==
  IF imp.target = None THEN {}
  ELSE IF Len(name) = 2 THEN IF imp.alias = name[1] THEN {[name |-> name[2], file |-> imp.target]} ELSE {}
  ELSE LET chosen == SelectSeq(imp.symbols, LAMBDA s : s.name = name[1])
       IN  IF chosen # <<>> THEN {[name |-> Head(chosen).name, file |-> imp.target]} ELSE {}

\* What one import makes of a name, if anything.
ImportGives(T, imp, name) ==
  IF imp.target = None THEN {}
  ELSE IF Len(name) = 2 THEN IF imp.alias = name[1] THEN {[name |-> name[2], file |-> imp.target]} ELSE {}
  ELSE LET chosen == SelectSeq(imp.symbols, LAMBDA s : s.as = name[1])
       IN  IF chosen # <<>> THEN {[name |-> Head(chosen).name, file |-> imp.target]}
           ELSE IF imp.alias = None /\ imp.symbols = <<>> /\ T[imp.target] # NoTree
                   /\ name[1] \in TopLevel(T[imp.target])
                THEN {[name |-> name[1], file |-> imp.target]}
                ELSE {}

\* resolveImportedSymbol: the first import that gives the name.
ImportedSymbol(T, name, f) ==
  IF T[f] = NoTree THEN None
  ELSE LET gives == SelectSeq(T[f].imports, LAMBDA i : ImportGives(T, i, name) # {})
       IN  IF gives = <<>> THEN None ELSE CHOOSE x \in ImportGives(T, Head(gives), name) : TRUE

\* getAllContracts: each with its file, its bases and its members.
Contracts(T) ==
  UNION {{[file |-> f, name |-> u.name, bases |-> u.bases, members |-> u.members] :
            u \in ToSet(T[f].contracts)} : f \in Known(T)}
Id(d) == <<d.file, d.name>>
-----------------------------------------------------------------------------
(* Each call answers from the caches and leaves what it looked up in them. *)
ReachOf(c, f) == IF f \in DOMAIN c.reach THEN c.reach[f] ELSE Reach(trees, f)
ReachKept(c, f) == [c EXCEPT !.reach = Put(@, f, ReachOf(c, f))]

ImportedOf(c, name, f) ==
  IF <<f, name>> \in DOMAIN c.imported THEN c.imported[<<f, name>>] ELSE ImportedSymbol(trees, name, f)
ImportedKept(c, name, f) == [c EXCEPT !.imported = Put(@, <<f, name>>, ImportedOf(c, name, f))]

AllOf(c) == IF c.all = None THEN Contracts(trees) ELSE c.all
AllKept(c) == [c EXCEPT !.all = AllOf(c)]

Exact(c, name, f) ==
  {d \in AllOf(c) : ImportedOf(c, name, f) = [name |-> d.name, file |-> d.file]}
\* Contracts are found by their plain name: a dotted name has no candidates.
Candidates(c, name) == {d \in AllOf(c) : NameOf(d.name) = name}

(* resolveContract, from a file: what its imports name, else a contract of
   the file itself, else one of a file it reaches.  Which of several is the
   order of the workspace: any. *)
Resolutions(c, name, f) ==
  Prefer(Exact(c, name, f),
         Prefer({d \in Candidates(c, name) : d.file = f}, {d \in Candidates(c, name) : d.file \in ReachOf(c, f)}))

ResolveContract(c, name, f) == AnyOf(Resolutions(c, name, f))

ResolveKept(c, name, f) ==
  LET looked == AllKept(ImportedKept(c, name, f))
      local  == Exact(c, name, f) # {} \/ Candidates(c, name) = {} \/ \E d \in Candidates(c, name) : d.file = f
  IN  IF local THEN looked ELSE ReachKept(looked, f)

(* getInheritanceChainFor: depth first through the bases, each contract
   once.  w: [stack, chain]. *)
BasesOf(c, d) ==
  SelectSeq([i \in DOMAIN d.bases |-> ResolveContract(c, d.bases[i], d.file)], LAMBDA b : b # None)

ChainStep(c, w) ==
  LET top == Head(w.stack)
  IN  IF w.stack = <<>> THEN w
      ELSE IF \E i \in DOMAIN w.chain : Id(w.chain[i]) = Id(top) THEN [w EXCEPT !.stack = Tail(@)]
      ELSE [stack |-> BasesOf(c, top) \o Tail(w.stack), chain |-> Append(w.chain, top)]

ChainWalk(c, root) ==
  LET run[k \in 0..MaxVisits] ==
        IF k = 0 THEN [stack |-> <<root>>, chain |-> <<>>] ELSE ChainStep(c, run[k - 1])
  IN  run[MaxVisits].chain

ChainOf(c, root) == IF Id(root) \in DOMAIN c.chains THEN c.chains[Id(root)] ELSE ChainWalk(c, root)

\* The walk leaves the chain, and what it looked up of the bases on its way.
ChainKept(c, root) ==
  LET chain == ChainWalk(c, root)
      looked == FoldLeft(LAMBDA k, d : FoldLeft(LAMBDA j, b : ResolveKept(j, b, d.file), k, d.bases), c, chain)
  IN  IF Id(root) \in DOMAIN c.chains THEN c ELSE [looked EXCEPT !.chains = Put(@, Id(root), chain)]

\* findMemberInInheritanceChain: the nearest contract that has the member.
MemberOwner(c, root, member) ==
  LET owners == SelectSeq(ChainOf(c, root), LAMBDA d : member \in d.members)
  IN  IF owners = <<>> THEN None ELSE Head(owners)

\* getSubtypes.
Subtypes(c, target) ==
  {d \in AllOf(c) : \E b \in ToSet(d.bases) : ResolveContract(c, b, d.file) = target}

(* filterVisibleSymbols: of the top-level symbols called x, the files whose
   symbol a file sees; namespaces count unless they are left out. *)
SymbolVisible(c, x, home, f, namespaces) ==
  \/ home = f
  \/ /\ home \in ReachOf(c, f)
     /\ \/ ImportedOf(c, NameOf(x), f) = [name |-> x, file |-> home]
        \/ /\ namespaces /\ trees[f] # NoTree
           /\ \E i \in ToSet(trees[f].imports) : i.alias # None /\ i.target = home
           /\ trees[home] # NoTree /\ x \in TopLevel(trees[home])
-----------------------------------------------------------------------------
\* invalidate(): everything is dropped.
Invalidated(c) == Nowhere

\* invalidate(uri): everything but what the other files reach.
InvalidatedFor(c, f) ==
  [Nowhere EXCEPT !.reach = [g \in DOMAIN c.reach \ {f} |-> c.reach[g]]]

Init ==
  /\ trees \in {T \in [Files -> {NoTree} \cup UNION {Trees[f] : f \in Files}] :
                 \A f \in Files : T[f] \in Trees[f] \cup {NoTree}}
  /\ cache = Nowhere /\ reloading = FALSE /\ events = 0
  /\ listed = {f \in Files : trees[f] = NoTree}

(* onDidChangeContent, or a file written on disk: the tree is replaced, and
   the resolver forgets everything. *)
Edit(f, u) ==
  /\ events < MaxEvents /\ ~reloading
  /\ trees' = [trees EXCEPT ![f] = u] /\ listed' = listed \ {f}
  /\ cache' = Invalidated(cache)
  /\ events' = events + 1 /\ UNCHANGED reloading

\* onDidChangeWatchedFiles, a deleted file.
RemoveFile(f) ==
  /\ events < MaxEvents /\ ~reloading /\ trees[f] # NoTree
  /\ trees' = [trees EXCEPT ![f] = NoTree]
  /\ cache' = Invalidated(cache)
  /\ events' = events + 1 /\ UNCHANGED <<listed, reloading>>

\* ensureImportsIndexed: a file seen for the first time enters the graph.
WalkParses(f, u) ==
  /\ f \in listed
  /\ trees' = [trees EXCEPT ![f] = u] /\ listed' = listed \ {f}
  /\ cache' = InvalidatedFor(cache, f)
  /\ UNCHANGED <<reloading, events>>

\* The background sweep of the dependencies tells nobody.
SweepParses(f, u) ==
  /\ f \in listed \cap Swept
  /\ trees' = [trees EXCEPT ![f] = u] /\ listed' = listed \ {f}
  /\ UNCHANGED <<cache, reloading, events>>

(* A reload parses every file again, some that changed on disk meanwhile,
   while requests are answered; the declarations are rebuilt at its end. *)
ReloadStart ==
  /\ ~reloading /\ events < MaxEvents
  /\ reloading' = TRUE /\ events' = events + 1
  /\ cache' = Invalidated(cache) /\ UNCHANGED <<trees, listed>>

ReloadParses(f, u) ==
  /\ reloading /\ trees[f] # u
  /\ trees' = [trees EXCEPT ![f] = u] /\ listed' = listed \ {f}
  /\ UNCHANGED <<cache, reloading, events>>

ReloadEnd ==
  /\ reloading /\ reloading' = FALSE
  /\ cache' = Invalidated(cache) /\ UNCHANGED <<trees, listed, events>>

\* A feature asks for a contract, for who sees a symbol, and for a chain of bases.
AskContract(name, f) ==
  /\ trees[f] # NoTree
  /\ cache' = ResolveKept(cache, name, f)
  /\ UNCHANGED <<trees, listed, reloading, events>>

AskVisible(x, f) ==
  /\ trees[f] # NoTree
  /\ cache' = ReachKept(ImportedKept(cache, NameOf(x), f), f)
  /\ UNCHANGED <<trees, listed, reloading, events>>

AskChain(name, f) ==
  /\ trees[f] # NoTree /\ ResolveContract(cache, name, f) # None
  /\ cache' = LET root == ResolveContract(cache, name, f)
              IN  ChainKept(ResolveKept(cache, name, f), root)
  /\ UNCHANGED <<trees, listed, reloading, events>>

Next ==
  \/ ReloadStart \/ ReloadEnd
  \/ \E f \in Files :
       \/ RemoveFile(f)
       \/ \E u \in Trees[f] : Edit(f, u) \/ WalkParses(f, u) \/ SweepParses(f, u) \/ ReloadParses(f, u)
       \/ \E name \in Names : AskContract(name, f) \/ AskChain(name, f) \/ AskVisible(NameLeaf(name), f)

Spec == Init /\ [][Next]_vars
-----------------------------------------------------------------------------
(* The identifiers that the language lets a file use for contracts: its own,
   and those that its imports bring in, at any depth. *)
Visible(T, f) ==
  LET own(g) == {[as |-> NameOf(d.name), contract |-> d] : d \in {e \in Contracts(T) : e.file = g}}
      brings(i, seen) ==
        LET plain == {v \in seen[i.target] : Len(v.as) = 1}
        IN  IF i.alias # None THEN {[v EXCEPT !.as = <<i.alias>> \o @] : v \in plain}
            ELSE IF i.symbols = <<>> THEN seen[i.target]
            ELSE UNION {{[v EXCEPT !.as = <<s.as>>] : v \in {w \in plain : w.as = <<s.name>>}} : s \in ToSet(i.symbols)}
      within[k \in 0..Cardinality(Files)] ==
        IF k = 0 THEN [g \in Files |-> own(g)]
        ELSE [g \in Files |-> within[k - 1][g] \cup
               IF g \in Known(T) THEN UNION {brings(i, within[k - 1]) : i \in ToSet(T[g].imports)} ELSE {}]
  IN  within[Cardinality(Files)][f]

(* The resolver searches the files that are reached, where the language
   follows the identifiers.  Where an identifier means one contract only, it
   finds that one or, when the identifier was renamed on its way through
   another file, none; it finds the contract by its own name, and through a
   namespace of the file itself. *)
ResolvesAsSolidity ==
  listed = {} =>
    \A f \in Files, name \in Names :
      LET means == {v.contract : v \in {w \in Visible(trees, f) : w.as = name}}
          plain(d) == \/ NameOf(d.name) = name
                      \/ Len(name) = 2 /\ \E i \in ToSet(trees[f].imports) : i.alias = name[1] /\ i.target = d.file
          found == Resolutions(Nowhere, name, f)
      IN  f \in Known(trees) /\ Cardinality(means) = 1 =>
            found \subseteq means /\ (found = {} => \A d \in means : ~plain(d))

(* What the caches hold was true of the trees, or falls short of it: files
   that were parsed for the first time, which drop no caches, only add what
   a cached answer lacks.  Holds outside a reload. *)
StaleIsIncomplete ==
  ~reloading =>
    /\ \A f \in DOMAIN cache.reach : cache.reach[f] \subseteq Reach(trees, f)
    /\ \A k \in DOMAIN cache.imported : cache.imported[k] \in {None, ImportedSymbol(trees, k[2], k[1])}
    /\ cache.all # None => cache.all \subseteq Contracts(trees)
    /\ \A r \in DOMAIN cache.chains :
         ToSet(cache.chains[r]) \subseteq ToSet(ChainOf(Nowhere, Head(cache.chains[r])))
=============================================================================
