--------------------------- MODULE SymbolTables ---------------------------
(***************************************************************************)
(* The tables of the symbol index and how they are kept up to date: the    *)
(* symbols by file and by name, the contract that a name stands for, the   *)
(* inverted index of references and the trigrams of workspace search.      *)
(* Every change of a file takes its old entries out and puts its new ones  *)
(* in; a table is never rebuilt.                                           *)
(*                                                                         *)
(* A tree is what the parser keeps of a file: the names it declares, as    *)
(* contracts and as anything else, and the names that occur in its text,   *)
(* with their places.  A name is the sequence of its lower-case letters.   *)
(* Lists are sets: where the code takes the first of a list, any may be.   *)
(***************************************************************************)
EXTENDS Naturals, Sequences, FiniteSetsExt

CONSTANTS Files, Names, Trees, Positions, NoTree, NoFile,
          Queries   \* what is typed into workspace search

TableAssumption ==
  /\ Names \subseteq Seq(Nat) \ {<<>>} /\ Queries \subseteq Seq(Nat)
  /\ Trees \subseteq [contracts : SUBSET Names, others : SUBSET Names, uses : SUBSET (Names \X Positions)]
  /\ NoTree \notin Trees /\ NoFile \notin Files
ASSUME TableAssumption

VARIABLES cache,            \* the parser's cache
          symbolFiles,     \* the keys of symbolsByFile
          symbolsByFile,
          symbolsByName,
          contractsByName, \* the file whose contract a name stands for
          occurrences,     \* ReferenceIndex.index
          fileSymbols,     \* ReferenceIndex.fileSymbols
          names,           \* TrigramIndex.names
          postings         \* TrigramIndex.postings, as pairs of a trigram and a name

vars == <<cache, symbolFiles, symbolsByFile, symbolsByName, contractsByName, occurrences,
          fileSymbols, names, postings>>

Symbols == [name : Names, kind : {"contract", "other"}, filePath : Files]
Entries == Files \X Positions

\* What the loops over a tree push: one symbol per declaration.
SymbolsOf(f, t) ==
  [name : t.contracts, kind : {"contract"}, filePath : {f}]
    \cup [name : t.others, kind : {"other"}, filePath : {f}]

UsedIn(t) == {u[1] : u \in t.uses}
EntriesOf(f, t, n) == {<<f, u[2]>> : u \in {v \in t.uses : v[1] = n}}

UniqueTrigrams(n) == {<<n[i], n[i + 1], n[i + 2]>> : i \in 1..(Len(n) - 2)}
Postings(S) == UNION {UniqueTrigrams(n) \X {n} : n \in S}
Dropped(P, S) == {p \in P : p[2] \notin S}
-----------------------------------------------------------------------------
(* ReferenceIndex.removeFile: only the lists of the names the file had.    *)
RemoveReferences(f) ==
  /\ occurrences' = [n \in Names |-> IF n \in fileSymbols[f] THEN {e \in occurrences[n] : e[1] # f}
                                     ELSE occurrences[n]]
  /\ fileSymbols' = [fileSymbols EXCEPT ![f] = {}]

(* ReferenceIndex.indexFile: removeFile first. *)
IndexReferences(f, t) ==
  /\ occurrences' = [n \in Names |->
       (IF n \in fileSymbols[f] THEN {e \in occurrences[n] : e[1] # f} ELSE occurrences[n])
         \cup EntriesOf(f, t, n)]
  /\ fileSymbols' = [fileSymbols EXCEPT ![f] = UsedIn(t)]
-----------------------------------------------------------------------------
(* removeFileSymbols: f's symbols leave the lists of the names they had.   *)
Without(f) ==
  [n \in Names |-> IF \E s \in symbolsByFile[f] : s.name = n
                   THEN {s \in symbolsByName[n] : s.filePath # f} ELSE symbolsByName[n]]

\* The names whose last symbol was f's: they leave the trigram index.
Gone(f) == {n \in Names : (\E s \in symbolsByFile[f] : s.name = n) /\ Without(f)[n] = {}}

\* restoreContractEntry: the first contract left under n has it, if its file's tree still does.
Remaining(f, n) ==
  {IF cache[s.filePath] # NoTree /\ n \in cache[s.filePath].contracts THEN s.filePath ELSE NoFile :
     s \in {r \in Without(f)[n] : r.kind = "contract"}}

(* Mutant of Heirs: the name is left to nobody. *)
NoHeir(f, n) ==
  IF contractsByName[n] = f /\ (\E s \in symbolsByFile[f] : s.kind = "contract" /\ s.name = n)
  THEN {NoFile} ELSE {contractsByName[n]}

(* Whose contract n may stand for after removeFileSymbols: only an entry   *)
(* that was f's changes hands.                                             *)
Heirs(f, n) ==
  IF contractsByName[n] = f /\ (\E s \in symbolsByFile[f] : s.kind = "contract" /\ s.name = n)
  THEN IF Remaining(f, n) = {} THEN {NoFile} ELSE Remaining(f, n)
  ELSE {contractsByName[n]}
-----------------------------------------------------------------------------
(* parser.parse and SymbolIndex.updateFile, as the document and the watcher *)
(* handlers, sweeps and go-to-definition call them, one right after the    *)
(* other.                                                                  *)
UpdateFile(f, t) ==
  LET declared == t.contracts \cup t.others
      kept     == names \ Gone(f)
  IN  /\ cache' = [cache EXCEPT ![f] = t]
      /\ IndexReferences(f, t)
      /\ symbolFiles' = symbolFiles \cup {f}
      /\ symbolsByFile' = [symbolsByFile EXCEPT ![f] = SymbolsOf(f, t)]
      /\ symbolsByName' = [n \in Names |-> Without(f)[n] \cup {s \in SymbolsOf(f, t) : s.name = n}]
      /\ contractsByName' \in [Names -> Files \cup {NoFile}]
      /\ \A n \in Names : contractsByName'[n] \in IF n \in t.contracts THEN {f} ELSE Heirs(f, n)
      /\ names' = kept \cup declared
      /\ postings' = Dropped(postings, Gone(f))
                       \cup Postings(declared \ kept)

(* The watcher reports f deleted: the tree goes, then the tables' entries. *)
RemoveFile(f) ==
  /\ cache' = [cache EXCEPT ![f] = NoTree]
  /\ RemoveReferences(f)
  /\ symbolFiles' = symbolFiles \ {f}
  /\ symbolsByFile' = [symbolsByFile EXCEPT ![f] = {}]
  /\ symbolsByName' = Without(f)
  /\ contractsByName' \in [Names -> Files \cup {NoFile}]
  /\ \A n \in Names : contractsByName'[n] \in Heirs(f, n)
  /\ names' = names \ Gone(f)
  /\ postings' = Dropped(postings, Gone(f))

(* listTests parses a file that is not in the cache, and indexes nothing.  *)
ListTests(f, t) ==
  /\ cache[f] = NoTree
  /\ cache' = [cache EXCEPT ![f] = t]
  /\ UNCHANGED <<symbolFiles, symbolsByFile, symbolsByName, contractsByName, occurrences,
                 fileSymbols, names, postings>>
-----------------------------------------------------------------------------
\* q stands in n, letter by letter.
Includes(n, q) == \E k \in 0..Len(n) : k + Len(q) <= Len(n) /\ \A i \in 1..Len(q) : n[k + i] = q[i]

\* The letters of q occur in n in their order, each found as early as it can be.
IsOrderedSubsequence(n, q) ==
  LET ni[i \in 0..Len(q)] ==
        IF i = 0 THEN 0 ELSE Min({j \in ni[i - 1] + 1..Len(n) : n[j] = q[i]} \cup {Len(n) + 1})
  IN  ni[Len(q)] <= Len(n)

\* scoreName is positive: names are shorter than the thousand it subtracts from.
Scores(n, q) == Includes(n, q) \/ IsOrderedSubsequence(n, q)

Candidates(q) ==
  IF Len(q) < 3 THEN {n \in names : Includes(n, q)}
  ELSE {n \in names : \A g \in UniqueTrigrams(q) : <<g, n>> \in postings}

(* findWorkspaceSymbols, below its cap of a hundred results: all names are
   looked at when a query of three letters has no candidate. *)
Found(q) ==
  LET looked == IF Candidates(q) = {} /\ Len(q) >= 3 THEN names ELSE Candidates(q)
  IN  {n \in looked : Scores(n, q) /\ symbolsByName[n] # {}}
-----------------------------------------------------------------------------
Init ==
  /\ cache = [f \in Files |-> NoTree]
  /\ symbolFiles = {} /\ symbolsByFile = [f \in Files |-> {}]
  /\ symbolsByName = [n \in Names |-> {}]
  /\ contractsByName = [n \in Names |-> NoFile]
  /\ occurrences = [n \in Names |-> {}] /\ fileSymbols = [f \in Files |-> {}]
  /\ names = {} /\ postings = {}

Next ==
  \E f \in Files : RemoveFile(f) \/ \E t \in Trees : UpdateFile(f, t) \/ ListTests(f, t)

Spec == Init /\ [][Next]_vars
-----------------------------------------------------------------------------
TypeOK ==
  /\ cache \in [Files -> Trees \cup {NoTree}]
  /\ symbolFiles \subseteq Files
  /\ symbolsByFile \in [Files -> SUBSET Symbols] /\ symbolsByName \in [Names -> SUBSET Symbols]
  /\ contractsByName \in [Names -> Files \cup {NoFile}]
  /\ occurrences \in [Names -> SUBSET Entries] /\ fileSymbols \in [Files -> SUBSET Names]
  /\ names \subseteq Names /\ postings \subseteq Seq(Nat) \X Names

\* Whose contract a name may stand for.
Declaring(n) == {f \in symbolFiles : n \in cache[f].contracts}

\* What indexing the present trees from nothing would give: the symbols by name,
SymbolsRebuilt ==
  \A n \in Names : symbolsByName[n] = UNION {{s \in SymbolsOf(f, cache[f]) : s.name = n} : f \in symbolFiles}

\* the references to a name,
ReferencesRebuilt ==
  \A n \in Names : occurrences[n] = UNION {EntriesOf(f, cache[f], n) : f \in symbolFiles}

\* and the trigrams of the names that have symbols, and of no others.
TrigramsRebuilt ==
  /\ names = {n \in Names : symbolsByName[n] # {}}
  /\ postings = Postings(names)

(* Taking a file's old entries out and putting its new ones in leaves what a *)
(* rebuild would give, in every table, after any updates and removals.     *)
TablesRebuilt == SymbolsRebuilt /\ ReferencesRebuilt /\ TrigramsRebuilt

(* A name stands for a contract as long as an indexed file declares one, and *)
(* then for the contract of such a file, whichever came and went before.   *)
ContractsFollow ==
  \A n \in Names : IF Declaring(n) = {} THEN contractsByName[n] = NoFile
                   ELSE contractsByName[n] \in Declaring(n)

(* Workspace search finds every symbol whose name contains the query.      *)
SearchFindsSubstrings ==
  \A q \in Queries : \A n \in Names : symbolsByName[n] # {} /\ Includes(n, q) => n \in Found(q)

(* The tables of the symbol index are those that indexing the present trees
   would give, a name stands for a contract as long as one declares it, and
   search finds every symbol whose name contains the query.
   About updateFile and removeFile, which change the tables entry by entry. *)
TablesFollowTheTrees == TablesRebuilt /\ ContractsFollow /\ SearchFindsSubstrings
=============================================================================
