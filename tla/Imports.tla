------------------------------ MODULE Imports ------------------------------
(***************************************************************************)
(* The folders of the workspace (their configuration, their remappings,    *)
(* their files by tier), where an import leads, and the import that the    *)
(* editor proposes for a name that is not in scope.  Folders are read when *)
(* they are opened and when a configuration is saved; files that are       *)
(* written later are known to the symbol index only.                       *)
(*                                                                         *)
(* A path is a sequence of tokens, "/" among them; a remapping replaces a  *)
(* prefix of tokens, whatever it ends with.  A line of the document is     *)
(* [starts, path, adds, names, open]: the keyword it starts with, the path *)
(* of the import that ends on it (or <<>>), the names that import adds,    *)
(* the names the line uses, and whether its statement continues below.     *)
(***************************************************************************)
EXTENDS Naturals, Sequences, FiniteSets, SequencesExt

CONSTANTS
  Folders, Configs,   \* Configs[p]: the configurations that folder p may have
  Disks,              \* the files that may be on disk at first
  Written,            \* the files that may be written or deleted
  Declares,           \* Declares[f]: the names that f declares
  TestNames,          \* file names that end with .t.sol
  Documents, MaxLines,
  None

VARIABLES
  disk,               \* [files, config]
  roots,              \* the open folders, as they were read
  document            \* [file, lines, known]: known to the symbol index

importVars == <<disk, roots, document>>

Skipped == {"node_modules", "out", "cache", "broadcast"}

Segments(p)   == SelectSeq(p, LAMBDA t : t # "/")
Absolute(ss)  == FlattenSeq([i \in DOMAIN ss |-> <<"/", ss[i]>>])
IsAbsolute(p) == p # <<>> /\ p[1] = "/"
StepInto(s, ss) == IF s = "." THEN ss ELSE IF s = ".." THEN Front(ss) ELSE Append(ss, s)
Join(p, q)    == Absolute(FoldLeft(LAMBDA ss, s : StepInto(s, ss), Segments(p), Segments(q)))
Directory(p)  == Absolute(Front(Segments(p)))
Under(dir, p) == IsPrefix(dir \o <<"/">>, p)
After(p, q)   == SubSeq(q, Len(p) + 1, Len(q))
-----------------------------------------------------------------------------
\* loadRemappings: what is configured, then a prefix for each library directory.
Libraries(p, c) == [i \in DOMAIN c.libs |-> Join(p, c.libs[i])]
Detected(D, lib) ==
  LET inside == {Segments(After(lib, f))[1] : f \in {f \in D.files : Under(lib, f) /\ Len(Segments(After(lib, f))) > 1}}
      target(n) == IF \E f \in D.files : Under(Join(lib, <<n, "/", "src">>), f) THEN <<"/", n, "/", "src", "/">> ELSE <<"/", n, "/">>
  IN  SetToSeq({[prefix |-> <<n, "/">>, path |-> lib \o target(n)] : n \in inside})
AddDetected(rs, r) == IF \E i \in DOMAIN rs : rs[i].prefix = r.prefix THEN rs ELSE Append(rs, r)
LoadRemappings(D, p) ==
  LET c == D.config[p]
      found == FlattenSeq([i \in DOMAIN c.libs |-> Detected(D, Libraries(p, c)[i])])
  IN  FoldLeft(AddDetected, c.remappings, found)

\* discoverSourceFiles: a file belongs to each tier whose walk reaches it.
Walk(D, dir) == {f \in D.files : Under(dir, f) /\ ToSet(Front(Segments(After(dir, f)))) \cap Skipped = {}}
LoadRoot(D, p) ==
  LET c == D.config[p]
  IN  [path |-> p, config |-> c, remappings |-> LoadRemappings(D, p),
       project |-> Walk(D, Join(p, c.src)),
       tests |-> Walk(D, Join(p, c.test)) \cup Walk(D, Join(p, c.script)),
       deps |-> UNION {Walk(D, l) : l \in ToSet(Libraries(p, c))}]
SourceFiles(r) == r.project \cup r.tests \cup r.deps

\* findRootFor: the open folder with the longest path, else the primary one.
FindRootFor(f) ==
  LET owners == {i \in DOMAIN roots : Under(roots[i].path, f)}
  IN  IF owners = {} THEN roots[1]
      ELSE roots[CHOOSE i \in owners : \A j \in owners : Len(roots[j].path) <= Len(roots[i].path)]

\* resolveImportPath, tryRemap: the first prefix decides, whether or not its file exists.
Remap(path, rs, base) ==
  LET hits == {i \in DOMAIN rs : IsPrefix(rs[i].prefix, path)}
      r == rs[CHOOSE i \in hits : \A j \in hits : i <= j]
      text == r.path \o After(r.prefix, path)
      resolved == IF IsAbsolute(text) THEN Join(<<>>, text) ELSE Join(base, text)
  IN  IF hits # {} /\ resolved \in disk.files THEN <<resolved>> ELSE <<>>

\* Mutant of ResolveImport: the folders are tried in the order they were opened.
InOrderOfOpening(path, from) ==
  LET remapped == FlattenSeq([i \in DOMAIN roots |-> Remap(path, roots[i].remappings, roots[i].path)])
      near == Join(Directory(from), path)
  IN  IF remapped # <<>> THEN remapped[1] ELSE IF near \in disk.files THEN near ELSE None

\* resolveImport: remappings of the file's own folder, then of the others, then
\* relative, then the source and library directories, then the packages.
ResolveImport(path, from) ==
  LET own == FindRootFor(from)
      others == SelectSeq(roots, LAMBDA r : r.path # own.path)
      remapped == FlattenSeq([i \in 1..Len(others) + 1 |->
        LET r == (<<own>> \o others)[i] IN Remap(path, r.remappings, r.path)])
      near == IF path[1] \in {".", ".."} THEN <<Join(Directory(from), path)>> ELSE <<>>
      bases == FlattenSeq([i \in DOMAIN roots |->
        <<Join(roots[i].path, roots[i].config.src)>> \o Libraries(roots[i].path, roots[i].config)])
      tried == remapped \o near \o [i \in DOMAIN bases |-> Join(bases[i], path)]
               \o <<Join(Join(roots[1].path, <<"node_modules">>), path)>>
      found == SelectSeq(tried, LAMBDA f : f \in disk.files)
  IN  IF found = <<>> THEN None ELSE found[1]
-----------------------------------------------------------------------------
\* getFileTier, and getImportTier for the files that no folder has.
TierIn(r, f) == IF f \in r.project THEN "project" ELSE IF f \in r.tests THEN "tests" ELSE IF f \in r.deps THEN "deps" ELSE None
GetFileTier(f) ==
  LET tiers == SelectSeq([i \in DOMAIN roots |-> TierIn(roots[i], f)], LAMBDA t : t # None)
  IN  IF tiers = <<>> THEN None ELSE tiers[1]
GetImportTier(f) ==
  LET dirs == ToSet(Front(Segments(f)))
  IN  IF GetFileTier(f) # None THEN GetFileTier(f)
      ELSE IF dirs \cap {"test", "tests", "script", "scripts"} # {} \/ Segments(f)[Len(Segments(f))] \in TestNames THEN "tests"
      ELSE IF dirs \cap {"lib", "node_modules"} # {} THEN "deps"
      ELSE IF dirs \cap {"src", "contracts"} # {} THEN "project" ELSE "unknown"

\* computeImportPath: the first remapping of any folder whose target holds the
\* file; a relative target is taken to be in the primary folder.
Relative(from, to) ==
  LET a == Segments(Directory(from)) b == Segments(to)
      same == {k \in 0..Len(a) : k < Len(b) /\ SubSeq(a, 1, k) = SubSeq(b, 1, k)}
      n == CHOOSE k \in same : \A j \in same : j <= k
      up == [i \in 1..Len(a) - n |-> ".."]
  IN  Tail(Absolute((IF up = <<>> THEN <<".">> ELSE up) \o SubSeq(b, n + 1, Len(b))))
Target(r) == IF IsAbsolute(r.path) THEN r.path
             ELSE Join(roots[1].path, r.path) \o (IF r.path[Len(r.path)] = "/" THEN <<"/">> ELSE <<>>)
ComputeImportPath(from, to) ==
  LET rs == FlattenSeq([i \in DOMAIN roots |-> roots[i].remappings])
      hits == {i \in DOMAIN rs : IsPrefix(Target(rs[i]), to)}
      r == rs[CHOOSE i \in hits : \A j \in hits : i <= j]
  IN  IF hits = {} THEN Relative(from, to) ELSE r.prefix \o After(Target(r), to)

Paths(d) == {d.lines[i].path : i \in DOMAIN d.lines} \ {<<>>}
GetExistingImports(d) == {ResolveImport(p, d.file) : p \in Paths(d)} \ {None}
CollectLocalNames(d) == Declares[d.file] \cup UNION {d.lines[i].adds : i \in DOMAIN d.lines}

\* findImportCandidates: nothing when the file declares the name itself.
FindImportCandidates(d, name) ==
  LET named == {f \in d.known : name \in Declares[f]}
      offered == {g \in named \ GetExistingImports(d) : GetImportTier(d.file) = "tests" \/ GetImportTier(g) # "tests"}
      candidates == {[name |-> name, file |-> g, path |-> ComputeImportPath(d.file, g)] : g \in offered}
  IN  IF d.file \in named THEN {}
      ELSE {CHOOSE c \in candidates : c.path = p : p \in {c.path : c \in candidates}}

\* provideImportActions: the names the compiler misses anywhere, and those on
\* the chosen line that are not local.
ProvideImportActions(d, undeclared, line) ==
  UNION {FindImportCandidates(d, n) : n \in undeclared \cup (d.lines[line].names \ (CollectLocalNames(d) \cup {"Error", "Panic", "Test"}))}

\* findImportInsertPosition: below the last line that starts an import, else the
\* pragma, else the licence.
FindImportInsertPosition(lines) ==
  LET last(k) == {i \in DOMAIN lines : lines[i].starts = k}
      greatest(S) == CHOOSE i \in S : \A j \in S : j <= i
  IN  IF last("import") # {} THEN greatest(last("import"))
      ELSE IF last("pragma") # {} THEN greatest(last("pragma"))
      ELSE IF last("spdx") # {} THEN greatest(last("spdx")) ELSE 0

ImportLine(c) == [starts |-> "import", path |-> c.path, adds |-> {c.name}, names |-> {}, open |-> FALSE]
CreateImportAction(d, c) == [d EXCEPT !.lines = InsertAt(@, FindImportInsertPosition(@) + 1, ImportLine(c))]

\* provideDocumentLinks: each import's line and the file it opens.
DocumentLinks(d) ==
  {[line |-> i, target |-> ResolveImport(d.lines[i].path, d.file)] : i \in {i \in DOMAIN d.lines : d.lines[i].path # <<>>}}
-----------------------------------------------------------------------------
Undeclared(d) == UNION {d.lines[i].names : i \in DOMAIN d.lines} \ CollectLocalNames(d)
ImportsInit ==
  /\ disk \in [files : Disks, config : {[p \in Folders |-> None]}]
  /\ roots = <<>> /\ document = None

\* handleWorkspaceFoldersChanged, initialize: a folder that is opened is read.
AddRoot(p, c) ==
  /\ \A i \in DOMAIN roots : roots[i].path # p
  /\ disk' = [disk EXCEPT !.config[p] = IF @ = None THEN c ELSE @]
  /\ roots' = Append(roots, LoadRoot(disk', p))
  /\ \E d \in Documents :
       document' = [IF document = None THEN [file |-> d.file, lines |-> d.lines, known |-> {}] ELSE document
                    EXCEPT !.known = @ \cup SourceFiles(roots'[Len(roots')])]
RemoveRoot(p) ==
  /\ Len(roots) > 1 /\ p \in {roots[i].path : i \in DOMAIN roots}
  /\ roots' = SelectSeq(roots, LAMBDA r : r.path # p)
  /\ UNCHANGED <<disk, document>>
\* A saved configuration: every folder is read again.
SaveConfig(p, c) ==
  /\ roots # <<>> /\ disk.config[p] \notin {None, c}
  /\ disk' = [disk EXCEPT !.config[p] = c]
  /\ roots' = [i \in DOMAIN roots |-> LoadRoot(disk', roots[i].path)]
  /\ document' = [document EXCEPT !.known = @ \cup UNION {SourceFiles(roots'[i]) : i \in DOMAIN roots'}]
\* A file that is written or deleted: the symbol index follows, the folders do not.
WriteFile(f) ==
  /\ roots # <<>> /\ f # document.file
  /\ LET keep == f \in disk.files
     IN  /\ disk' = [disk EXCEPT !.files = IF keep THEN @ \ {f} ELSE @ \cup {f}]
         /\ document' = [document EXCEPT !.known = IF keep THEN @ \ {f} ELSE @ \cup {f}]
  /\ UNCHANGED roots
Accept(line) ==
  /\ document # None /\ line \in DOMAIN document.lines /\ Len(document.lines) < MaxLines
  /\ \E c \in ProvideImportActions(document, Undeclared(document), line) : document' = CreateImportAction(document, c)
  /\ UNCHANGED <<disk, roots>>

ImportsNext ==
  \/ \E p \in Folders : RemoveRoot(p) \/ \E c \in Configs[p] : AddRoot(p, c) \/ SaveConfig(p, c)
  \/ \E f \in Written : WriteFile(f)
  \/ \E line \in 1..MaxLines : Accept(line)
ImportsSpec == ImportsInit /\ [][ImportsNext]_importVars
-----------------------------------------------------------------------------
\* The mappings that matter to an import of a file have no common prefix: those
\* of the document's folder when they alone lead to the file, else all of them.
\* A relative target is taken to be in the primary folder, so it has to be.
Own(r)   == {[base |-> r.path, of |-> m] : m \in ToSet(r.remappings)}
Leads(m) == IF IsAbsolute(m.of.path) THEN m.of.path ELSE m.base \o <<"/">> \o m.of.path
Unambiguous(to) ==
  LET own == FindRootFor(document.file)
      all == UNION {Own(roots[i]) : i \in DOMAIN roots}
      near == FindRootFor(to) = own /\ \A m \in all \ Own(own) : ~IsPrefix(Leads(m), to)
      matter == IF near THEN Own(own) ELSE all
  IN  /\ \A m, n \in matter : m # n => ~IsPrefix(m.of.prefix, n.of.prefix)
      /\ \A m \in all : IsAbsolute(m.of.path) \/ m.base = roots[1].path

\* No line was put into an import that takes several.
Intact(lines) == \A i \in DOMAIN lines : lines[i].open => i < Len(lines) /\ lines[i + 1].starts # "import"

(* An import that the editor proposes, accepted, opens the file that declares
   the name and is not proposed again, whatever folders were opened, closed or
   configured anew and whatever was written since they were read; a file of the
   project is never given one of the tests; and the new line is below every
   import, unless the last one continues on the next line.
   About provideImportActions, computeImportPath and resolveImport, which find
   a path and read it by different rules. *)
ImportsReachTheirFile ==
  document # None /\ Intact(document.lines) =>
    \A line \in DOMAIN document.lines :
      \A c \in ProvideImportActions(document, Undeclared(document), line) :
        LET after == CreateImportAction(document, c)
            where == FindImportInsertPosition(document.lines)
        IN  /\ Unambiguous(c.file) =>
                 /\ [line |-> where + 1, target |-> c.file] \in DocumentLinks(after)
                 /\ c \notin ProvideImportActions(after, {c.name}, 1)
            /\ GetFileTier(document.file) = "project" => \A i \in DOMAIN roots : c.file \notin roots[i].tests
            /\ (where = 0 \/ ~document.lines[where].open) =>
                 \A i \in DOMAIN document.lines : i > where => document.lines[i].path = <<>>
=============================================================================
