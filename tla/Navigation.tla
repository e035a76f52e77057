----------------------------- MODULE Navigation -----------------------------
(***************************************************************************)
(* Where the editor goes from an identifier: to its definition, to that of *)
(* its type, to implementations, along the hierarchy of types, and to the  *)
(* references that a rename would rewrite; while the compiler's trees are  *)
(* cold, so that names decide.                                             *)
(*                                                                         *)
(* A tree has also its uses of identifiers: [at, name, path, in, fn, on,   *)
(* import, doc, line] with the receiver's path, the contract and the       *)
(* function around it, and what it is on: a "name", an import's "symbol",  *)
(* a "comment", or in one a "doc" reference [container, params, after].    *)
(* line is how it stands in the text: what its line starts with, whether   *)
(* it is "code" or of a "comment", and what comes before it that a scan    *)
(* may misread: in its line // wherever it stands or an odd "quote", or a  *)
(* "block" opened in a string.  A declaration is at its own identity, a    *)
(* <<file, container, kind, name, params>>.                                *)
(***************************************************************************)
EXTENDS CallResolution

CONSTANTS
  Workspaces,     \* the trees of all files that a workspace may have
  Tier,         \* for every file, "project", "tests", "deps" or, of those, "forge-std"
  Lib           \* files of the library folders, which a rename leaves alone

VARIABLES
  cursor,       \* [file, use] where the user is
  from,         \* where the last jump started, or None
  answer        \* [feature, locations] of the last question, or None

navigationVars == <<trees, cursor, from, answer>>

ContractKinds == {"contract", "interface", "library"}
TypeKinds == ContractKinds \cup {"struct", "enum", "userDefinedValueType"}

(* Symbols: declarations of a file, by their identity. *)
ContractId(f, c) == <<f, "", c.kind, c.name, <<>>>>
SymbolsOf(f) ==
  LET in(c, kind, s) == {MemberId(f, c, kind, s[i]) : i \in DOMAIN s}
      fields(s) == UNION {{<<f, s[i].name, "structMember", x.name, <<>>>> : x \in ToSet(s[i].fields)} : i \in DOMAIN s}
      values(e) == UNION {{<<f, e[i].name, "enumMember", v, <<>>>> : v \in e[i].values} : i \in DOMAIN e}
      members(c) == in(c.name, "function", c.functions) \cup in(c.name, "modifier", c.modifiers)
                    \cup {<<f, c.name, "stateVariable", v.name, <<>>>> : v \in ToSet(c.vars)}
                    \cup in(c.name, "event", c.events) \cup in(c.name, "struct", c.structs) \cup fields(c.structs)
                    \cup in(c.name, "enum", c.enums) \cup values(c.enums)
  IN  UNION {{ContractId(f, c)} \cup members(c) : c \in ToSet(Unit(f).contracts)}
      \cup in("", "function", Unit(f).free) \cup in("", "struct", Unit(f).structs) \cup fields(Unit(f).structs)
      \cup in("", "enum", Unit(f).enums) \cup values(Unit(f).enums)
AllSymbols == UNION {SymbolsOf(f) : f \in HasTree}
FindSymbols(name) == {s \in AllSymbols : s[4] = name}
InFile(S, f) == {s \in S : s[1] = f}

\* filterVisibleSymbols: members of files that are reached, top-level names that are imported.
VisibleFrom(f, S, namespaces) ==
  LET reached == Resolver!Reach(trees, f)
  IN  {s \in S : \/ s[1] = f
                 \/ /\ s[2] # "" /\ s[1] \in reached
                 \/ /\ s[2] = "" /\ Resolver!SymbolVisible(Resolver!Nowhere, s[4], s[1], f, namespaces)}
VisibleSymbols(name, f, qualified) == VisibleFrom(f, FindSymbols(name), qualified)
Imported(name, f) == Resolver!ImportedSymbol(trees, <<name>>, f)

(* The places where an identifier stands: its declarations and its uses. *)
PlainLine == [starts |-> "code", of |-> "code", before |-> {}]
AtDeclaration(id) ==
  [at |-> id, name |-> id[4], path |-> <<>>, in |-> IF id[2] = "" THEN None ELSE id[2],
   fn |-> None, on |-> "name", import |-> 0, doc |-> None, line |-> PlainLine]
Places(f) == {AtDeclaration(id) : id \in SymbolsOf(f)} \cup Unit(f).uses
Qualified(use) == use.path # <<>>

ContractIn(f, use) == IF use.in = None THEN None ELSE FirstOf(Named(Unit(f).contracts, use.in))
FunctionIn(f, use) ==
  IF use.fn = None THEN [names |-> <<>>, locals |-> <<>>, returns |-> <<>>]
  ELSE FirstOf(Named(ContractIn(f, use).functions, use.fn))
EnvAt(f, use) == [file |-> f, contract |-> ContractIn(f, use), fn |-> FunctionIn(f, use)]
-----------------------------------------------------------------------------
(* References in comments: {Container.name(types)}, or a name that an import
   or the documented declaration's surroundings explain. *)
MatchesImportedTopLevel(s, imported) == imported # None /\ s[4] = imported.name /\ s[1] = imported.file
InReferenceScope(s, f, container, after, imported) ==
  \/ s[1] = f \/ (after # None /\ s[1] = after[1])
  \/ /\ s[2] = ""
     /\ \/ MatchesImportedTopLevel(s, imported)
        \/ Imported(s[4], f) = [name |-> s[4], file |-> s[1]]
  \/ /\ s[2] # "" /\ container # None
     /\ Imported(container, f) = [name |-> s[2], file |-> s[1]]

\* Of those in scope: of the container near the comment, of the container, near the comment, of the file.
Nearest(scoped, f, container, after) ==
  LET of == {s \in scoped : container # None /\ s[2] = container}
      by(S) == IF after = None THEN {} ELSE InFile(S, after[1])
  IN  Prefer(IF after = None THEN of ELSE by(of), Prefer(of, Prefer(by(scoped), Prefer(InFile(scoped, f), scoped))))

Documented(use, f, container, imported) ==
  LET named == IF imported = None THEN VisibleSymbols(use.name, f, TRUE)
               ELSE InFile(FindSymbols(imported.name), imported.file)
  IN  {s \in named : /\ use.doc.params = None \/ s[5] = use.doc.params
                     /\ InReferenceScope(s, f, container, use.doc.after, imported)}

NatspecReference(use, f) ==
  LET after     == use.doc.after
      implicit  == IF after = None THEN None ELSE IF after[3] \in ContractKinds THEN after[4]
                   ELSE IF after[2] = "" THEN None ELSE after[2]
      container == IF use.doc.container # None THEN use.doc.container ELSE implicit
      imported  == IF use.doc.container = None THEN Imported(use.name, f) ELSE None
  IN  {AnyOf(Nearest(Documented(use, f, container, imported), f, container, after))} \ {None}

(* resolveImportSymbolAtPosition: what an import's braces name, by its
   original name. *)
ImportSymbol(use, f) ==
  LET imp == Unit(f).imports[use.import]
      exported == {s.name : s \in {x \in ToSet(imp.symbols) : use.name \in {x.name, x.as}}}
  IN  IF imp.target = None \/ imp.target \notin HasTree THEN {}
      ELSE {s \in SymbolsOf(imp.target) : s[4] \in exported}

ImportedReference(name, f) ==
  LET i == Imported(name, f) IN IF i = None THEN {} ELSE InFile(FindSymbols(i.name), i.file)

\* resolveVisibleInheritanceChain.
VisibleChain(type, f) ==
  LET seen == {d \in Resolver!Contracts(trees) : <<d.name>> = type /\ Resolver!SymbolVisible(Resolver!Nowhere, d.name, d.file, f, TRUE)}
      own  == {d \in seen : d.file = f}
      of(d)   == IF d = None THEN <<>> ELSE Chain(d)
      home(d) == IF d = None THEN None ELSE Resolve(<<d.name>>, d.file)
  IN  of(IF Resolver!ImportedSymbol(trees, type, f) # None THEN Resolve(type, f) ELSE home(AnyOf(Prefer(own, seen))))

(* resolveMemberDefinition: what using-for attaches, a member along the
   bases, a field of a struct or a value of an enum of the file. *)
MemberDefinition(type, name, f, contract) ==
  LET held(kind) == {s \in InFile(FindSymbols(name), f) : s[3] = kind /\ <<s[2]>> = type}
  IN  {OrElse(UsingFor(f, contract, TypeText(type), name, None),
              OrElse(FirstAlong(VisibleChain(type, f), LAMBDA d : MemberOf(d, name)),
                     AnyOf(Prefer(held("structMember"), held("enumMember")))))} \ {None}

\* provideDefinition.
Definition(use, f) ==
  LET symbols == VisibleSymbols(use.name, f, FALSE)
      comment == IF use.on = "doc" THEN NatspecReference(use, f) ELSE {}
      braces  == IF use.on = "symbol" THEN ImportSymbol(use, f) ELSE {}
      plain   == IF Cardinality(symbols) > 1 /\ InFile(symbols, f) # {} THEN InFile(symbols, f) ELSE symbols
  IN  Prefer(comment, Prefer(braces, Prefer(ImportedReference(use.name, f),
        IF Qualified(use)
        THEN MemberDefinition(DottedType(EnvAt(f, use), use.path), use.name, f, ContractIn(f, use))
        ELSE plain)))
-----------------------------------------------------------------------------
(* provideTypeDefinition: the type of a local, a parameter or a result, of a
   variable of the contract or its bases; else of a variable of the name. *)
ScopedType(use, f) ==
  LET env    == EnvAt(f, use)
      inner  == TypeNamed(env.fn.locals \o env.fn.names \o env.fn.returns, use.name)
      chain  == IF env.contract = None THEN <<>> ELSE Chain(Resolve(<<env.contract.name>>, f))
      owners == SelectSeq(chain, LAMBDA d : MemberOf(d, use.name) # None)
      first  == TypeNamed(Body(Head(owners)).vars, use.name)
  IN  IF use.fn = None THEN None
      ELSE IF inner # None THEN inner
      ELSE IF env.contract # None /\ TypeNamed(env.contract.vars, use.name) # None
      THEN TypeNamed(env.contract.vars, use.name)
      ELSE IF owners = <<>> THEN None
      ELSE IF MemberOf(Head(owners), use.name)[3] = "stateVariable" THEN first ELSE None

CarrierType(use, f) ==
  LET carriers == {s \in VisibleSymbols(use.name, f, FALSE) : s[3] = "stateVariable"}
      pools == <<carriers \cap {use.at}, {s \in InFile(carriers, f) : s[2] = use.in}, InFile(carriers, f), carriers>>
      found == SelectSeq(pools, LAMBDA p : p # {})
      s     == CHOOSE x \in Head(found) : TRUE
  IN  IF found = <<>> THEN None ELSE TypeNamed(Head(Named(Unit(s[1]).contracts, s[2])).vars, use.name)

\* resolveTypeDefinition: by the last name of a type that is written with dots.
TypeSymbols(type, f) ==
  LET seen == VisibleFrom(f, {s \in FindSymbols(Last(TypePath(type))) : s[3] \in TypeKinds}, type \in DOMAIN Dotted)
  IN  IF InFile(seen, f) # {} THEN InFile(seen, f) ELSE seen
TypeDefinition(use, f) ==
  LET symbols(type) == IF type = None THEN {} ELSE TypeSymbols(type, f)
  IN  Prefer(symbols(ScopedType(use, f)), symbols(CarrierType(use, f)))
-----------------------------------------------------------------------------
(* provideReferences, and the rename that rewrites them.  The symbol that is
   meant limits the files; a name that several share limits nothing. *)
SelectedSymbol(use, f) ==
  LET of(visible) ==
        LET i       == Imported(use.name, f)
            one(S)  == IF Cardinality(S) = 1 THEN S ELSE {}
            given   == IF i = None THEN {} ELSE {s \in InFile(visible, i.file) : s[4] = i.name}
        IN  AnyOf(Prefer({use.at} \cap visible, Prefer(one(visible), Prefer(one(InFile(visible, f)), given))))
  IN  of(VisibleSymbols(use.name, f, Qualified(use)))

\* Mutant of ReferenceScope: only files that import the symbol's file themselves.
DirectScope(use, f) ==
  LET s == SelectedSymbol(use, f)
  IN  IF s = None THEN HasTree
      ELSE {s[1], f} \cup {g \in HasTree : \E i \in ToSet(Unit(g).imports) : i.target = s[1]}

ReferenceScope(use, f) ==
  LET around(s) == IF s = None THEN HasTree ELSE {s[1], f} \cup {g \in HasTree : s[1] \in Resolver!Reach(trees, g)}
  IN  around(SelectedSymbol(use, f))

\* indexFile: code, unless it is taken for the inside of a block comment.
Indexed(g) == {p \in Places(g) : p.line.of = "code" /\ "block" \notin p.line.before}

\* findOccurrencesInText: line by line, what does not look like a string or a comment.
Scanned(g) == {p \in Places(g) : p.line.starts \notin {"//", "*"} /\ p.line.before \cap {"//", "quote"} = {}}

Occurring(name, g, found) == {[file |-> g, at |-> p.at] : p \in {q \in found : q.name = name}}
Occurrences(name, files) == UNION {Occurring(name, g, Indexed(g)) : g \in files}

References(use, f, declarations) ==
  LET visible == VisibleSymbols(use.name, f, Qualified(use))
      scope   == ReferenceScope(use, f)
      names   == {[file |-> s[1], at |-> s] : s \in {x \in visible : x[1] \in scope}}
  IN  IF visible = {} /\ FindSymbols(use.name) # {} THEN {}
      ELSE IF declarations THEN Occurrences(use.name, scope) \cup names
      ELSE Occurrences(use.name, scope) \ names

(* prepareRename refuses a name of several kinds; provideRename scans the
   texts of those files itself and leaves libraries alone. *)
Renameable(use, f) ==
  LET visible == VisibleSymbols(use.name, f, Qualified(use))
  IN  visible # {} /\ Cardinality({s[3] : s \in visible}) = 1
Rename(use, f) ==
  IF Renameable(use, f)
  THEN UNION {Occurring(use.name, g, Scanned(g)) : g \in ReferenceScope(use, f) \ Lib}
  ELSE {}
-----------------------------------------------------------------------------
(* The hierarchy of types.  A contract is that of the resolver. *)
ContractOf(s) == Resolve(<<s[4]>>, s[1])
TypeItem(use, f) ==
  LET symbols == {s \in FindSymbols(use.name) : s[3] \in ContractKinds}
      visible == VisibleFrom(f, symbols, Qualified(use))
      own     == InFile(visible, f)
      s       == CHOOSE x \in (IF own # {} THEN own ELSE visible) : TRUE
  IN  IF use.at \in symbols THEN ContractOf(use.at)
      ELSE IF Imported(use.name, f) # None /\ Resolve(<<use.name>>, f) # None THEN Resolve(<<use.name>>, f)
      ELSE IF visible = {} THEN None ELSE ContractOf(s)

Supertypes(d) == {Resolve(b, d.file) : b \in ToSet(d.bases)} \ {None}
Subtypes(d)   == Resolver!Subtypes(Resolver!Nowhere, d)
AllSubtypes(d) ==
  LET down[n \in 0..Cardinality(Files) + 1] ==
        IF n = 0 THEN Subtypes(d) ELSE down[n - 1] \cup UNION {Subtypes(e) : e \in down[n - 1]}
  IN  down[Cardinality(Files) + 1]

(* provideImplementation: the contracts under an interface or a contract, and
   their functions of the same name and parameters. *)
ContractImplementations(d) ==
  {ContractId(e.file, Body(e)) : e \in {x \in AllSubtypes(d) : Body(x).kind # "interface"}}
FunctionImplementations(s) ==
  {t \in AllSymbols : /\ t[3] = "function" /\ t[4] = s[4] /\ t[5] = s[5]
                      /\ \E e \in AllSubtypes(Resolve(<<s[2]>>, s[1])) :
                           <<e.file, e.name>> = <<t[1], t[2]>> /\ Body(e).kind # "interface"}
Implementation(use, f) ==
  LET under    == InFile(FindSymbols(use.name), f) \cap {use.at}
      symbols  == IF under # {} THEN under ELSE VisibleSymbols(use.name, f, Qualified(use))
      imported == IF Imported(use.name, f) = None THEN None ELSE Resolve(<<use.name>>, f)
  IN  (IF imported = None THEN {} ELSE ContractImplementations(imported))
      \cup UNION {ContractImplementations(ContractOf(s)) : s \in {x \in symbols : x[3] \in {"contract", "interface"}}}
      \cup UNION {FunctionImplementations(s) : s \in {x \in symbols : x[3] = "function" /\ x[2] # ""}}

(* The inheritance graph: contracts of the tiers that are asked for, without
   what is a Foundry test, and their bases; one that is not found is missing. *)
IsFoundryTest(d) == d.name = "Test" /\ Tier[d.file] \in {"tests", "forge-std"}
ExtendsTest(d) ==
  \E e \in ToSet(Chain(d)) :
    \/ e # d /\ IsFoundryTest(e)
    \/ \E b \in ToSet(e.bases) : Resolver!NameLeaf(b) = "Test" /\ Resolve(b, e.file) = None
Included(d, tests, dependencies) ==
  /\ Tier[d.file] = "tests" => tests
  /\ Tier[d.file] \in {"deps", "forge-std"} => dependencies
  /\ tests \/ ~ExtendsTest(d)
InheritanceGraph(tests, dependencies) ==
  LET shown == {d \in Resolver!Contracts(trees) : Included(d, tests, dependencies)}
      bases(d) == {b \in ToSet(d.bases) : Resolve(b, d.file) = None \/ Included(Resolve(b, d.file), tests, dependencies)}
      target(d, b) == IF Resolve(b, d.file) = None THEN <<"external", Resolver!NameLeaf(b)>> ELSE Resolver!Id(Resolve(b, d.file))
      edges == UNION {{[from |-> Resolver!Id(d), to |-> target(d, b)] : b \in bases(d)} : d \in shown}
  IN  [nodes |-> {Resolver!Id(d) : d \in shown} \cup {e.to : e \in edges}, edges |-> edges]
-----------------------------------------------------------------------------
NavigationInit ==
  /\ trees \in Workspaces
  /\ \E f \in HasTree : \E p \in Places(f) : cursor = [file |-> f, use |-> p]
  /\ from = None /\ answer = None

(* The editor jumps when there is one definition; then it may look for what
   refers to it, or rename it. *)
JumpTo(found) ==
  /\ Cardinality(found) = 1
  /\ \E s \in found : cursor' = [file |-> s[1], use |-> AtDeclaration(s)]

GoToDefinition ==
  /\ answer = None
  /\ JumpTo(Definition(cursor.use, cursor.file))
  /\ from' = cursor
  /\ UNCHANGED <<trees, answer>>

Answers(feature) ==
  LET use == cursor.use
      f   == cursor.file
  IN  CASE feature = "references"     -> References(use, f, TRUE)
        [] feature = "uses"           -> References(use, f, FALSE)
        [] feature = "rename"         -> Rename(use, f)
        [] feature = "typeDefinition" -> TypeDefinition(use, f)
        [] feature = "implementation" -> Implementation(use, f)
        [] feature = "type"           -> {TypeItem(use, f)} \ {None}
Ask(feature) ==
  /\ answer = None
  /\ answer' = [feature |-> feature, found |-> Answers(feature)]
  /\ UNCHANGED <<trees, cursor, from>>

NavigationNext ==
  GoToDefinition \/ \E feature \in {"references", "uses", "rename", "typeDefinition", "implementation", "type"} : Ask(feature)
-----------------------------------------------------------------------------
\* Lines that a scan misreads: comments for code, or code for a comment or a string.
Misread(line) ==
  IF line.of = "code" THEN line.starts = "*" \/ line.before # {} ELSE line.starts = "code"

(* The features agree.  An identifier in code that leads to a declaration of its
   own name is among the references to it and, outside libraries, in what its
   rename rewrites, but for lines that are misread; no reference is in a
   comment; the two answers differ by the libraries and those lines only.  The implementations of a contract are those that have it among their bases,
   the ones from its type definition are types, and every edge of the
   inheritance graph is of the hierarchy and joins two of its nodes. *)
NavigationAgrees ==
  answer # None =>
    LET use  == cursor.use
        f    == cursor.file
        here == [file |-> from.file, at |-> from.use.at]
        refs == References(use, f, TRUE)
        place(g, p) == [file |-> g, at |-> p.at]
        below(d) == {e \in Resolver!Contracts(trees) : e # d /\ d \in ToSet(Chain(e))}
    IN  /\ (/\ answer.feature \in {"references", "uses", "rename"} /\ from # None
            /\ from.use.name = use.name /\ from.use.line.of = "code" /\ from.use.at # use.at
            /\ answer.feature = "rename" => Renameable(use, f) /\ from.file \notin Lib) =>
             here \in answer.found \/ Misread(from.use.line)
        /\ answer.feature \in {"references", "uses"} =>
             \A g \in HasTree : \A p \in Places(g) : place(g, p) \in answer.found => p.line.of = "code"
        /\ answer.feature = "rename" /\ Renameable(use, f) =>
             /\ {o.file : o \in answer.found} \cap Lib = {}
             /\ \A g \in HasTree \ Lib : \A p \in Places(g) :
                  (place(g, p) \in answer.found <=> place(g, p) \in refs) \/ Misread(p.line)
        /\ answer.feature = "typeDefinition" => \A s \in answer.found : s[3] \in TypeKinds
        /\ answer.feature = "implementation" /\ use.at \in AllSymbols /\ use.at[3] \in ContractKinds \ {"library"} =>
             answer.found = {ContractId(e.file, Body(e)) : e \in {x \in below(ContractOf(use.at)) : Body(x).kind # "interface"}}
        /\ answer.feature = "type" =>
             /\ \A d \in answer.found : \A e \in Supertypes(d) : e # d => Resolver!Id(d) \in {Resolver!Id(x) : x \in Subtypes(e)}
             /\ \A tests, dependencies \in BOOLEAN :
                  LET g == InheritanceGraph(tests, dependencies)
                  IN  \A e \in g.edges : /\ {e.from, e.to} \subseteq g.nodes
                                         /\ e.to[1] # "external" => \E d \in Resolver!Contracts(trees) :
                                              Resolver!Id(d) = e.from /\ e.to \in {Resolver!Id(x) : x \in Supertypes(d)}
-----------------------------------------------------------------------------
(* What the editor offers where an identifier is typed: after a dot the
   members of what the receiver's path means, elsewhere the names of the file
   and of the files it reaches.  The words and members of the language itself
   are left out.  An item is [label, of] with the identity of the declaration;
   a function has also its visibility, as private. *)
Item(s) == [label |-> s[4], of |-> s]

(* resolveContract: what an import names, else a contract that the file
   sees; None for a path that is not the name of one. *)
OfferedContract(type, f) ==
  IF VisibleChain(type, f) = <<>> THEN None ELSE Resolve(type, f)

(* contractMemberCompletions: along the bases, functions that are not
   private, public variables, events and errors. *)
ContractMembers(d) ==
  LET of(e, kind, members) == {Item(MemberId(e.file, e.name, kind, m)) : m \in members}
      own(e) == of(e, "function", {m \in ToSet(Body(e).functions) : ~m.private})
                \cup of(e, "stateVariable", {v \in ToSet(Body(e).vars) : v.public})
                \cup of(e, "event", ToSet(Body(e).events)) \cup of(e, "error", ToSet(Body(e).errors))
  IN  UNION {own(e) : e \in ToSet(Chain(d))}

(* structMemberCompletions: the struct of the file, else where an import says. *)
StructNamed(type, f) ==
  IF Len(type) # 1 THEN None
  ELSE LET imported == FirstOf(StructImports(f, type[1]))
           own(g, structs) == IF structs = <<>> THEN None ELSE [file |-> g, struct |-> Head(structs)]
       IN  OrElse(own(f, Named(StructsOf(f), type[1])),
                  own(IF imported = None THEN f ELSE imported.target, StructFrom(imported, type[1])))
StructMembers(type, f) ==
  LET s == StructNamed(type, f)
  IN  IF s = None THEN {}
      ELSE {Item(<<s.file, s.struct.name, "structMember", x.name, <<>>>>) : x \in ToSet(s.struct.fields)}

(* usingForMemberCompletions: every name that a directive for the type lists,
   or that its library has, and that then attaches to the type. *)
ListedNames(u, f) ==
  LET library == IF u.library = None THEN None ELSE OfferedContract(u.library, f)
  IN  Prefer(u.functions, IF library = None THEN {} ELSE {m.name : m \in ToSet(Body(library).functions)})
UsingForMembers(type, f, contract) ==
  LET fitting == {e \in ToSet(Directives(f, contract)) : e.u.type \in {None, type}}
  IN  {i \in {[label |-> n, of |-> UsingFor(f, contract, type, n, None)] : n \in UNION {ListedNames(e.u, f) : e \in fitting}} :
         i.of # None}

(* provideMemberCompletions: the path as a contract, as a struct, and by the
   type that the parser finds of it. *)
OfType(type, f, contract) ==
  IF type = None THEN {}
  ELSE IF OfferedContract(TypePath(type), f) # None THEN ContractMembers(OfferedContract(TypePath(type), f))
  ELSE StructMembers(TypePath(type), f) \cup UsingForMembers(type, f, contract)

MemberCompletions(use, f) ==
  LET d == OfferedContract(use.path, f)
  IN  IF d # None THEN ContractMembers(d)
      ELSE Prefer(StructMembers(use.path, f), OfType(PathType(EnvAt(f, use), use.path), f, ContractIn(f, use)))

(* provideTypeCompletions and provideSymbolCompletions: types of the files
   that are reached, everything of the file itself, and what the others
   declare at their top. *)
\* Mutant of SymbolCompletions: only the files that the file imports itself.
DirectSymbols(f) ==
  {Item(s) : s \in SymbolsOf(f) \cup {x \in AllSymbols : x[2] = "" /\ \E i \in ToSet(Unit(f).imports) : i.target = x[1]}}

SymbolCompletions(f) ==
  LET reached == {s \in AllSymbols : s[1] \in Resolver!Reach(trees, f)}
  IN  {Item(s) : s \in SymbolsOf(f) \cup {x \in reached : x[2] = "" \/ x[3] \in TypeKinds}}

Completions(use, f) == IF Qualified(use) THEN MemberCompletions(use, f) ELSE SymbolCompletions(f)

\* provideCompletions, of the name that stands at the cursor.
Complete ==
  /\ answer = None /\ cursor.use.on = "name"
  /\ answer' = [feature |-> "completion", found |-> Completions(cursor.use, cursor.file)]
  /\ UNCHANGED <<trees, cursor, from>>

CompletionNext == NavigationNext \/ Complete
-----------------------------------------------------------------------------
\* A function or a variable of a contract that other contracts may use.
Accessible(s) ==
  \E c \in ToSet(Unit(s[1]).contracts) :
    c.name = s[2] /\ s \in {MemberId(s[1], s[2], "function", m) : m \in {x \in ToSet(c.functions) : ~x.private}}
                        \cup {MemberId(s[1], s[2], "stateVariable", v) : v \in {x \in ToSet(c.vars) : x.public}}

(* What is offered is what is found.  A member that is accepted leads to the
   declaration that was offered, or to one of its name that hides it, unless
   an import of the file has the name, or the struct is of another file; and
   where the receiver is a contract, the functions and public variables that
   a definition can lead to are offered, those that using-for attaches apart.
   Without a receiver, all that a definition finds in the file, at the top of
   others, and of types is offered, by the name it is declared with. *)
CompletionsLeadHome ==
  answer # None /\ answer.feature = "completion" =>
    LET use == cursor.use
        f   == cursor.file
        d   == OfferedContract(DottedType(EnvAt(f, use), use.path), f)
        accepted(label) == Definition([use EXCEPT !.name = label], f)
        attaches(label) == UsingFor(f, ContractIn(f, use), TypeText(DottedType(EnvAt(f, use), use.path)), label, None) # None
    IN  IF Qualified(use)
        THEN /\ \A i \in answer.found :
                  Imported(i.label, f) = None /\ (i.of[3] = "structMember" => i.of[1] = f) =>
                    \E s \in accepted(i.label) : attaches(i.label) \/ s \in {j.of : j \in answer.found}
             /\ d # None /\ use.path \notin {<<"this">>, <<"super">>} =>
                  \A name \in UNION {{s[4] : s \in SymbolsOf(e.file)} : e \in ToSet(Chain(d))} :
                    Imported(name, f) = None /\ ~attaches(name) =>
                      \A s \in accepted(name) : Accessible(s) => Item(s) \in answer.found
        ELSE \A name \in {s[4] : s \in AllSymbols} :
               \A s \in accepted(name) :
                 s[1] = f \/ s[2] = "" \/ s[3] \in TypeKinds => Item(s) \in answer.found
=============================================================================
