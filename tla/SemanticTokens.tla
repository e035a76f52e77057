---------------------------- MODULE SemanticTokens ----------------------------
(***************************************************************************)
(* The colours of a document: tokens where the grammar's tree has a        *)
(* declaration, a variable or a type, for the keywords of using            *)
(* directives, and for the identifiers that a scan finds in the bodies of  *)
(* functions, whose kinds come from maps of the names of the file, of the  *)
(* contract with its bases in the file, and of the parameters.  The tree,  *)
(* which gives the former, is missing after a worker parsed the file.      *)
(***************************************************************************)
EXTENDS SolidityParser

InOrder(places, n) == SelectSeq(Places(1, n), LAMBDA i : i \in places)
Token(at, type, modifiers) == [at |-> at, type |-> type, modifiers |-> modifiers]
-----------------------------------------------------------------------------
(* The tokens of the tree.  The legend has all of their
   types and modifiers. *)
NameType(d) ==
  CASE d.type = "contract" -> IF "interface" \in d.flags THEN "interface" ELSE "class"
    [] d.type = "error" -> "function"
    [] d.type = "modifier" -> "macro"
    [] d.type = "constant" -> "property"
    [] OTHER -> d.type
NameModifiers(d) ==
  CASE d.type = "contract" -> {"declaration", "definition"}
    [] d.type = "function" -> {"declaration"} \cup (d.flags \cap {"virtual", "override"})
    [] d.type = "constant" -> {"declaration", "readonly"}
    [] OTHER -> {"declaration"}
LinesBetween(t, i, j) == Cardinality({k \in i..(j - 1) : t[k] = "nl"})

\* findNameAfter: the first place of the word, comments included, at most five lines below.
FindNameAfter(t, at, name) ==
  LET found == {i \in at..Len(t) : t[i] = name /\ LinesBetween(t, at, i) <= 5}
  IN  IF name = None \/ found = {} THEN {} ELSE {Min(found)}

\* emitUsingForDirective: every keyword of the directive's text, comments included.
UsingKeywords == {"using", "for", "global"}
KeywordsIn(t, from, to) == {Token(i, "keyword", {}) : i \in {j \in from..to : t[j] \in UsingKeywords}}
EmitUsingForDirective(t, ls, i) ==
  KeywordsIn(t, PlaceOf(ls, i), PlaceOf(ls, Min({j \in i..Len(ls) : ls[j].chars = <<";">>})))

\* emitPragma: at the columns that the words have where nothing precedes them.
EmitPragma(t, at) == {Token(LineStart(t, at), "keyword", {}), Token(LineStart(t, at) + 2, "namespace", {})}
EmitImport(at) == {Token(at, "keyword", {})}

(* The bases and variables of a declaration, with the user's types in theirs:
   parameters, results, members of structs, state variables. *)
EmittedLists(d) ==
  CASE d.type = "contract" -> {"base"}
    [] d.type = "function" -> {"parameter", "return"}
    [] d.type \in {"event", "error", "modifier"} -> {"parameter"}
    [] d.type = "struct"   -> {"member"}
    [] d.type = "property" -> {"variable"}
    [] d.type = "constant" -> {"constant"}
    [] OTHER -> {}
VariableType(list) == IF list \in {"parameter", "return"} THEN "parameter" ELSE "property"
VariableModifiers(d, list) == {"declaration"} \cup (IF list = "variable" THEN d.flags \cap {"readonly"} ELSE {})
EmitVariable(ls, i) ==
  IF ls[i].role[2] = "type" THEN Token(PlaceOf(ls, i), "type", {})
  ELSE Token(PlaceOf(ls, i), VariableType(ls[i].role[1]), VariableModifiers(ls[i].of, ls[i].role[1]))

EmitNode(t, ls, i) ==
  LET d == ls[i].of IN
  CASE d.type = "using"  -> EmitUsingForDirective(t, ls, i)
    [] d.type = "pragma" -> EmitPragma(t, PlaceOf(ls, i))
    [] d.type = "import" -> EmitImport(PlaceOf(ls, i))
    [] d.type = "property" -> {}
    [] OTHER -> {Token(at, NameType(d), NameModifiers(d)) : at \in FindNameAfter(t, PlaceOf(ls, i), d.name)}
CollectDeclarationTokens(t, ls) ==
  IF ~document.entry.rawAst THEN {}
  ELSE UNION {EmitNode(t, ls, i) : i \in {j \in DOMAIN ls : ls[j].role = <<"node", "start">>}}
       \cup {EmitVariable(ls, i) : i \in {j \in DOMAIN ls : /\ ls[j].role # None /\ ls[j].role[2] # "start"
                                                          /\ ls[j].role[1] \in EmittedLists(ls[j].of)}}

(* collectUsingDirectiveKeywordTokens: line by line, from "using" to the line
   that has the semicolon. *)
DirectiveStep(s, code, i) ==
  LET to    == LineEnd(code, i)
      using == {j \in i..to : code[j] = "using"}
      from  == IF s.inside \/ using = {} THEN i ELSE Min(using)
  IN  IF ~s.inside /\ using = {} THEN s
      ELSE [inside |-> \A j \in from..to : code[j] # ";", tokens |-> s.tokens \cup KeywordsIn(code, from, to)]
LineStarts(t) == {1} \cup {i + 1 : i \in {j \in DOMAIN t : t[j] = "nl"}}
CollectUsingDirectiveKeywordTokens(code) ==
  FoldLeft(LAMBDA s, i : DirectiveStep(s, code, i), [inside |-> FALSE, tokens |-> {}],
           InOrder(LineStarts(code), Len(code))).tokens
-----------------------------------------------------------------------------
(* The kinds of names: later entries of a map replace earlier ones. *)
Put(kinds, n, k) == [m \in DOMAIN kinds \cup {n} |-> IF m = n THEN k ELSE kinds[m]]
PutAll(kinds, lists) ==
  FoldLeft(LAMBDA map, d : IF d.name = None THEN map ELSE Put(map, d.name, NameType(d)), kinds, FlattenSeq(lists))
BuildFileNameKinds(u) ==
  LET nodes == [i \in DOMAIN u.contracts |-> u.contracts[i].node]
  IN  PutAll(<<>>, <<u.userDefinedValueTypes, u.structs, u.enums, u.fileConstants, u.events, u.freeFunctions, nodes, u.errors>>)

\* contractsByName: by what a base is called, of which the last has the name.
ContractsNamed(u, path) == {i \in DOMAIN u.contracts : <<u.contracts[i].name>> = path}
RECURSIVE AddContractMembers(_, _, _)
AddContractMembers(u, s, c) ==
  LET inherit(r, path) ==
        IF ContractsNamed(u, path) = {} THEN r ELSE AddContractMembers(u, r, u.contracts[Max(ContractsNamed(u, path))])
  IN  IF c.name \in s.seen THEN s
      ELSE [FoldLeft(inherit, [s EXCEPT !.seen = @ \cup {c.name}], c.baseContracts)
              EXCEPT !.kinds = PutAll(@, <<c.structs, c.enums, c.errors, c.stateVariables, c.events, c.modifiers, c.functions>>)]
BuildContractNameKinds(u, c) == AddContractMembers(u, [kinds |-> BuildFileNameKinds(u), seen |-> {}], c).kinds

(* scanFunction: the parameters' entries are put on the map while the body is
   scanned, and taken back in reverse. *)
Prior(kinds, n) == IF n \in DOMAIN kinds THEN kinds[n] ELSE None
ApplyParam(s, p) ==
  IF p.name = None THEN s
  ELSE [kinds |-> Put(s.kinds, p.name, "parameter"),
        overrides |-> Append(s.overrides, [name |-> p.name, prior |-> Prior(s.kinds, p.name)])]
\* Mutant of Restore: only what had an entry before is restored.
RestoreOld(kinds, overrides) ==
  FoldLeft(LAMBDA map, o : IF o.prior # None THEN Put(map, o.name, o.prior) ELSE map, kinds, Reverse(overrides))
Restore(kinds, overrides) ==
  FoldLeft(LAMBDA map, o : IF o.prior # None THEN Put(map, o.name, o.prior)
                           ELSE [n \in DOMAIN map \ {o.name} |-> map[n]], kinds, Reverse(overrides))
TokensOf(t, kinds, words) == {Token(i, kinds[t[i]], {}) : i \in {j \in words : t[j] \in DOMAIN kinds}}
ScanBody(s, t, inner, bounds) ==
  IF bounds = None THEN s
  ELSE [kinds |-> Restore(inner.kinds, inner.overrides),
        tokens |-> s.tokens \cup TokensOf(t, inner.kinds, ScanIdentifiersInRange(t, bounds[1], bounds[2]))]
ScanFunction(s, t, f, at) ==
  IF f.body = None THEN s
  ELSE ScanBody(s, t, FoldLeft(ApplyParam, [kinds |-> s.kinds, overrides |-> <<>>], f.params \o f.returns),
                GetFunctionBodyRange(t, at))

\* The functions of one contract, or those of the file, in the order of the text.
FunctionsIn(ls, c) == {i \in DOMAIN ls : ls[i].role = <<"node", "start">> /\ ls[i].of.type = "function" /\ ls[i].in = c}
ScanFunctions(t, ls, kinds, c) ==
  FoldLeft(LAMBDA s, i : ScanFunction(s, t, ls[i].of, PlaceOf(ls, i)), [kinds |-> kinds, tokens |-> {}],
           InOrder(FunctionsIn(ls, c), Len(ls))).tokens
CollectReferenceTokens(t, ls, u) ==
  IF u = EmptySourceUnit THEN {}
  ELSE ScanFunctions(t, ls, BuildFileNameKinds(u), None)
       \cup UNION {ScanFunctions(t, ls, BuildContractNameKinds(u, c), c.node) : c \in ToSet(u.contracts)}

(* collectTokens, and buildFromTokens: without duplicates, in the order of the
   text.  A request that is cancelled is answered without tokens. *)
CollectTokens(t, ls) ==
  IF document.entry = None THEN {}
  ELSE CollectDeclarationTokens(t, ls) \cup CollectUsingDirectiveKeywordTokens(StripCommentsAndStrings(t)) \cup CollectReferenceTokens(t, ls, SourceUnit)
BuildFromTokens(tokens, n) == FlattenSeq([i \in 1..n |-> SetToSeq({x \in tokens : x.at = i})])
-----------------------------------------------------------------------------
(* What a word of a body means: a parameter or a result of its function before
   a member of its contract, that before a member of an ancestor, that before
   a declaration of the file. *)
KindsIn(ds, w) == {NameType(d) : d \in {e \in ToSet(ds) : e.name = w /\ e.type \notin {"using", "pragma", "import"}}}
Declared(path) == {d \in ToSet(Content) : d.type = "contract" /\ <<d.name>> = path}
RECURSIVE AncestorsOf(_)
AncestorsOf(cs) ==
  LET more == cs \cup UNION {Declared(n) : n \in UNION {ToSet(c.bases) : c \in cs}} IN IF more = cs THEN cs ELSE AncestorsOf(more)
Meaning(w, f, c) ==
  LET own       == IF c = None THEN {} ELSE KindsIn(c.members, w)
      inherited == IF c = None THEN {} ELSE UNION {KindsIn(b.members, w) : b \in AncestorsOf({c})}
  IN  IF \E p \in ToSet(f.params \o f.returns) : p.name = w THEN {"parameter"}
      ELSE IF own # {} THEN own ELSE IF inherited # {} THEN inherited ELSE KindsIn(Content, w)

(* The tokens that the language would have: names where they are declared,
   types, the keywords of pragmas, imports and directives, and the words of
   bodies.  The tree is needed for all but the last two. *)
NamedTokens(ls, i) ==
  LET d == ls[i].of
      list == ls[i].role[1]
  IN  CASE ls[i].role = <<"node", "name">> ->
             {IF d.type = "pragma" THEN Token(PlaceOf(ls, i), "namespace", {}) ELSE Token(PlaceOf(ls, i), NameType(d), NameModifiers(d))}
        [] ls[i].role[2] = "type" -> {Token(PlaceOf(ls, i), "type", {})}
        [] ls[i].role[2] = "name" /\ list # "node" -> {Token(PlaceOf(ls, i), VariableType(list), VariableModifiers(d, list))}
        [] ls[i].role = <<"node", "keyword">> /\ d.type \in {"pragma", "import"} -> {Token(PlaceOf(ls, i), "keyword", {})}
        [] OTHER -> {}
ScannedTokens(ls, i) ==
  LET w == ls[i].chars[1] IN
  CASE ls[i].of.type = "using" /\ w \in UsingKeywords -> {Token(PlaceOf(ls, i), "keyword", {})}
    [] ls[i].role = <<"body", "word">> /\ Parsable(Content) ->
         {Token(PlaceOf(ls, i), k, {}) : k \in Meaning(w, ls[i].of, ls[i].in)}
    [] OTHER -> {}
WordTokens(ls, i) == ScannedTokens(ls, i) \cup (IF document.entry.rawAst THEN NamedTokens(ls, i) ELSE {})

(* Exceptions: a comment before a name holds the name; a pragma's words are not
   where its line begins; a comment in a directive holds a keyword; a function
   begins on a line that has code before it, whose braces are taken for its
   own; a word means a value type of a contract. *)
Misnamed(l) ==
  /\ l.role = <<"node", "start">>
  /\ \/ \E i \in DOMAIN l.of.before : l.of.type = "pragma" \/ l.of.name \in ToSet(l.of.before[i].chars)
     \/ l.of.type = "contract" /\ OfType(l.of.members, "type") # <<>>
MisleadsDirective(l) == l.role = <<"using", "word">> /\ l.class = "comment" /\ ToSet(l.chars) \cap UsingKeywords # {}
SharesLine(code, ls, i) ==
  /\ ls[i].role = <<"node", "start">> /\ ls[i].of.type = "function"
  /\ \E j \in LineStart(code, PlaceOf(ls, i))..(PlaceOf(ls, i) - 1) : code[j] \notin Blank
ColoursFitTheScopes ==
  document.kind = "file" /\ document.entry # None =>
    \A ls \in {Lexemes} : \A t \in {CharsOf(ls)}, code \in {MaskWith(CharsOf(ls), ClassesOf(ls))} :
      \/ \E i \in DOMAIN ls : Misnamed(ls[i]) \/ MisleadsDirective(ls[i]) \/ SharesLine(code, ls, i)
      \/ \A tokens \in {CollectTokens(t, ls)} :
           /\ tokens = UNION {WordTokens(ls, i) : i \in {j \in DOMAIN ls : ls[j].class = "code" /\ ls[j].role # None /\ ls[j].role[2] # "start"}}
           /\ \A sent \in {BuildFromTokens(tokens, Len(t))} : \A i \in 2..Len(sent) : sent[i - 1].at < sent[i].at
=============================================================================
