---------------------------- MODULE SolidityParser ----------------------------
(***************************************************************************)
(* What the server keeps of a parsed file: the source unit, which lists    *)
(* the declarations by their kinds, and the grammar's tree, unless a       *)
(* worker parsed the file.  The range of a declaration's name and the      *)
(* comment that documents it are looked for in the lines of the text.      *)
(*                                                                         *)
(* Of a document of kind "file" a piece is declarations (external: the     *)
(* author and the grammar), each [type, name, before, params, returns,     *)
(* body, bases, members, lines, flags]; before and body of lexemes, body   *)
(* None where there is none, a variable [type, name], and lines where each *)
(* member is on lines of its own.  A type is [form, path, of]: elementary, *)
(* the path of a user's type, or a mapping, an array or a function of      *)
(* other types.  Of kind "natspec" a piece is lines before a declaration,  *)
(* each [mark, closes, code, tag, name, text].                             *)
(***************************************************************************)
EXTENDS TextScans

CONSTANT Inside   \* <<name, word>> where the name is a proper part of the word

Content == FlattenSeq(document.content)
-----------------------------------------------------------------------------
(* The text of a declaration, in lexemes that have also the role the tree
   gives their place, of which declaration, and in which contract.  The node
   of a declaration or a variable starts at a lexeme without characters. *)
Role(l, role, d, c) == [class |-> l.class, chars |-> l.chars, role |-> role, of |-> d, in |-> c]
Roles(ls, role, d, c) == [i \in DOMAIN ls |-> Role(ls[i], role, d, c)]
Word(w, role, d, c) == Role(Code(w), role, d, c)
Plain(ws) == [i \in DOMAIN ws |-> Word(ws[i], None, None, None)]
Start(kind, d, c) == Role([class |-> "code", chars |-> <<>>], <<kind, "start">>, d, c)
Node(d, c) == Start("node", d, c)
Braced(ls) == Plain(<<"{">>) \o ls \o Plain(<<"}">>)

PathText(path, role, d, c) ==
  FlattenSeq([i \in DOMAIN path |-> IF i = 1 THEN <<Word(path[1], role, d, c)>> ELSE Plain(<<".", path[i]>>)])
RECURSIVE TypeText(_, _, _, _)
TypeText(t, list, d, c) ==
  CASE t.form = "elementary" -> Plain(<<"uint">>)
    [] t.form = "user" -> PathText(t.path, <<list, "type">>, d, c)
    [] OTHER -> Plain(<<t.form, "(">>) \o FlattenSeq([i \in DOMAIN t.of |-> TypeText(t.of[i], list, d, c)]) \o Plain(<<")">>)
VariableText(v, list, d, c) ==
  <<Start(list, d, c)>> \o TypeText(v.type, list, d, c) \o (IF v.name = None THEN <<>> ELSE <<Word(v.name, <<list, "name">>, d, c)>>)
ListText(vs, list, d, c, end) == FlattenSeq([i \in DOMAIN vs |-> VariableText(vs[i], list, d, c) \o Plain(<<end>>)])

NameText(d, c) == Roles(d.before, None, None, None) \o (IF d.name = None THEN <<>> ELSE <<Word(d.name, <<"node", "name">>, d, c)>>)
Header(d, c, keyword) == <<Node(d, c), Word(keyword, <<"node", "keyword">>, d, c)>> \o NameText(d, c)
BodyText(d, role, c) == IF d.body = None THEN Plain(<<";">>) ELSE Braced(Roles(d.body, role, d, c))
MemberText(d, c) ==
  CASE d.type = "function" -> Header(d, c, IF d.name = None THEN "constructor" ELSE "function")
                              \o ListText(d.params, "parameter", d, c, ",") \o ListText(d.returns, "return", d, c, ",")
                              \o BodyText(d, <<"body", "word">>, c)
    [] d.type = "modifier" -> Header(d, c, "modifier") \o ListText(d.params, "parameter", d, c, ",") \o BodyText(d, None, c)
    [] d.type \in {"event", "error"} -> Header(d, c, d.type) \o ListText(d.params, "parameter", d, c, ",") \o Plain(<<";">>)
    [] d.type = "struct"   -> Header(d, c, "struct") \o Braced(ListText(d.params, "member", d, c, ";"))
    [] d.type = "property" -> <<Node(d, c)>> \o ListText(d.params, "variable", d, c, ";")
    [] d.type = "constant" -> <<Node(d, c)>> \o TypeText(d.params[1].type, "constant", d, c) \o NameText(d, c) \o Plain(<<";">>)
    [] d.type = "using"    -> Header(d, c, "using") \o Roles(d.body, <<"using", "word">>, d, c) \o Plain(<<";">>)
    [] d.type = "pragma"   -> Header([d EXCEPT !.before = Plain(<<" ">>) \o @], c, "pragma") \o Plain(<<";">>)
    [] OTHER               -> Header(d, c, d.type) \o BodyText(d, None, c)
Ended(d) == IF d.lines THEN Plain(<<"nl">>) ELSE <<>>
DeclarationText(d) ==
  (IF d.type # "contract" THEN MemberText(d, None)
   ELSE Header(d, None, "contract")
        \o FlattenSeq([i \in DOMAIN d.bases |-> PathText(d.bases[i], <<"base", "type">>, d, None)])
        \o Braced(Ended(d) \o FlattenSeq([i \in DOMAIN d.members |-> MemberText(d.members[i], d) \o Ended(d)])))
  \o Plain(<<"nl">>)
Lexemes == FlattenSeq([i \in DOMAIN Content |-> DeclarationText(Content[i])])
-----------------------------------------------------------------------------
(* mapSourceUnit and mapContract.  Value types of a contract are not listed. *)
OfType(ds, type) == SelectSeq(ds, LAMBDA d : d.type = type)
MapContract(d) ==
  [name |-> d.name, kind |-> IF "interface" \in d.flags THEN "interface" ELSE "contract", node |-> d,
   baseContracts |-> d.bases, stateVariables |-> OfType(d.members, "property"), functions |-> OfType(d.members, "function"),
   modifiers |-> OfType(d.members, "modifier"), events |-> OfType(d.members, "event"), errors |-> OfType(d.members, "error"),
   structs |-> OfType(d.members, "struct"), enums |-> OfType(d.members, "enum"), usingFor |-> OfType(d.members, "using")]
MapSourceUnit(ds) ==
  [pragmas |-> OfType(ds, "pragma"), imports |-> OfType(ds, "import"),
   contracts |-> LET cs == OfType(ds, "contract") IN [i \in DOMAIN cs |-> MapContract(cs[i])],
   freeFunctions |-> OfType(ds, "function"), structs |-> OfType(ds, "struct"), enums |-> OfType(ds, "enum"),
   events |-> OfType(ds, "event"), errors |-> OfType(ds, "error"), fileConstants |-> OfType(ds, "constant"),
   userDefinedValueTypes |-> OfType(ds, "type"), usingFor |-> OfType(ds, "using")]
EmptySourceUnit == MapSourceUnit(<<>>)

(* A parse on the main thread keeps the tree; one that the grammar gives up
   keeps neither a tree nor a declaration.  What a worker answers is without
   the tree; if the pool fails, the main thread parses. *)
Parsable(ds) == OfType(ds, "unparsable") = <<>>
SourceUnit == IF Parsable(Content) THEN MapSourceUnit(Content) ELSE EmptySourceUnit
Parsed(ds) == [rawAst |-> Parsable(ds)]

Change(ds) ==
  /\ document.kind = "file" /\ Len(document.content) < MaxPieces["file"]
  /\ document' = [document EXCEPT !.content = Append(@, ds), !.entry = Parsed(Content \o ds)]
ParseAsync ==
  /\ document.kind = "file" /\ Content # <<>>
  /\ \E entry \in {[rawAst |-> FALSE], Parsed(Content)} : document' = [document EXCEPT !.entry = entry]
GetRawAst ==
  /\ document.entry # None /\ ~document.entry.rawAst
  /\ document' = [document EXCEPT !.entry = Parsed(Content)]
RemoveFile ==
  /\ document.entry # None
  /\ document' = [document EXCEPT !.entry = None]

ParserNext ==
  \/ document.kind # "file" /\ ScanNext
  \/ \E ds \in Pieces["file"] : Change(ds)
  \/ ParseAsync \/ GetRawAst \/ RemoveFile
-----------------------------------------------------------------------------
(* nameRange: where the name begins, as letters, on the line the node starts
   on; or else where the node starts. *)
Holds(word, name) == word = name \/ <<name, word>> \in Inside
NameRange(t, at, name) ==
  LET found == {i \in at..LineEnd(t, at) : Holds(t[i], name)}
  IN  IF found = {} THEN at ELSE Min(found)

(* Exceptions: the name is on another line, or letters of a keyword, a type or
   a comment before it read like it. *)
NamesAreInRange ==
  document.kind = "file" =>
    \A ls \in {Lexemes} : \A t \in {CharsOf(ls)} : \A i \in DOMAIN ls :
      ls[i].role # None /\ ls[i].role[2] = "name" /\ ls[i].of.type # "pragma" =>
        LET start == PlaceOf(ls, Max({j \in 1..i : ls[j].role = <<ls[i].role[1], "start">>}))
            at    == PlaceOf(ls, i)
        IN  \/ \E j \in start..(at - 1) : t[j] = "nl" \/ Holds(t[j], ls[i].chars[1])
            \/ NameRange(t, start, ls[i].chars[1]) = at
-----------------------------------------------------------------------------
(* extractNatspecBefore: from the last line that is not blank, a run of lines
   with three slashes, or the lines since the last that opens a block of
   documentation if that line ends a comment. *)
IsBlank(l) == l.mark = None /\ ~l.closes /\ ~l.code /\ l.tag = None /\ l.text = None
ExtractedLines(lines) ==
  LET last  == Max({0} \cup {i \in DOMAIN lines : ~IsBlank(lines[i])})
      opens == {i \in 1..last : lines[i].mark = "/**"}
      others == {0} \cup {i \in 1..last : lines[i].mark # "///"}
  IN  IF last = 0 THEN <<>>
      ELSE IF ~lines[last].closes THEN SubSeq(lines, Max(others) + 1, last)
      ELSE IF opens = {} THEN <<>> ELSE SubSeq(lines, Max(opens), last)

(* parseNatspecLines: a line with a tag starts its section anew, others are
   added to the section, if there is one. *)
With(spec, key, texts) == [k \in DOMAIN spec \cup {key} |-> IF k = key THEN texts ELSE spec[k]]
Added(s, l) ==
  IF s.section = None THEN s
  ELSE [s EXCEPT !.spec = With(@, s.section, IF s.section \in DOMAIN @ THEN Append(@[s.section], l.text) ELSE <<l.text>>)]
KeyOf(l) ==
  CASE l.tag \in {"title", "author", "notice", "dev"} -> <<l.tag>>
    [] l.tag \in {"param", "return"} -> <<l.tag, l.name>>
    [] l.tag = "custom" -> <<"custom", l.name>>
    [] OTHER -> <<"custom", l.tag>>
NoSection == {"title", "author", "inheritdoc"}
NatspecStep(s, l) ==
  CASE l.tag = None -> Added(s, l)
    [] l.tag = "custom" /\ l.name = None -> s
    [] OTHER -> [spec |-> With(s.spec, KeyOf(l), <<l.text>>), section |-> IF l.tag \in NoSection THEN None ELSE KeyOf(l)]
\* tidyMultiLine: without the empty lines at both ends.
Tidy(texts) ==
  LET said == {i \in DOMAIN texts : texts[i] # None} IN IF said = {} THEN <<>> ELSE SubSeq(texts, Min(said), Max(said))
ParseNatspecLines(lines) ==
  LET spec == FoldLeft(NatspecStep, [spec |-> <<>>, section |-> <<"notice">>], lines).spec
  IN  [k \in DOMAIN spec |-> Tidy(spec[k])]
ExtractNatspecBefore(lines) == ParseNatspecLines(ExtractedLines(lines))

(* The comment that ends where the declaration begins, if it is one of
   documentation; and what each tag has of it, up to the next one. *)
LastText(lines) == Max({0} \cup {i \in DOMAIN lines : ~IsBlank(lines[i])})
OpenedAt(lines) ==
  LET last  == LastText(lines)
      opens == {i \in 1..last : lines[i].mark \in {"/**", "/*"}}
      run   == {i \in 1..last : \A j \in i..last : lines[j].mark = "///"}
  IN  IF lines[last].closes THEN Max({0} \cup opens) ELSE Min(run \cup (IF run = {} THEN {0} ELSE {}))
SectionAt(raw, i) ==
  LET next == Min({j \in (i + 1)..Len(raw) : raw[j].tag # None} \cup {Len(raw) + 1})
  IN  Tidy([j \in 1..(next - i) |-> raw[i + j - 1].text])
Sections(raw) ==
  LET key(i) == IF raw[i].tag = None THEN <<"notice">> ELSE KeyOf(raw[i])
      starts == {i \in DOMAIN raw : i = 1 \/ raw[i].tag # None} \ {i \in DOMAIN raw : KeyOf(raw[i]) = <<"custom", None>> /\ raw[i].tag # None}
  IN  [k \in {key(i) : i \in starts} |-> SectionAt(raw, Max({i \in starts : key(i) = k}))]

(* Exceptions: a comment that is not documentation, or that follows code on its
   line, ends there, and the lines since an older block are taken; text goes on
   after a tag that is of one line, and is lost; a custom tag has no name, and
   what follows it is added to the section before. *)
NatspecIsOfTheDeclaration ==
  document.kind = "natspec" =>
    \A lines \in {Content} :
      IF LastText(lines) = 0 THEN ExtractNatspecBefore(lines) = <<>>
      ELSE \A from \in {OpenedAt(lines)} : \A raw \in {IF from = 0 THEN <<>> ELSE SubSeq(lines, from, LastText(lines))} :
        \/ lines[LastText(lines)].closes /\ (lines[LastText(lines)].code \/ lines[from].mark # "/**")
        \/ \E i \in 1..(Len(raw) - 1), j \in DOMAIN raw :
             /\ raw[i].tag \in NoSection \/ (raw[i].tag = "custom" /\ raw[i].name = None)
             /\ j > i /\ (raw[j].text # None \/ raw[i].tag = "custom") /\ \A k \in (i + 1)..j : raw[k].tag = None
        \/ ExtractNatspecBefore(lines) = IF from = 0 THEN <<>> ELSE Sections(raw)
=============================================================================
