------------------------------ MODULE MCLanguage ------------------------------
(***************************************************************************)
(* What the workbench makes of programs, texts and artefacts: the          *)
(* extraction of the project graph, which this module extends, the queries *)
(* on the graph and their page, the resolver of names, navigation, the     *)
(* linter's rules, imports, the debugger's frames, the decoding of the     *)
(* compiler's artefacts and the scans of texts.  They share no state but   *)
(* the trees; a behaviour moves one of these parts.                        *)
(***************************************************************************)
EXTENDS GraphExtraction, TLC

CONSTANT NoNode

(* A program of three files for the extraction: a.sol creates and calls a B,
   B of b.sol is a C, and c.sol has C, a library and a struct. *)
Plain(t)    == [target |-> t, alias |-> None, symbols |-> <<>>]
Name(n)     == [type |-> "id", name |-> n]
Dot(e, n)   == [type |-> "member", of |-> e, name |-> n]
Call(c, as) == [type |-> "call", callee |-> c, args |-> as]
One         == [type |-> "literal", of |-> "integerLiteral"]
Op(o, l, r) == [type |-> "binary", op |-> o, left |-> l, right |-> r]
Do(e)       == [type |-> "expression", of |-> e]
Block(s)    == [type |-> "block", of |-> s]
Fn(n, ps, rs, b) ==
  [name |-> n, kind |-> "function", params |-> ps, returns |-> rs, mods |-> {}, override |-> FALSE,
   names |-> [i \in DOMAIN ps |-> [name |-> "p", type |-> ps[i]]], locals |-> <<>>, body |-> b]
Var(n, t)   == [name |-> n, type |-> t, params |-> <<>>, public |-> TRUE, arity |-> 0]
Struct(n, field, t) == [name |-> n, params |-> <<>>, fields |-> <<[name |-> field, type |-> t]>>]
Contract(n, k, bs) ==
  [name |-> n, kind |-> k, bases |-> bs, members |-> {}, vars |-> <<>>, functions |-> <<>>, modifiers |-> <<>>,
   events |-> <<>>, errors |-> <<>>, structs |-> <<>>, enums |-> <<>>, usings |-> <<>>]
NoUnit ==
  [imports |-> <<>>, contracts |-> <<>>, decls |-> {}, structs |-> <<>>, enums |-> <<>>, udvts |-> <<>>,
   free |-> <<>>, events |-> <<>>, errors |-> <<>>, constants |-> <<>>, usings |-> <<>>]

ContractC(overloaded) ==
  [Contract("C", "contract", <<>>) EXCEPT
     !.vars = <<Var("x", "uint256")>>,
     !.functions = <<Fn("f", <<"uint256">>, <<"uint256">>, Block(<<Do(Name("x"))>>))>>
                   \o (IF overloaded THEN <<Fn("f", <<"bool">>, <<>>, None)>> ELSE <<>>),
     !.modifiers = <<[name |-> "m", kind |-> "modifier", params |-> <<>>, override |-> FALSE, names |-> <<>>,
                      locals |-> <<>>, body |-> Block(<<Do(Op("+=", Name("x"), One))>>)]>>,
     !.events = <<[name |-> "E", params |-> <<"uint256">>]>>,
     !.structs = <<Struct("T", "s", "S")>>]
LibraryL == [Contract("L", "library", <<>>) EXCEPT !.functions = <<Fn("g", <<"uint256">>, <<"uint256">>, None)>>]
ContractB ==
  [Contract("B", "contract", <<<<"C">>>>) EXCEPT
     !.usings = <<[library |-> <<"L">>, type |-> "uint256", functions |-> {}, aliases |-> <<>>, global |-> FALSE]>>,
     !.functions = <<[Fn("f", <<"uint256">>, <<"uint256">>,
                         Block(<<[type |-> "emit", call |-> Call(Name("E"), <<One>>)],
                                 Do(Call(Dot(Name("y"), "g"), <<>>)), Do(Call(Dot(Name("super"), "f"), <<One>>)),
                                 Do(Op("=", Name("x"), Name("p")))>>))
                       EXCEPT !.override = TRUE, !.mods = {"m"}]>>,
     !.vars = <<Var("y", "uint256")>>]
ContractA ==
  [Contract("A", "contract", <<>>) EXCEPT
     !.vars = <<Var("b", "B")>>,
     !.functions = <<Fn("h", <<"C">>, <<>>, Block(<<
        Do(Op("=", Name("b"), Call([type |-> "new", name |-> <<"B">>], <<>>))),
        Do(Call(Dot(Name("b"), "f"),
                <<[type |-> "conditional",
                   parts |-> <<Op("==", One, One), Call(Dot(Name("p"), "f"), <<One>>), One>>]>>))>>))>>]

ProgramUnits ==
  "a" :> {[NoUnit EXCEPT !.imports = <<Plain("b")>>, !.contracts = <<ContractA>>]}
  @@ "b" :> {[NoUnit EXCEPT !.imports = <<Plain("c")>>, !.contracts = <<ContractB>>], NoTree}
  @@ "c" :> {[NoUnit EXCEPT !.contracts = <<ContractC(o), LibraryL>>, !.decls = {"S"},
                            !.structs = <<Struct("S", "c", "C")>>] : o \in BOOLEAN}
ProgramTypeNames ==
  "uint256" :> {} @@ "bool" :> {} @@ "B" :> {<<"B">>} @@ "S" :> {<<"S">>} @@ "C" :> {<<"C">>}
NoElements == <<>>
DottedTypes == "M.B" :> <<"M", "B">>
-----------------------------------------------------------------------------
(* Graphs for the queries: A of f.sol may be a B of g.sol, which may be a
   Test; c is a free function.  g.sol is of the project or of its tests, and
   Test a dependency, of which there is nothing, the declarations or all. *)
GraphNode(uri, tier, kind, name, container) ==
  [uri |-> uri, tier |-> tier, kind |-> kind, name |-> name, container |-> container,
   forgeStd |-> uri = "t", publicGetter |-> FALSE]
ProjectNodes(tier) ==
  "F" :> GraphNode("f", "project", "file", "f", NoNode) @@ "A" :> GraphNode("f", "project", "contract", "A", NoNode)
  @@ "a" :> GraphNode("f", "project", "function", "a", "A")
  @@ "G" :> GraphNode("g", tier, "file", "g", NoNode) @@ "B" :> GraphNode("g", tier, "contract", "B", NoNode)
  @@ "b" :> GraphNode("g", tier, "function", "b", "B")
  @@ "H" :> GraphNode("h", "project", "file", "h", NoNode) @@ "c" :> GraphNode("h", "project", "function", "c", "H")
DependencyNodes ==
  "D" :> GraphNode("t", "deps", "file", "t", NoNode) @@ "T" :> GraphNode("t", "deps", "contract", "Test", NoNode)
  @@ "u" :> GraphNode("t", "deps", "function", "u", "T") @@ "v" :> GraphNode("t", "deps", "function", "v", "T")
GraphEdge(k, s, t) == [kind |-> k, source |-> s, target |-> t, baseLeaf |-> "", test |-> FALSE, unresolved |-> FALSE,
                       quality |-> IF k = "calls" THEN "solc" ELSE "parser"]
ContainedIn(table) == {GraphEdge("contains", p[1], p[2]) :
  p \in {<<"F", "A">>, <<"A", "a">>, <<"G", "B">>, <<"B", "b">>, <<"H", "c">>, <<"D", "T">>, <<"T", "u">>, <<"T", "v">>}
         \cap ((DOMAIN table) \X (DOMAIN table))}
IsB == GraphEdge("inherits", "A", "B")
IsT == GraphEdge("inherits", "B", "T")
IsTest == [GraphEdge("inherits", "B", "elsewhere") EXCEPT !.baseLeaf = "Test", !.test = TRUE]
Relationships == {GraphEdge("calls", "a", "b"), GraphEdge("calls", "b", "c"),
                  GraphEdge("calls", "c", "a"), GraphEdge("creates", "b", "A")}
OfDependencies == {GraphEdge("calls", "c", "u"), GraphEdge("calls", "u", "v")}
GraphOf(table, bases, related, mode) ==
  [nodes |-> table, declared |-> ContainedIn(table) \cup bases, related |-> related, dependencyIndexing |-> mode,
   order |-> <<"F", "A", "a", "G", "B", "b", "H", "c">> \o (IF "T" \in DOMAIN table THEN <<"D", "T", "u", "v">> ELSE <<>>)]
TestGraphs ==
  LET all == {GraphOf(ProjectNodes(t) @@ DependencyNodes, b, r \cup OfDependencies, m) :
                t \in {"project", "tests"}, b \in {{}, {IsB}, {IsB, IsT}, {IsB, IsTest}, {IsB, IsT, IsTest}},
                r \in {Relationships, Relationships \ {GraphEdge("calls", "b", "c")}}, m \in {"declarations", "relationships"}}
      few == {GraphOf(ProjectNodes(t), b, Relationships, "disabled") : t \in {"project", "tests"}, b \in {{IsB}, {IsB, IsTest}}}
      some == {g \in all : g.dependencyIndexing = "declarations" /\ Relationships \subseteq g.related}
  IN  few \cup all \cup {[g EXCEPT !.order = Reverse(@)] : g \in some}

TestScopes == [tests : {TRUE}, dependencies : {TRUE}] \cup [tests : {FALSE}, dependencies : BOOLEAN]
ARequest ==
  [method |-> "neighborhood", root |-> "a", to |-> "c", depth |-> 2, direction |-> "outgoing",
   kinds |-> {"calls", "creates", "inherits"}, maxNodes |-> 8, containers |-> TRUE,
   scope |-> [tests |-> TRUE, dependencies |-> TRUE], kind |-> "callers", targetKinds |-> {"function"},
   placed |-> FALSE,
   score |-> [n \in DOMAIN (ProjectNodes("tests") @@ DependencyNodes) |-> IF n \in {"a", "b"} THEN 5 ELSE IF n = "c" THEN 4 ELSE 0]]
TestRequests ==
  {[ARequest EXCEPT !.method = m, !.root = n, !.direction = d, !.scope = s] :
     m \in {"neighborhood", "path"}, n \in {"a", "A"}, d \in {"outgoing", "incoming", "both"}, s \in TestScopes}
  \cup {[ARequest EXCEPT !.method = m, !.root = "v", !.direction = d, !.placed = p] :
           m \in {"neighborhood", "path"}, d \in {"incoming", "both"}, p \in BOOLEAN}
  \cup {[ARequest EXCEPT !.method = "path", !.to = "v", !.depth = k, !.direction = d, !.scope = s] :
           k \in {3, 4}, d \in {"outgoing", "both"}, s \in TestScopes}
  \cup {[ARequest EXCEPT !.method = "query", !.root = NoNode, !.kind = q, !.depth = k, !.scope = s] :
          q \in {"callers", "callees"}, k \in {1, 2}, s \in TestScopes}
  \cup {[ARequest EXCEPT !.method = m, !.root = NoNode, !.maxNodes = k, !.scope = s, !.direction = "both"] :
          m \in {"graph", "search"}, k \in {2, 8}, s \in TestScopes}
  \cup {[ARequest EXCEPT !.maxNodes = 2], [ARequest EXCEPT !.method = "path", !.depth = 1]}
PageFilters ==
  LET plain == [scope |-> "neighbors", kind |-> "all", text |-> {}, quality |-> "all", limit |-> 8,
                kinds |-> {"calls", "creates", "inherits"}]
  IN  {plain, [plain EXCEPT !.kind = "contract"], [plain EXCEPT !.scope = "all", !.limit = 3],
       [plain EXCEPT !.scope = "callables", !.text = {"b"}], [plain EXCEPT !.quality = "solc"]}
-----------------------------------------------------------------------------
(* Trees for the resolver: a.sol may import b.sol, which may import c.sol, in
   the ways the language knows; each may have a C. *)
Ways(t) == {<<>>, <<Plain(t)>>, <<[Plain(t) EXCEPT !.alias = "M"]>>,
            <<[Plain(t) EXCEPT !.symbols = <<[name |-> "C", as |-> "C"]>>]>>,
            <<[Plain(t) EXCEPT !.symbols = <<[name |-> "C", as |-> "D"]>>]>>}
JustC(members) == [name |-> "C", bases |-> <<>>, members |-> members]
SmallTree(imports, contracts) == [imports |-> imports, contracts |-> contracts, decls |-> {}]
ManyTrees ==
  "a" :> {SmallTree(i, c) : i \in Ways("b") \cup {<<[Plain("c") EXCEPT !.symbols = <<[name |-> "C", as |-> "C"]>>], Plain("b")>>},
                            c \in {<<>>, <<JustC({"m"})>>}}
  @@ "b" :> {SmallTree(i, c) : i \in Ways("c"), c \in {<<>>, <<JustC({})>>}}
  @@ "c" :> {SmallTree(<<>>, <<JustC({"m"})>>)}
FewTrees ==
  "a" :> {SmallTree(<<Plain("b")>>, <<[JustC({}) EXCEPT !.name = "A", !.bases = <<<<"C">>>>]>>)}
  @@ "b" :> {SmallTree(i, <<>>) : i \in {<<>>, <<Plain("c")>>}}
  @@ "c" :> {SmallTree(<<>>, <<JustC({"m"})>>)}

(* Bodies for the linter: up to three statements that call, write, hide, emit
   or loop, and functions that have what one rule each looks for. *)
Tree(t, n, ks)   == [type |-> t, name |-> n, kids |-> ks]
Ident(n)         == Tree("id", n, <<>>)
Lit(n)           == Tree("literal", n, <<>>)
Calling(f, as)   == Tree("call", "", <<f>> \o as)
Stmt(e)          == Tree("expression", "", <<e>>)
Infix(o, l, r)   == Tree("binary", o, <<l, r>>)
Assign(v)        == Stmt(Infix("=", Ident(v), Lit("1")))
Increase(v)      == Stmt(Tree("unary", "++", <<Ident(v)>>))
Transfer         == Calling(Tree("options", "", <<Tree("member", "call", <<Ident("to")>>), Lit("1")>>), <<>>)
Declaring(v, t)  == [type |-> "declaration", name |-> "", kids |-> <<Lit("1")>>, vars |-> <<[name |-> v, type |-> t]>>]
BlockOf(ss)      == Tree("block", "", ss)
ZeroTest(v)      == Infix("!=", Ident(v), Calling(Ident("address"), <<Lit("0")>>))
Statements ==
  {Assign("x"), Stmt(Transfer), Declaring("x", "uint256"),
   Tree("if", "", <<Ident("y"), BlockOf(<<Stmt(Transfer), Assign("y")>>)>>),
   Tree("while", "", <<Ident("y"), BlockOf(<<Declaring("x", "uint256"), Increase("x"), Increase("y")>>)>>),
   Tree("for", "", <<Declaring("i", "uint256"), Ident("i"), Increase("i"), BlockOf(<<Increase("x"), Stmt(Transfer)>>)>>),
   Tree("emit", "", <<Calling(Ident("E"), <<>>)>>),
   Stmt(Infix("=", Tree("tuple", "", <<Ident("x"), Ident("y")>>), Tree("tuple", "", <<Lit("1"), Lit("1")>>)))}
Rarities ==
  {<<Stmt(Calling(Ident("selfdestruct"), <<Ident("to")>>))>>, <<Stmt(Infix("%", Tree("member", "timestamp", <<Ident("block")>>), Lit("2")))>>,
   <<Stmt(Infix("*", Tree("tuple", "", <<Infix("/", Ident("y"), Lit("2"))>>), Lit("2")))>>, <<Stmt(Infix("==", Ident("y"), Lit("true")))>>,
   <<Stmt(Infix("==", Tree("member", "balance", <<Ident("to")>>), Lit("1")))>>, <<Stmt(Calling(Ident("require"), <<ZeroTest("to")>>))>>,
   <<Stmt(Calling(Ident("_checkNonZero"), <<Ident("to")>>))>>,
   <<[Declaring("who", "address") EXCEPT !.kids = <<Calling(Ident("ecrecover"), <<>>)>>]>>,
   <<Stmt(Calling(Tree("member", "transfer", <<Ident("y")>>), <<>>)), Stmt(Calling(Tree("member", "delegatecall", <<Ident("to")>>), <<>>))>>}
FunctionOf(id, n, kind, ms, b) ==
  [id |-> id, name |-> n, kind |-> kind, mods |-> ms, visibility |-> "default", mutability |-> "",
   params |-> IF n = "g" THEN <<[name |-> "to", type |-> "address"]>> ELSE <<>>, returns |-> <<>>, body |-> b]
LintSource(fs, disabled) ==
  [pragmas |-> <<"solidity", "solidity">>, disabled |-> disabled,
   contracts |-> <<[name |-> "P", bases |-> {}, vars |-> <<[name |-> "to", type |-> "address", init |-> None, fixed |-> TRUE]>>,
                    functions |-> <<>>, usings |-> {}],
                   [name |-> "C", bases |-> {"P"}, functions |-> fs, usings |-> {},
                    vars |-> <<[name |-> "x", type |-> "uint256", init |-> Lit("1"), fixed |-> FALSE],
                               [name |-> "y", type |-> "IERC20", init |-> None, fixed |-> FALSE]>>]>>]
Constructor == FunctionOf("new", "", "constructor", {}, BlockOf(<<Assign("y")>>))
LintSources ==
  {LintSource(<<Constructor, FunctionOf("f", "f", "function", {}, BlockOf(b))>>, <<>>) : b \in UNION {[1..k -> Statements] : k \in 0..3}}
  \cup {LintSource(<<FunctionOf("f", "f", "function", ms, BlockOf(b)), FunctionOf("any", "", "fallback", {}, BlockOf(<<>>))>>, d) :
          ms \in {{}, {"nonReentrant"}}, b \in [1..2 -> Statements], d \in {<<>>, (<<"f">> :> {"missing-event"})}}
  \cup {LintSource(<<FunctionOf("g", "g", "function", {}, BlockOf(b)), FunctionOf("h", "", "receive", {}, None)>>, <<>>) : b \in Rarities}

(* Programs to navigate: a.sol imports b.sol in each of the ways, whose B is a
   C that c.sol declares and b.sol may not see. *)
NavFn(n, ps) == Fn(n, ps, <<>>, None) @@ ("private" :> FALSE)
NavUnit == [x \in DOMAIN NoUnit \cup {"uses"} |-> IF x = "uses" THEN {} ELSE NoUnit[x]]
Use(f, n, name, path, in, fn) ==
  [at |-> <<f, "", "use", name, <<n>>>>, name |-> name, path |-> path, in |-> in, fn |-> fn,
   on |-> "name", import |-> 0, doc |-> None, line |-> [starts |-> "code", of |-> "code", before |-> {}]]
Behind(mark, use) == [use EXCEPT !.line.before = {mark}]
Commented(starts, use) == [use EXCEPT !.on = "comment", !.line.of = "comment", !.line.starts = starts]
InDoc(n, starts, container, params, after) ==
  [Commented(starts, Use("a", n, "f", IF container = None THEN <<>> ELSE <<container>>, None, None)) EXCEPT
     !.on = "doc", !.doc = [container |-> container, params |-> params, after |-> after]]
NavA(i, base) ==
  [NavUnit EXCEPT
     !.imports = <<i>>,
     !.contracts = <<[Contract("A", "contract", <<base>>) EXCEPT !.vars = <<Var("y", Last(base)), Var("z", "M.B")>>,
                                                                 !.functions = <<NavFn("h", <<"C">>)>>,
                                                                 !.enums = <<[name |-> "E", params |-> <<>>, values |-> {"v"}]>>]>>,
     !.uses = {Use("a", "1", "B", <<>>, "A", None), Use("a", "2", "D", <<>>, "A", None),
               Use("a", "3", "f", <<"y">>, "A", "h"), Use("a", "4", "f", <<"p">>, "A", "h"),
               Behind("//", Use("a", "5", "f", <<>>, "A", "h")), [Use("a", "6", "y", <<>>, "A", "h") EXCEPT !.line.starts = "*"],
               Use("a", "7", "p", <<>>, "A", "h"), Use("a", "8", "C", <<>>, "A", "h"),
               Use("a", "9", "x", <<"this">>, "A", "h"), Use("a", "10", "B", <<"M">>, "A", "h"),
               Use("a", "11", "g", <<"p">>, "A", "h"), Use("a", "15", "z", <<>>, "A", "h"), Use("a", "16", "f", <<"z">>, "A", "h"),
               Use("a", "17", "v", <<"E">>, "A", "h"), Commented("code", Use("a", "18", "C", <<>>, "A", "h")),
               InDoc("12", "*", None, None, <<"a", "A", "function", "h", <<"C">>>>), InDoc("13", "code", "B", <<"uint256">>, None)}
              \cup (IF i.symbols = <<>> THEN {}
                    ELSE {[Use("a", "14", "B", <<>>, None, None) EXCEPT !.on = "symbol", !.import = 1]})]
NavB(imports) ==
  [NavUnit EXCEPT
     !.imports = imports,
     !.contracts = <<[Contract("B", "contract", <<<<"C">>>>) EXCEPT !.functions = <<NavFn("f", <<"uint256">>), NavFn("w", <<"C">>)>>]>>,
     !.uses = {Use("b", "1", "C", <<>>, "B", None), Behind("quote", Use("b", "3", "f", <<"p">>, "B", "w")), Use("b", "2", "s", <<"T">>, "B", "f"),
               Behind("//", Commented("code", Use("b", "4", "C", <<>>, "B", "f")))},
     !.usings = <<[library |-> <<"L">>, type |-> "C", functions |-> {}, aliases |-> <<>>, global |-> TRUE]>>]
NavC(kind) ==
  [NavUnit EXCEPT
     !.contracts = <<[Contract("C", kind, <<>>) EXCEPT
                        !.functions = <<NavFn("f", <<"uint256">>), NavFn("k", <<"S">>),
                                        [NavFn("q", <<>>) EXCEPT !.private = TRUE], NavFn("D", <<>>)>>,
                        !.vars = <<Var("x", "S")>>, !.structs = <<Struct("T", "s", "S")>>],
                     [Contract("L", "library", <<>>) EXCEPT !.functions = <<NavFn("g", <<"C">>), NavFn("f", <<"C">>), NavFn("t", <<"S">>)>>]>>,
     !.structs = <<Struct("S", "c", "C")>>, !.decls = {"S"},
     !.usings = <<[library |-> <<"L">>, type |-> "S", functions |-> {}, aliases |-> <<>>, global |-> FALSE]>>,
     !.uses = {Use("c", "1", "C", <<>>, None, None), Use("c", "2", "c", <<"p">>, "C", "k"),
               Behind("block", Use("c", "3", "f", <<"p", "c">>, "C", "k")), Use("c", "4", "t", <<"L">>, "C", "k")}]
NavAs ==
  {NavA(Plain("b"), <<"B">>), NavA([Plain("b") EXCEPT !.alias = "M"], <<"M", "B">>),
   NavA([Plain("b") EXCEPT !.symbols = <<[name |-> "B", as |-> "B"]>>], <<"B">>),
   NavA([Plain("b") EXCEPT !.symbols = <<[name |-> "B", as |-> "D"]>>], <<"D">>)}
NavPrograms ==
  {"a" :> a @@ "b" :> NavB(<<Plain("c")>>) @@ "c" :> NavC("interface") : a \in NavAs}
  \cup {"a" :> NavA(Plain("b"), <<"B">>) @@ "b" :> NavB(<<>>) @@ "c" :> NavC("contract")}

(* Functions to debug: f with a parameter, a return variable and two locals,
   g with one local. *)
DebugLocal(n, from, to) == [name |-> n, declared |-> from, end |-> to]
DebugFunctions ==
  "f" :> [start |-> 10, end |-> 20, params |-> 1, returns |-> 1, body |-> {12, 14, 15, 18},
          locals |-> <<DebugLocal("x", 12, 14), DebugLocal("y", 15, 17)>>]
  @@ "g" :> [start |-> 20, end |-> 30, params |-> 0, returns |-> 0, body |-> {22, 25},
             locals |-> <<DebugLocal("x", 22, 24)>>]

(* What the compiler writes: instructions without an operand, PUSH0 and PUSH2,
   of three sources, and data that looks like a PUSH; characters of one to four
   bytes and each end of a line; two variables; and braces with headers. *)
Sources == {<<0, 1, 0, "-", 0>>, <<0, 1, -1, "-", 0>>, <<4, 1, 0, "i", 1>>}
Char(bytes, units, end)   == [bytes |-> bytes, units |-> units, end |-> end]
Yul(t, name, from, after) == [type |-> t, name |-> name, before |-> from, after |-> after]
Written ==
  "code" :> ([op : {1}, push : {0}, source : Sources \cup {None}] \cup [op : {97}, push : {2}, source : Sources]
             \cup {[op |-> 95, push |-> 0, source |-> <<0, 1, 0, "-", 0>>], [op |-> 97, push |-> 0, source |-> None]})
  @@ "text" :> {Char(1, 1, None), Char(2, 1, None), Char(4, 2, None), Char(1, 1, "cr"), Char(1, 1, "lf")}
  @@ "layout" :> [label : {"x", "y"}, slot : {0, 1, 10, 16}, offset : {0}]
  @@ "yul" :> {Yul("skip", "", 1, 0), Yul("open", "", 0, 0), Yul("close", "", 0, 0), Yul("object", "A", 0, 1), Yul("function", "f", 1, 1)}

(* Folders to import from: S is inside R, each with a library of the same
   name; B and L are declared in both, T in the tests. *)
Root(ss) == <<"/", "r">> \o FlattenSeq([i \in DOMAIN ss |-> <<"/", ss[i]>>])
FileA == Root(<<"src", "A">>)
FileB == Root(<<"s", "src", "B">>)
OzInR == Root(<<"lib", "oz", "src", "L">>)
SpecOfR == Root(<<"spec", "U">>)
FolderConfig(t, libs, rs) == [src |-> <<"src">>, test |-> <<t>>, script |-> <<"script">>, libs |-> libs, remappings |-> rs]
Mapping(p, t) == [prefix |-> p, path |-> t]
LibDir == <<<<"lib">>>>
FolderConfigs ==
  Root(<<>>) :> {FolderConfig("test", LibDir, <<>>), FolderConfig("spec", LibDir, <<Mapping(<<"@oz", "/">>, <<"lib", "/", "oz", "/">>)>>),
                 FolderConfig("test", LibDir, <<Mapping(<<"oz", "/", "src", "/">>, <<"lib", "/", "oz", "/">>)>>)}
  @@ Root(<<"s">>) :> {FolderConfig("test", <<>>, <<>>),
                       FolderConfig("test", LibDir, <<Mapping(<<"oz", "/">>, <<"lib", "/", "oz", "/", "src">>)>>)}
Declarations ==
  FileA :> {"A"} @@ Root(<<"src", "B">>) :> {"B"} @@ Root(<<"test", "T">>) :> {"T"} @@ OzInR :> {"L"} @@ SpecOfR :> {"T"}
  @@ FileB :> {"B"} @@ Root(<<"s", "lib", "oz", "src", "L">>) :> {"L"} @@ Root(<<"lib", "oz", "M">>) :> {"M"}
TextLine(s, path, adds, names, open) == [starts |-> s, path |-> path, adds |-> adds, names |-> names, open |-> open]
UsesThem == TextLine("", <<>>, {}, {"L", "T", "B"}, FALSE)
ImportingTexts ==
  {[file |-> f, lines |-> <<TextLine("pragma", <<>>, {}, {}, FALSE), UsesThem>>] : f \in {FileA, FileB}}
  \cup {[file |-> FileA, lines |-> <<TextLine("import", <<>>, {}, {}, TRUE),
                                    TextLine("", <<".", "/", "B">>, {"B"}, {}, FALSE), UsesThem>>]}

(* Texts to scan: comments and strings that hold each other's marks; calls
   with delimiters in code, in strings and in comments; and files whose
   contract A is perhaps a B, with members and parameters that hide names. *)
Lexeme(class, cs) == [class |-> class, chars |-> cs]
CodeOf(c)    == Lexeme("code", <<c>>)
Comment(cs)  == Lexeme("comment", <<"/", "*">> \o cs \o <<"*", "/">>)
OneLine(cs)  == <<Lexeme("comment", <<"/", "/">> \o cs), CodeOf("nl")>>
Quoted(q, c) == Lexeme("string", <<q>> \o c \o <<q>>)
Spaced       == Lexeme("code", <<"a", " ">>)
Codes(cs)    == [i \in DOMAIN cs |-> CodeOf(cs[i])]
DeclarationOf(type, name) ==
  [type |-> type, name |-> name, before |-> <<>>, params |-> <<>>, returns |-> <<>>, body |-> None, bases |-> <<>>,
   members |-> <<>>, lines |-> TRUE, flags |-> {}]
Elementary   == [form |-> "elementary", path |-> <<>>, of |-> <<>>]
UserType(p)  == [Elementary EXCEPT !.form = "user", !.path = p]
TypedName(t, n) == [type |-> t, name |-> n]
UintName(n)  == TypedName(Elementary, n)
Writing(n, ps, b) == [DeclarationOf("function", n) EXCEPT !.params = ps, !.body = b]
Every        == Codes(<<"a", "b", "c", "S", "B", "C", "z", "q">>)
FreeA        == Writing("a", <<TypedName(UserType(<<"B", "S">>), "b")>>, Every)
UsingB(b)    == [DeclarationOf("using", None) EXCEPT !.body = b]
VariableOf(type, n, t, flags) == [DeclarationOf(type, n) EXCEPT !.params = <<TypedName(t, n)>>, !.flags = flags]
ContractOf(n, bs, lines, ms) == [DeclarationOf("contract", n) EXCEPT !.bases = bs, !.lines = lines, !.members = ms]
HidingA(bs, lines) ==
  ContractOf("A", bs, lines,
    <<[Writing("y", <<UintName("z"), UintName(None)>>, Every) EXCEPT !.returns = <<UintName("q"), UintName("z")>>, !.flags = {"override"}],
      [Writing("b", <<>>, <<CodeOf("{")>> \o Every \o <<CodeOf("}")>>) EXCEPT !.flags = {"virtual"}],
      [DeclarationOf("error", "S") EXCEPT !.params = <<UintName("a")>>], UsingB(Codes(<<"B", "for", "S">>))>>)
MembersOfB ==
  <<VariableOf("property", "a", [Elementary EXCEPT !.form = "mapping", !.of = <<UserType(<<"S">>), Elementary>>], {"readonly"}),
    DeclarationOf("event", "q"), [Writing("z", <<UintName("b")>>, Every) EXCEPT !.name = None],
    [DeclarationOf("modifier", "z") EXCEPT !.params = <<UintName("q")>>, !.body = Every], DeclarationOf("function", "S")>>
OtherPieces ==
  {[DeclarationOf("pragma", "solidity") EXCEPT !.before = b] : b \in {<<>>, <<Comment(<<"a">>)>>}}
  \cup {[DeclarationOf("import", None) EXCEPT !.body = <<Quoted("dq", <<"a">>)>>],
        VariableOf("constant", "c", UserType(<<"S">>), {}), [DeclarationOf("enum", "q") EXCEPT !.body = Codes(<<"a">>)],
        DeclarationOf("type", "z"), DeclarationOf("unparsable", None),
        [ContractOf("C", <<<<"S", "A">>>>, TRUE, <<DeclarationOf("type", "q"), Writing("on", <<>>, Every)>>) EXCEPT !.flags = {"interface"}]}

\* Lines of comments before a declaration, in runs, blocks and alone.
LineOf(mark, closes, tag, name, text) == [mark |-> mark, closes |-> closes, code |-> FALSE, tag |-> tag, name |-> name, text |-> text]
Slashes(tag, name, text) == <<LineOf("///", FALSE, tag, name, text)>>
DocBlock(mark, ls) == <<LineOf(mark, FALSE, None, None, None)>> \o ls \o <<LineOf(None, TRUE, None, None, None)>>
Inner(tag, name, text) == LineOf(None, FALSE, tag, name, text)
CodeLine == [LineOf(None, FALSE, None, None, "x") EXCEPT !.code = TRUE]
NatspecPieces ==
  {Slashes(None, None, None), Slashes(None, None, "t"), Slashes("notice", None, "u"), Slashes("param", "p", "v"), Slashes("param", "p", None),
   Slashes("title", None, "w"), Slashes("custom", None, "t"), Slashes("custom", "c", "t"), Slashes("inheritdoc", None, "I"), Slashes("other", None, "o"),
   <<LineOf(None, FALSE, None, None, None)>>, <<CodeLine>>, <<[CodeLine EXCEPT !.closes = TRUE]>>,
   DocBlock("/*", <<Inner("dev", None, "t")>>), <<LineOf("/**", TRUE, "return", None, "t")>>, DocBlock("/**", <<>>),
   DocBlock("/**", <<Inner("dev", None, "t"), Inner(None, None, None), Inner(None, None, "u"), Inner("return", "p", "t")>>)}
FilePieces ==
  {FreeA, [FreeA EXCEPT !.before = <<Comment(<<"a">>)>>],
   [Writing("b", <<>>, Every \o <<Quoted("dq", <<"a", "}">>)>> \o OneLine(<<"{", "a">>) \o <<CodeOf("a")>>)
      EXCEPT !.before = <<Comment(<<"{">>)>>],
   [DeclarationOf("struct", "S") EXCEPT !.params = <<UintName("a"), TypedName(UserType(<<"S">>), "b")>>],
   ContractOf("B", <<>>, TRUE, MembersOfB),
   HidingA(<<<<"B">>>>, TRUE), HidingA(<<>>, TRUE), HidingA(<<<<"A">>, <<"B">>>>, FALSE),
   UsingB(Codes(<<"B", "for", "S", "global">>)), UsingB(<<CodeOf("B"), Comment(<<"for">>)>> \o Codes(<<"nl", "for", "S">>))}
  \cup OtherPieces
TextPieces ==
  "scan" :> ({<<Spaced>>, <<CodeOf("nl")>>, OneLine(<<"dq">>), OneLine(<<"/", "*">>), <<Comment(<<"sq", "/", "/", "nl">>)>>, <<Comment(<<"/", "a">>)>>}
             \cup {<<Quoted("dq", c)>> : c \in {<<"/", "/", "sq", "a">>, <<"esc", "dq">>}} \cup {<<Quoted("sq", c)>> : c \in {<<"/", "*">>, <<"esc", "esc">>}}
             \cup {<<[class |-> "string", chars |-> <<"dq", "sq", "esc">>], CodeOf("nl")>>})
  @@ "call" :> ({<<CodeOf(c)>> : c \in {",", "(", ")", "]"}} \cup {Codes(<<"[", "a", ",">>), Codes(<<"b", ".", "a", "(">>)}
                \cup {<<l>> : l \in {Spaced, Quoted("dq", <<",">>), Quoted("dq", <<"a">>), Comment(<<"a">>), Comment(<<")">>)}})
  @@ "file" :> ({<<d>> : d \in FilePieces}
                \cup {<<ContractOf("B", <<>>, TRUE, MembersOfB), HidingA(bs, TRUE)>> : bs \in {<<<<"B">>>>}})
  @@ "natspec" :> NatspecPieces

VARIABLES part, question, answer, origin, graph, relationships, request, response, shown, cache, listed, reloading, events

Queries  == INSTANCE GraphQueries WITH
              Filters <- PageFilters, DefaultEdges <- {"calls", "creates", "inherits"},
              Graphs <- TestGraphs, Requests <- TestRequests, Indexed <- {{}, {"g", "t"}}
Programs == INSTANCE SemanticResolver WITH
              Trees <- ManyTrees, Swept <- {}, Names <- {<<"C">>, <<"D">>, <<"M", "C">>}, MaxEvents <- 0, MaxVisits <- 8
Sessions == INSTANCE SemanticResolver WITH
              Trees <- FewTrees, Swept <- {"c"}, Names <- {<<"C">>}, MaxEvents <- 1, MaxVisits <- 8

Rules    == INSTANCE Linter WITH
              Sources <- LintSources, NoBody <- None, Guards <- {"nonReentrant"}, Erc20Types <- {"IERC20"},
              SafeLibraries <- {"SafeERC20"}, AssignmentOperators <- Assignments,
              ExternalMembers <- {"call", "delegatecall"}, VolatileMembers <- {"timestamp"},
              source <- question, diagnostics <- answer

Editor   == INSTANCE Navigation WITH
              Workspaces <- NavPrograms, Tier <- ("a" :> "project" @@ "b" :> "tests" @@ "c" :> "deps"), Lib <- {"c"},
              cursor <- question, from <- origin

Debugger == INSTANCE DebugFrames WITH
              Functions <- DebugFunctions, MaxSteps <- 7, MaxCalls <- 2,
              evm <- question, trace <- answer, cursor <- origin

Compiler == INSTANCE Artifacts WITH
              Elements <- Written, document <- question,
              MaxElements <- ("code" :> 4 @@ "text" :> 5 @@ "layout" :> 2 @@ "yul" :> 7)

Workspace == INSTANCE Imports WITH
              Folders <- DOMAIN FolderConfigs, Configs <- FolderConfigs,
              Disks <- {DOMAIN Declarations \ {SpecOfR, Root(<<"lib", "oz", "M">>)}},
              Written <- {SpecOfR, Root(<<"lib", "oz", "M">>)}, Declares <- Declarations, TestNames <- {"U"},
              Documents <- ImportingTexts, MaxLines <- 4,
              disk <- question, roots <- answer, document <- origin

Texts == INSTANCE SemanticTokens WITH
              Pieces <- TextPieces, MaxPieces <- ("scan" :> 4 @@ "call" :> 4 @@ "file" :> 2 @@ "natspec" :> 3), document <- question,
              Inside <- {<<"on", "function">>, <<"z", "uint">>}

pureVars     == <<question, answer, origin>>
queryVars    == <<graph, relationships, request, response, shown>>
resolverVars == <<cache, listed, reloading, events>>
graphVars    == <<nodes, edges, stale, unrelated, changes>>

NoQuestion == question = None /\ answer = None /\ origin = None
NoQuery    == graph = NoNode /\ relationships = <<>> /\ request = NoNode /\ response = NoNode /\ shown = NoNode
NoResolver == cache = Programs!Nowhere /\ listed = {} /\ reloading = FALSE /\ events = 0
NoGraph    == nodes = {} /\ edges = {} /\ stale = <<>> /\ unrelated = {} /\ changes = 0
NoTrees    == trees = [f \in Files |-> NoTree]

LanguageInit ==
  \/ part = "extraction" /\ Init /\ NoQuery /\ NoResolver /\ NoQuestion
  \/ part = "queries" /\ Queries!Init /\ NoTrees /\ NoGraph /\ NoResolver /\ NoQuestion
  \/ part = "programs" /\ Programs!Init /\ listed = {} /\ NoGraph /\ NoQuery /\ NoQuestion
  \/ part = "sessions" /\ Sessions!Init /\ NoGraph /\ NoQuery /\ NoQuestion
  \/ part = "rules" /\ Rules!Init /\ origin = None /\ NoTrees /\ NoGraph /\ NoQuery /\ NoResolver
  \/ part = "navigation" /\ Editor!NavigationInit /\ NoGraph /\ NoQuery /\ NoResolver
  \/ part = "debugger" /\ Debugger!DebugInit /\ NoTrees /\ NoGraph /\ NoQuery /\ NoResolver
  \/ part = "imports" /\ Workspace!ImportsInit /\ NoTrees /\ NoGraph /\ NoQuery /\ NoResolver
  \/ /\ part = "compiler" /\ Compiler!ArtifactsInit /\ answer = None /\ origin = None
     /\ NoTrees /\ NoGraph /\ NoQuery /\ NoResolver
  \/ /\ part = "texts" /\ Texts!ScanInit /\ answer = None /\ origin = None
     /\ NoTrees /\ NoGraph /\ NoQuery /\ NoResolver

LanguageNext ==
  \/ part = "extraction" /\ Next /\ UNCHANGED <<part, queryVars, resolverVars, pureVars>>
  \/ part = "queries" /\ Queries!Next /\ UNCHANGED <<part, trees, graphVars, resolverVars, pureVars>>
  \/ part = "sessions" /\ Sessions!Next /\ UNCHANGED <<part, graphVars, queryVars, pureVars>>
  \/ part = "rules" /\ Rules!Next /\ UNCHANGED <<part, origin, trees, graphVars, queryVars, resolverVars>>
  \/ part = "navigation" /\ Editor!CompletionNext /\ UNCHANGED <<part, graphVars, queryVars, resolverVars>>
  \/ part = "debugger" /\ Debugger!DebugNext /\ UNCHANGED <<part, trees, graphVars, queryVars, resolverVars>>
  \/ part = "imports" /\ Workspace!ImportsNext /\ UNCHANGED <<part, trees, graphVars, queryVars, resolverVars>>
  \/ /\ part = "compiler" /\ Compiler!ArtifactsNext
     /\ UNCHANGED <<part, answer, origin, trees, graphVars, queryVars, resolverVars>>
  \/ /\ part = "texts" /\ Texts!ParserNext
     /\ UNCHANGED <<part, answer, origin, trees, graphVars, queryVars, resolverVars>>

LanguageSpec == LanguageInit /\ [][LanguageNext]_<<part, trees, graphVars, queryVars, resolverVars, pureVars>>
-----------------------------------------------------------------------------
\* The graph, updated file by file, is the graph of the program (GraphIndex.updateFileAndDependents).
ExtractionIsOfTheProgram == part = "extraction" => GraphIsOfTheProgram

\* Answers are what the graph and the filters say, on the server and on the page (queryProjectGraph, visibleNodeState).
AnswersFitTheGraph == part = "queries" => (shown = NoNode => Queries!AnswersFitTheGraph) /\ Queries!PageFitsTheAnswer

\* Names are resolved as Solidity does, and what a cache misses is only what it was not told of (SemanticResolver).
ResolvesAsSolidity == /\ part = "programs" => Programs!ResolvesAsSolidity
                      /\ part = "sessions" => Sessions!StaleIsIncomplete


\* Definition, references, implementations, hierarchies and completion agree with one another (their providers).
NavigationAgrees == part = "navigation" => Editor!NavigationAgrees /\ Editor!CompletionsLeadHome

\* A hint of the linter is about what running the body does (SolidityLinter.lint).
HintsFitTheRuns == part = "rules" => Rules!HintsFitTheRuns

\* The debugger's frames and variables are those of the run (buildCallStack, handleScopes).
FramesFitTheRun == part = "debugger" => Debugger!FramesFitTheRun

\* What is decoded of the compiler's artefacts is what was encoded (parseSourceMap, LineIndex, parseYulOutline).
DecodesWhatWasEncoded == part = "compiler" => Compiler!DecodesWhatWasEncoded

\* Scans find the code, calls are read, names have their range, comment and colour (findCommentRanges, parseArgumentList,
\* nameRange, extractNatspecBefore, collectTokens).
TextsAreReadAsSolidity ==
  part = "texts" =>
    /\ Texts!ScansFindTheCode /\ Texts!CallsAreRead /\ Texts!ColoursFitTheScopes
    /\ Texts!NamesAreInRange /\ Texts!NatspecIsOfTheDeclaration

\* An import that is written for a file reaches that file (computeImportPath, resolveImport).
ImportsReachTheirFile == part = "imports" => Workspace!ImportsReachTheirFile
=============================================================================
