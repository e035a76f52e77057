------------------------- MODULE GraphExtraction -------------------------
(***************************************************************************)
(* The nodes and the edges that the project graph takes from a syntax      *)
(* tree: the declarations when a file is updated, the relationships when   *)
(* it is related.  An update drops what touches the file and declares it   *)
(* again, and after it every file that imports it, at any depth; their     *)
(* relationships are queued.                                               *)
(***************************************************************************)
EXTENDS CallResolution

CONSTANTS
  Units,       \* Units[f]: the trees that f may get
  TypeNames,   \* TypeNames[t]: the names in a type that are no builtin types
  Assignments, Updates,   \* assignment operators, those that also read
  MaxChanges

VARIABLES
  nodes, edges,
  stale,       \* files to be declared again, in order, before anything else
  unrelated,   \* the files whose relationships are queued
  changes

vars == <<trees, nodes, edges, stale, unrelated, changes>>

Empty == [nodes |-> {}, edges |-> {}]
WithNode(g, n) == [g EXCEPT !.nodes = @ \cup {n}]
WithEdges(g, E) == [g EXCEPT !.edges = @ \cup E]
Edge(source, kind, target) == <<source, kind, target>>
-----------------------------------------------------------------------------
(* addUsesTypeEdges: only to nodes that are there by now. *)
TypeEdges(g, source, f, types) ==
  LET names == UNION {TypeNames[types[i]] : i \in DOMAIN types}
      targets == {TypeTarget(n, f) : n \in names}
  IN  {Edge(source, "usesType", t) : t \in (targets \cap g.nodes) \ {source}}

(* A declaration: its node, that its parent contains it, its types. *)
Declare(g, f, parent, node, types) ==
  LET h == WithEdges(WithNode(g, node), {Edge(parent, "contains", node)})
  IN  WithEdges(h, TypeEdges(h, node, f, types))

\* Declarations of one kind, with the types that they name.
Items(kind, s, TypesOf(_)) == [i \in DOMAIN s |-> [kind |-> kind, d |-> s[i], types |-> TypesOf(s[i])]]
VarTypes(d)    == <<d.type>>
FieldTypes(d)  == [i \in DOMAIN d.fields |-> d.fields[i].type]
Parameters(d)  == d.params
Signature(d)   == d.params \o d.returns
NoTypes(d)     == <<>>
FunctionItems(s)  == [i \in DOMAIN s |-> [kind |-> s[i].kind, d |-> s[i], types |-> Signature(s[i])]]

DeclareAll(g, f, container, items) ==
  LET parent == IF container = "" THEN <<f>> ELSE <<f, container>>
  IN  FoldLeft(LAMBDA h, x : Declare(h, f, parent, MemberId(f, container, x.kind, x.d), x.types), g, items)

(* indexFunction: the modifiers it names are looked up along the bases; their
   nodes need not be there. *)
ModifierEdges(f, c, fn) ==
  LET self == Resolve(<<c.name>>, f)
      used == IF self = None THEN {} ELSE {FindMember(self, m) : m \in fn.mods} \ {None}
  IN  {Edge(MemberId(f, c.name, fn.kind, fn), "usesModifier", <<m[1], m[2], "modifier", m[4], m[5]>>) : m \in used}

\* indexContractHeader: the contract, and its bases, known or not.
DeclareHeader(g, f, c) ==
  LET base(b) == IF Resolve(b, f) = None THEN <<"external", b>> ELSE Resolver!Id(Resolve(b, f))
  IN  WithEdges(WithNode(g, <<f, c.name>>),
                {Edge(<<f>>, "contains", <<f, c.name>>)}
                  \cup {Edge(<<f, c.name>>, "inherits", base(b)) : b \in ToSet(c.bases)})

\* indexContractMemberDeclarations.
DeclareMembers(g, f, c) ==
  LET items == Items("stateVariable", c.vars, VarTypes) \o FunctionItems(c.functions)
               \o Items("modifier", c.modifiers, Parameters) \o Items("event", c.events, Parameters)
               \o Items("error", c.errors, Parameters) \o Items("struct", c.structs, FieldTypes)
               \o Items("enum", c.enums, NoTypes)
  IN  WithEdges(DeclareAll(g, f, c.name, items), UNION {ModifierEdges(f, c, fn) : fn \in ToSet(c.functions)})

UsingEdges(g, source, f, usings) ==
  LET library(u) == IF u.library = None THEN {} ELSE {TypeTarget(u.library, f)}
      of(u) == {Edge(source, "usesType", t) : t \in (library(u) \cap g.nodes) \ {source}}
               \cup (IF u.type = None THEN {} ELSE TypeEdges(g, source, f, <<u.type>>))
  IN  UNION {of(u) : u \in ToSet(usings)}
WithUsings(g, source, f, usings) == WithEdges(g, UsingEdges(g, source, f, usings))

(* Mutant of Declared: members are declared with their contract. *)
MembersAtOnce(g, f) ==
  FoldLeft(LAMBDA h, c : DeclareMembers(DeclareHeader(h, f, c), f, c), WithNode(g, <<f>>), Unit(f).contracts)

(* updateFile, the declarations, in the order of their kinds.  Import edges
   go to files, known or not. *)
Declared(g, f) ==
  LET u == Unit(f)
      imports == {Edge(<<f>>, "imports", <<i.target>>) : i \in {j \in ToSet(u.imports) : j.target # None}}
      items == Items("struct", u.structs, FieldTypes) \o Items("enum", u.enums, NoTypes)
               \o Items("userDefinedValueType", u.udvts, NoTypes) \o FunctionItems(u.free)
               \o Items("event", u.events, Parameters) \o Items("error", u.errors, Parameters)
               \o Items("fileConstant", u.constants, VarTypes)
      own == DeclareAll(WithEdges(WithNode(g, <<f>>), imports), f, "", items)
      heads(h) == FoldLeft(LAMBDA k, c : DeclareHeader(k, f, c), h, u.contracts)
  IN  FoldLeft(LAMBDA h, c : DeclareMembers(h, f, c), heads(WithUsings(own, <<f>>, f, u.usings)), u.contracts)

\* The file of a node; what is outside the graph has none.
FileOf(n) == n[1]

\* clearFileForUpdate: the nodes of the file, and every edge at one of them.
Cleared(g, f) ==
  LET gone == {n \in g.nodes : FileOf(n) = f}
  IN  [nodes |-> g.nodes \ gone, edges |-> {e \in g.edges : e[1] \notin gone /\ e[3] \notin gone}]

UpdateFile(g, f) == IF trees[f] = NoTree THEN Cleared(g, f) ELSE Declared(Cleared(g, f), f)
-----------------------------------------------------------------------------
(* indexOverrideEdges: every function of a base with the same name and the
   same parameters that an override may stand for. *)
OverrideEdges(f, c) ==
  LET self  == Resolve(<<c.name>>, f)
      bases == IF self = None THEN <<>> ELSE Tail(Chain(self))
      kind(b) == IF Body(b).kind = "interface" THEN "implements" ELSE "overrides"
      same(d, s) == SelectSeq(s, LAMBDA x : x.name = d.name /\ x.params = d.params)
      of(k, d, s(_)) == {Edge(MemberId(f, c.name, k, d), kind(b), MemberId(b.file, b.name, k, Head(same(d, s(b))))) :
                            b \in {x \in ToSet(bases) : same(d, s(x)) # <<>>}}
  IN  UNION {of("function", d, LAMBDA b : Body(b).functions) :
                d \in {x \in ToSet(c.functions) : x.override /\ x.kind = "function"}}
      \cup UNION {of("modifier", d, LAMBDA b : Body(b).modifiers) : d \in {x \in ToSet(c.modifiers) : x.override}}

(* indexRawFunctionCall, with delegatecall and the low-level calls.  A call
   through a receiver of what a contract, and no library, has is external. *)
IsExternal(target, leaf) ==
  /\ leaf \notin {None, "this", "super"} /\ target[2] # ""
  /\ Head(Named(Unit(target[1]).contracts, target[2])).kind # "library"

TargetEdges(g, node, target, leaf) ==
  IF target = None \/ target \notin g.nodes THEN {}
  ELSE {Edge(node, kind, target) : kind \in {"calls"} \cup IF IsExternal(target, leaf) THEN {"externalCall"} ELSE {}}

CalleeEdges(g, env, callee, types) ==
  LET leaf == IF callee.path = <<>> THEN None ELSE Last(callee.path)
      receivers == {Resolve(ReceiverType(env, p), env.file) : p \in {callee.path} \ {<<>>}} \ {None}
      lowlevel == callee.name \in {"call", "staticcall"} /\ \A r \in receivers : ResolveMember(r, callee.name, types) \notin g.nodes
      to == AnyOf(Prefer({Resolver!Id(r) : r \in receivers} \cap g.nodes, {env.node}))
  IN  IF callee = None THEN {}
      ELSE IF callee.name = "delegatecall" THEN {Edge(env.node, "delegateCall", to)}
      ELSE IF lowlevel THEN {Edge(env.node, "externalCall", env.node)}
      ELSE IF callee.name \in Keywords \cup BuiltinTypes THEN {}
      ELSE TargetEdges(g, env.node, CallTarget(env, callee, types), leaf)

CallEdges(g, env, call) == CalleeEdges(g, env, Callee(call.callee), ArgumentTypes(env, call.args))

\* indexRawContractCreation.
CreationEdges(g, env, call) ==
  IF call.callee.type # "new" THEN {}
  ELSE LET c == Resolve(call.callee.name, env.file)
       IN  {Edge(env.node, "creates", n) : n \in {Resolver!Id(d) : d \in {c} \ {None}} \cap g.nodes}

\* indexRawUsingForOperatorCall.
OperatorEdges(g, env, e) ==
  LET receiver == TypeText(ReceiverType(env, PathOf(e.left)))
  IN  IF PathOf(e.left) = <<>> \/ receiver = None THEN {}
      ELSE {Edge(env.node, "calls", t) :
              t \in {UsingFor(env.file, env.contract, receiver, e.op, ArgumentTypes(env, <<e.right>>))} \cap g.nodes}

(* indexRawStateIdentifier: the nearest variable of the name along the bases,
   unless a parameter or any local of the body has it. *)
StateEdges(g, env, name, access) ==
  LET found == SelectSeq(env.state, LAMBDA v : v[4] = name /\ v \in g.nodes)
  IN  IF found = <<>> \/ name \in env.shadows THEN {}
      ELSE {Edge(env.node, IF access = "read" THEN "reads" ELSE "writes", Head(found))}
           \cup (IF access = "update" THEN {Edge(env.node, "reads", Head(found))} ELSE {})

(* indexRawEmit and indexRawRevert: a member along the bases, else a
   file-level one. *)
RaisedEdges(g, env, kind, callee, types) ==
  LET path   == IF callee.path = <<>> THEN <<callee.name>> ELSE <<Last(callee.path), callee.name>>
      member == IF env.contract = None \/ Len(path) = 2 THEN None
                ELSE FindMember(Resolve(<<env.contract.name>>, env.file), callee.name)
      own    == {m \in {member} \cap g.nodes : m[3] = kind}
      targets == Prefer(own, {FileLevel(env.file, path, kind, types)} \cap g.nodes)
  IN  {Edge(env.node, IF kind = "event" THEN "emits" ELSE "revertsWith", t) : t \in targets}

RaiseEdges(g, env, s) ==
  RaisedEdges(g, env, IF s.type = "emit" THEN "event" ELSE "error", Callee(s.call.callee), ArgumentTypes(env, s.call.args))
-----------------------------------------------------------------------------
RECURSIVE ExpressionEdges(_, _, _, _), StatementEdges(_, _, _)

Reads(s) == [i \in DOMAIN s |-> <<s[i], "read">>]

\* How the operand of an operator is accessed.
Access(e) ==
  CASE e.type = "binary" -> IF e.op \in Updates THEN "update" ELSE IF e.op \in Assignments THEN "write" ELSE "read"
    [] e.type = "unary"  -> IF e.op \in {"++", "--"} THEN "update" ELSE IF e.op = "delete" THEN "write" ELSE "read"

(* visitExpression, the parts that are visited and how.  Only what is assigned,
   and what it is a part of, is written.  The parts of a tuple, which a
   parenthesis is, are not visited. *)
PartsOf(e, access) ==
  CASE e.type = "call"   -> Reads(IF e.callee.type = "member" THEN Append(e.args, e.callee.of) ELSE e.args)
    [] e.type = "binary" -> <<<<e.left, Access(e)>>, <<e.right, "read">>>>
    [] e.type = "unary"  -> <<<<e.of, Access(e)>>>>
    [] e.type = "member" -> <<<<e.of, access>>>>
    [] e.type = "index"  -> <<<<e.of, access>>, <<e.at, "read">>>>
    [] e.type = "conditional" -> Reads(e.parts)
    [] OTHER -> <<>>

OwnEdges(g, env, e, access) ==
  CASE e.type = "call"   -> CreationEdges(g, env, e) \cup CallEdges(g, env, e)
    [] e.type = "binary" -> OperatorEdges(g, env, e)
    [] e.type = "id"     -> StateEdges(g, env, e.name, access)
    [] OTHER             -> {}

ExpressionEdges(g, env, e, access) ==
  OwnEdges(g, env, e, access) \cup UNION {ExpressionEdges(g, env, x[1], x[2]) : x \in ToSet(PartsOf(e, access))}

(* visitStatement.  Of other statements the expression, the condition and the
   body are visited, but not the head of a for, a catch, or an unchecked
   block. *)
ExpressionsOf(s) ==
  CASE s.type \in {"emit", "revert"}  -> s.call.args
    [] s.type \in {"expression", "try"} -> <<s.of>>
    [] s.type \in {"if", "while"}     -> <<s.condition>>
    [] s.type = "declaration"         -> <<s.value>>
    [] OTHER -> <<>>
StatementsOf(s) ==
  CASE s.type = "if"    -> s.branches
    [] s.type = "block" -> s.of
    [] s.type \in {"while", "for", "try"} -> s.body
    [] OTHER -> <<>>

StatementEdges(g, env, s) ==
  (IF s.type \in {"emit", "revert"} THEN RaiseEdges(g, env, s) ELSE {})
  \cup UNION {ExpressionEdges(g, env, e, "read") : e \in ToSet(ExpressionsOf(s))}
  \cup UNION {StatementEdges(g, env, x) : x \in ToSet(StatementsOf(s))}

(* indexRawCallableBodyEdges. *)
BodyEdges(g, f, contract, d) ==
  LET container == IF contract = None THEN "" ELSE contract.name
      held(e) == [i \in DOMAIN Body(e).vars |-> MemberId(e.file, e.name, "stateVariable", Body(e).vars[i])]
      state == IF contract = None \/ Resolve(<<container>>, f) = None THEN <<>>
               ELSE FoldLeft(LAMBDA s, e : s \o held(e), <<>>, Chain(Resolve(<<container>>, f)))
      env == [file |-> f, contract |-> contract, fn |-> d, node |-> MemberId(f, container, d.kind, d),
              state |-> state, shadows |-> {n.name : n \in ToSet(d.names \o d.locals)}]
  IN  IF d.body = None THEN {} ELSE StatementEdges(g, env, d.body)

WithMembers(g, f, c) ==
  WithEdges(DeclareMembers(WithUsings(g, <<f, c.name>>, f, c.usings), f, c), OverrideEdges(f, c))
Bodies(f, c) == IF c = None THEN Unit(f).free ELSE c.functions \o c.modifiers
WithBodies(g, f, c) == WithEdges(g, UNION {BodyEdges(g, f, c, d) : d \in ToSet(Bodies(f, c))})

(* indexFileRelationships: bodies of the file's functions, here those of no
   contract; and of each contract its directives, its members once more, its
   overrides and its bodies. *)
Related(g, f) ==
  IF trees[f] = NoTree THEN g
  ELSE FoldLeft(LAMBDA h, c : WithBodies(IF c = None THEN h ELSE WithMembers(h, f, c), f, c), g,
                <<None>> \o Unit(f).contracts)
-----------------------------------------------------------------------------
Graph == [nodes |-> nodes, edges |-> edges]
StartsAs(g) == nodes = g.nodes /\ edges = g.edges
Becomes(g) == nodes' = g.nodes /\ edges' = g.edges

\* collectImportDependents, in the order they are found; here by distance.
Dependents(E, f) ==
  LET importers(S) == {e[1][1] : e \in {x \in E : x[2] = "imports" /\ x[3][1] \in S}}
      ring[k \in 0..Cardinality(Files)] ==
        IF k = 0 THEN {f} ELSE importers(ring[k - 1]) \ UNION {ring[j] : j \in 0..k - 1}
  IN  FoldLeft(LAMBDA s, k : s \o SetToSeq(ring[k]), <<>>, [k \in 1..Cardinality(Files) |-> k])

Init ==
  /\ trees \in {T \in [Files -> UNION {Units[f] : f \in Files}] : \A f \in Files : T[f] \in Units[f]}
  /\ \E order \in SetToSeqs(Files) :
       StartsAs(FoldLeft(LAMBDA h, f : UpdateFile(h, f), Empty, order))
  /\ unrelated = Files /\ stale = <<>> /\ changes = 0

(* updateFileAndDependents, after an edit, or after a deletion; the files are
   updated with nothing in between. *)
Change(f, u) ==
  /\ changes < MaxChanges /\ trees[f] # u /\ stale = <<>>
  /\ changes' = changes + 1
  /\ trees' = [trees EXCEPT ![f] = u]
  /\ stale' = <<f>> \o Dependents(edges, f)
  /\ unrelated' = unrelated \cup ToSet(stale')
  /\ UNCHANGED <<nodes, edges>>

Update ==
  /\ stale # <<>>
  /\ Becomes(UpdateFile(Graph, Head(stale)))
  /\ stale' = Tail(stale)
  /\ UNCHANGED <<trees, unrelated, changes>>

\* A queued file is related, by the background or by a query.
Relate(f) ==
  /\ f \in unrelated /\ stale = <<>>
  /\ Becomes(Related(Graph, f))
  /\ unrelated' = unrelated \ {f}
  /\ UNCHANGED <<trees, stale, changes>>

Next == Update \/ \E f \in Files : Relate(f) \/ \E u \in Units[f] : Change(f, u)

Spec == Init /\ [][Next]_vars
-----------------------------------------------------------------------------
All(S, Op(_, _), g) == FoldLeft(Op, g, SetToSeq(S))

(* The types of file-level declarations are looked up when the file is
   declared, and then only. *)
Unlooked(e) == e[2] = "usesType" /\ (Len(e[1]) = 1 \/ (Len(e[1]) > 2 /\ e[1][2] = ""))

Is(g) == nodes = g.nodes /\ edges \subseteq g.edges /\ \A e \in g.edges \ edges : Unlooked(e)

(* Files are declared in any order, updated with their importers and related
   later, one by one.  Once none is queued, the graph is that of the whole
   program, which is had at once by knowing every node and then every edge: no
   edge of an older tree is left, and none was lost when a file it touches was
   cleared, but for types of file-level declarations. *)
GraphIsOfTheProgram ==
  unrelated = {} /\ stale = <<>> =>
    \A known \in {All(Files, UpdateFile, Empty)} :
      \A declared \in {All(HasTree, Declared, known)} : Is(All(HasTree, Related, declared))
=============================================================================
