-------------------------- MODULE CallResolution --------------------------
(***************************************************************************)
(* What a call in a body is a call of: the type of its receiver, the       *)
(* functions attached by using-for directives, the members of a contract   *)
(* along its bases, file-level functions, and the choice of an overload by *)
(* the number and the types of its arguments.                              *)
(*                                                                         *)
(* A callable is [name, params, returns, ...] with the types as strings; a *)
(* contract of a tree has also functions, modifiers, vars, usings.  An     *)
(* expression is a record with its type.                                   *)
(***************************************************************************)
EXTENDS Naturals, Sequences, FiniteSets, SequencesExt

CONSTANTS
  Files, NoTree, None,
  Element,        \* the type of what a mapping or an array type holds
  Dotted,         \* the identifiers of a type that is written with dots
  IntTypes, BytesTypes, BuiltinTypes,
  Keywords        \* names that look like calls and are not

VARIABLE trees

Resolver == INSTANCE SemanticResolver WITH
  Trees <- {}, Swept <- {}, Names <- {}, MaxEvents <- 0, MaxVisits <- 8,
  cache <- [reach |-> <<>>, imported |-> <<>>, all |-> None, chains |-> <<>>],
  listed <- {}, reloading <- FALSE, events <- 0

FirstOf(s) == IF s = <<>> THEN None ELSE Head(s)
OrElse(a, b) == IF a # None THEN a ELSE b
Prefer(S, T) == Resolver!Prefer(S, T)
AnyOf(S) == Resolver!AnyOf(S)
\* The first thing that Op gives along a sequence.
FirstAlong(s, Op(_)) == FirstOf(SelectSeq([i \in DOMAIN s |-> Op(s[i])], LAMBDA x : x # None))
Named(s, name) == SelectSeq(s, LAMBDA d : d.name = name)
Unit(f) == trees[f]
HasTree == {f \in Files : trees[f] # NoTree}

\* A resolved contract, and the whole of its definition.
Resolve(name, f) == Resolver!ResolveContract(Resolver!Nowhere, name, f)
Chain(d) == Resolver!ChainOf(Resolver!Nowhere, d)
Body(d)  == Head(Named(Unit(d.file).contracts, d.name))

\* memberNodeId: the parameters stand for the position.
MemberId(file, container, kind, d) == <<file, container, kind, d.name, d.params>>

ElementOf(t) == IF t \in DOMAIN Element THEN Element[t] ELSE None
Canonical(t) == CASE t = "uint" -> "uint256" [] t = "int" -> "int256" [] OTHER -> t
-----------------------------------------------------------------------------
(* Overloads: by the number of arguments, then by the types that are known;
   none when the types fit several or none. *)
Fits(param, arg) ==
  CASE arg = None             -> TRUE
    [] arg = "integerLiteral" -> Canonical(param) \in IntTypes
    [] arg = "bytesLiteral"   -> param \in BytesTypes
    [] OTHER                  -> Canonical(param) = Canonical(arg)

SomeKnown(types) == \E i \in DOMAIN types : types[i] # None
AllFit(params, types) == \A i \in DOMAIN params : Fits(params[i], types[i])

\* selectCallableByArguments.
SelectCallable(candidates, name, types) ==
  LET arity == SelectSeq(Named(candidates, name), LAMBDA d : Len(d.params) = Len(types))
      typed == SelectSeq(arity, LAMBDA d : SomeKnown(types) /\ AllFit(d.params, types))
  IN  IF Len(arity) <= 1 THEN FirstOf(arity)
      ELSE IF Len(typed) = 1 THEN Head(typed)
      ELSE IF SomeKnown(types) THEN None ELSE Head(arity)

(* selectUsingForFunction: the receiver is the first parameter; without an
   overload of the right number of arguments, or arguments, the first of
   the name. *)
SelectUsingFor(candidates, name, types) ==
  LET named == Named(candidates, name)
      arity == SelectSeq(named, LAMBDA d : Len(d.params) = Len(types) + 1)
      typed == SelectSeq(arity, LAMBDA d : SomeKnown(types) /\ AllFit(Tail(d.params), types))
  IN  IF types = None \/ Len(arity) = 0 THEN FirstOf(named)
      ELSE IF Len(arity) = 1 THEN Head(arity)
      ELSE IF Len(typed) = 1 THEN Head(typed)
      ELSE IF SomeKnown(types) THEN None ELSE Head(arity)
-----------------------------------------------------------------------------
(* File-level functions, events and errors: what an import names, else the
   file's own, else one that is visible. *)
FileLevelOf(f, kind) ==
  CASE kind = "function" -> Unit(f).free [] kind = "event" -> Unit(f).events [] kind = "error" -> Unit(f).errors

\* findFileLevelDeclarationInSourceUnit, as a set of at most one identity.
InUnit(f, name, kind, types) ==
  IF trees[f] = NoTree \/ Len(name) # 1 THEN {}
  ELSE LET d == SelectCallable(FileLevelOf(f, kind), name[1], types)
       IN  IF d = None THEN {} ELSE {MemberId(f, "", kind, d)}

\* findVisibleFileLevelDeclaration.
ImportedLevel(i, kind, types) == IF i = None THEN {} ELSE InUnit(i.file, <<i.name>>, kind, types)
VisibleLevel(f, leaf, kind, types) ==
  UNION {InUnit(g, <<leaf>>, kind, types) :
           g \in {h \in HasTree : /\ Named(FileLevelOf(h, kind), leaf) # <<>>
                                  /\ Resolver!SymbolVisible(Resolver!Nowhere, leaf, h, f, TRUE)}}
FileLevel(f, name, kind, types) ==
  AnyOf(Prefer(ImportedLevel(Resolver!ImportedSymbol(trees, name, f), kind, types),
               Prefer(InUnit(f, name, kind, types), VisibleLevel(f, Resolver!NameLeaf(name), kind, types))))
-----------------------------------------------------------------------------
(* using-for: the directives of the file, of the contract, and the global
   ones of the files that are reached. *)
Directives(f, contract) ==
  LET from(g, s) == [i \in DOMAIN s |-> [u |-> s[i], home |-> g]]
      others == SetToSeq((Resolver!Reach(trees, f) \cap HasTree) \ {f})
  IN  from(f, Unit(f).usings) \o (IF contract = None THEN <<>> ELSE from(f, contract.usings))
      \o FoldLeft(LAMBDA s, g : s \o from(g, SelectSeq(Unit(g).usings, LAMBDA u : u.global)), <<>>, others)

\* resolveUsingForLibrary.
UsingLibrary(f, name) ==
  LET libraries == {d \in Resolver!Contracts(trees) : <<d.name>> = name /\ Body(d).kind = "library"}
      visible == {d \in libraries : Resolver!SymbolVisible(Resolver!Nowhere, d.name, d.file, f, TRUE)}
  IN  IF Resolver!ImportedSymbol(trees, name, f) # None THEN Resolve(name, f)
      ELSE AnyOf(Prefer({d \in visible : d.file = f}, visible))

\* directiveFunctionName.
AttachedName(u, member) ==
  LET renamed == SelectSeq(u.aliases, LAMBDA a : a.as = member)
  IN  IF renamed # <<>> THEN Head(renamed).name
      ELSE IF member \in u.functions THEN member ELSE None

\* The free function of a file that is selected, with its file, if any.
FreeIn(g, name, types) ==
  IF trees[g] = NoTree THEN {}
  ELSE {[fn |-> d, home |-> g] : d \in {SelectUsingFor(Unit(g).free, name, types)} \ {None}}

\* selectVisibleFreeFunction: what an import names, else the file's own, else one that is visible.
ImportedFree(i, types) == IF i = None THEN {} ELSE FreeIn(i.file, i.name, types)
VisibleFree(f, name, types) ==
  Prefer(ImportedFree(Resolver!ImportedSymbol(trees, <<name>>, f), types),
         Prefer(FreeIn(f, name, types),
                UNION {FreeIn(g, name, types) : g \in {h \in HasTree : Resolver!SymbolVisible(Resolver!Nowhere, name, h, f, TRUE)}}))

Takes(fn, receiver) == fn.params # <<>> /\ fn.params[1] = receiver

\* What one directive attaches to the receiver under this name: of a library, or a free function.
OfLibrary(library, receiver, member, types) ==
  IF library = None THEN None
  ELSE AnyOf({MemberId(library.file, library.name, "function", fn) :
                fn \in {x \in {SelectUsingFor(Body(library).functions, member, types)} \ {None} : Takes(x, receiver)}})

IfTaken(free, receiver) ==
  IF free = None THEN None
  ELSE IF Takes(free.fn, receiver) THEN MemberId(free.home, "", "function", free.fn) ELSE None
FreeAttached(e, f, receiver, name, types) ==
  IF name = None THEN None
  ELSE IfTaken(AnyOf(Prefer(FreeIn(e.home, name, types), VisibleFree(f, name, types))), receiver)

Attached(e, f, receiver, member, types) ==
  IF e.u.type \notin {None, receiver} THEN None
  ELSE IF e.u.library # None THEN OfLibrary(UsingLibrary(f, e.u.library), receiver, member, types)
  ELSE FreeAttached(e, f, receiver, AttachedName(e.u, member), types)

\* findUsingForFunction: the first directive that attaches one.
UsingFor(f, contract, receiver, member, types) ==
  FirstAlong(Directives(f, contract), LAMBDA e : Attached(e, f, receiver, member, types))
-----------------------------------------------------------------------------
\* findMemberInContract: functions, then modifiers, then variables, and so on.
MemberOf(d, name) ==
  LET in(kind, s) == [i \in DOMAIN Named(s, name) |-> MemberId(d.file, d.name, kind, Named(s, name)[i])]
  IN  FirstOf(in("function", Body(d).functions) \o in("modifier", Body(d).modifiers)
              \o in("stateVariable", Body(d).vars) \o in("event", Body(d).events)
              \o in("error", Body(d).errors) \o in("struct", Body(d).structs) \o in("enum", Body(d).enums))

FindMember(d, name) == FirstAlong(Chain(d), LAMBDA e : MemberOf(e, name))

(* resolveMemberNode: along the bases, a function or a modifier that the
   arguments fit; then a public getter with as many; then any callable. *)
IdIn(e, kind, m) == IF m = None THEN None ELSE MemberId(e.file, e.name, kind, m)
CallableIn(e, name, types) ==
  OrElse(IdIn(e, "function", SelectCallable(Body(e).functions, name, types)),
         IdIn(e, "modifier", SelectCallable(Body(e).modifiers, name, types)))
GetterIn(e, name, types) ==
  IdIn(e, "stateVariable", FirstOf(SelectSeq(Named(Body(e).vars, name), LAMBDA v : v.public /\ v.arity = Len(types))))
IfCallable(member) == IF member # None /\ member[3] \in {"function", "modifier"} THEN member ELSE None

ResolveMember(d, name, types) ==
  OrElse(FirstAlong(Chain(d), LAMBDA e : CallableIn(e, name, types)),
         OrElse(FirstAlong(Chain(d), LAMBDA e : GetterIn(e, name, types)), IfCallable(FindMember(d, name))))
-----------------------------------------------------------------------------
(* The type of a receiver.  env: [file, contract, fn], where fn lists the
   parameters and the locals as [name, type]. *)
TypeNamed(s, name) == LET d == Named(s, name) IN IF d = <<>> THEN None ELSE Head(d).type

\* resolveReceiverTypeInfo: a parameter, a local, a variable of the contract itself.
SimpleType(env, name) ==
  LET inner == TypeNamed(env.fn.names \o env.fn.locals, name)
  IN  IF inner # None \/ env.contract = None THEN inner ELSE TypeNamed(env.contract.vars, name)

\* getStruct: of the file, else where an import says.
StructsOf(f) ==
  IF trees[f] = NoTree THEN <<>>
  ELSE Unit(f).structs \o FoldLeft(LAMBDA s, c : s \o c.structs, <<>>, Unit(f).contracts)
StructImports(f, struct) ==
  SelectSeq(Unit(f).imports, LAMBDA i : i.target # None /\
    \/ \E s \in ToSet(i.symbols) : s.as = struct
    \/ i.alias = None /\ i.symbols = <<>> /\ Named(StructsOf(i.target), struct) # <<>>)
StructFrom(i, struct) ==
  IF i = None THEN <<>>
  ELSE Named(StructsOf(i.target),
             IF \E s \in ToSet(i.symbols) : s.as = struct
             THEN Head(SelectSeq(i.symbols, LAMBDA s : s.as = struct)).name ELSE struct)
FieldOf(structs, field) == IF structs = <<>> THEN None ELSE TypeNamed(Head(structs).fields, field)
FieldType(f, struct, field) ==
  FieldOf(IF Named(StructsOf(f), struct) # <<>> THEN Named(StructsOf(f), struct)
          ELSE StructFrom(FirstOf(StructImports(f, struct)), struct), field)

IsGlobalType(name) ==
  \E g \in HasTree :
    \/ \E c \in ToSet(Unit(g).contracts) : c.name = name \/ Named(c.structs \o c.enums, name) # <<>>
    \/ Named(Unit(g).structs \o Unit(g).enums \o Unit(g).udvts, name) # <<>>

\* Structs and the like of a file, its contracts' ones included.
TypesIn(g, leaf) ==
  LET in(c, kind, s) == {MemberId(g, c, kind, d) : d \in ToSet(Named(s, leaf))}
      u == Unit(g)
  IN  IF trees[g] = NoTree THEN {}
      ELSE in("", "struct", u.structs) \cup in("", "enum", u.enums) \cup in("", "userDefinedValueType", u.udvts)
           \cup UNION {in(c.name, "struct", c.structs) \cup in(c.name, "enum", c.enums) : c \in ToSet(u.contracts)}

(* resolveTypeNodeId: a contract, else a struct or the like: where an import
   says, else of the file, else any. *)
TypesFrom(imported, name, f) ==
  LET leaf == IF imported = None THEN Resolver!NameLeaf(name) ELSE imported.name
  IN  Prefer(IF imported = None THEN {} ELSE TypesIn(imported.file, leaf),
             Prefer(TypesIn(f, leaf), UNION {TypesIn(g, leaf) : g \in Files}))
TypeTarget(name, f) ==
  AnyOf(Prefer({Resolver!Id(d) : d \in {Resolve(name, f)} \ {None}},
               TypesFrom(Resolver!ImportedSymbol(trees, name, f), name, f)))

(* resolveReceiverInfo, as the identifiers of the type: a path that leads
   nowhere is taken for a type. *)
PathType(env, path) ==
  LET walk[i \in 1..Len(path)] ==
        IF i = 1 THEN SimpleType(env, path[1])
        ELSE IF walk[i - 1] = None THEN None ELSE FieldType(env.file, walk[i - 1], path[i])
  IN  walk[Len(path)]
TypePath(t) == IF t \in DOMAIN Dotted THEN Dotted[t] ELSE <<t>>
TypeOrPath(type, path) == IF type # None THEN TypePath(type) ELSE path
\* resolveDottedReceiverTypeInfo, with the path itself where it finds no type.
DottedType(env, path) ==
  IF Len(path) = 1 /\ IsGlobalType(path[1]) THEN path ELSE TypeOrPath(PathType(env, path), path)
ReceiverType(env, path) ==
  IF path = <<"this">> THEN IF env.contract = None THEN <<>> ELSE <<env.contract.name>>
  ELSE IF path = <<"super">>
  THEN IF env.contract = None \/ env.contract.bases = <<>> THEN <<>> ELSE env.contract.bases[1]
  ELSE DottedType(env, path)

TypeText(t) ==
  CASE t = <<>> -> None [] Len(t) = 1 -> t[1]
    [] \E d \in DOMAIN Dotted : Dotted[d] = t -> CHOOSE d \in DOMAIN Dotted : Dotted[d] = t
    [] OTHER -> "dotted"

(* resolveCallTarget; callee: [name, path].  Through a receiver: what is
   attached to it, else a member of the contract it is, else what a namespace
   holds; without one, or by this and super, a member of the contract itself
   and then a file-level function. *)
OfContract(contract, env, leaf, callee, types) ==
  IF contract # None THEN ResolveMember(contract, callee.name, types)
  ELSE FileLevel(env.file, <<leaf, callee.name>>, "function", types)
OfReceiver(env, receiver, leaf, callee, types) ==
  OrElse(UsingFor(env.file, env.contract, TypeText(receiver), callee.name, types),
         OfContract(Resolve(receiver, env.file), env, leaf, callee, types))

Self(env, leaf) ==
  IF env.contract = None \/ (leaf = "super" /\ env.contract.bases = <<>>) THEN None
  ELSE Resolve(IF leaf = "super" THEN env.contract.bases[1] ELSE <<env.contract.name>>, env.file)
OfSelf(self, env, callee, types) ==
  IF env.contract # None /\ self = None THEN None
  ELSE OrElse(IF self = None THEN None ELSE ResolveMember(self, callee.name, types),
              FileLevel(env.file, <<callee.name>>, "function", types))

CallTarget(env, callee, types) ==
  LET leaf == IF callee.path = <<>> THEN None ELSE Last(callee.path)
  IN  IF leaf \in {None, "this", "super"} THEN OfSelf(Self(env, leaf), env, callee, types)
      ELSE OfReceiver(env, ReceiverType(env, callee.path), leaf, callee, types)
-----------------------------------------------------------------------------
RECURSIVE PathOf(_), ArgumentType(_, _), ArgumentTypes(_, _)

\* rawExpressionToString, as its identifiers.
PathOf(e) ==
  CASE e.type = "id"     -> <<e.name>>
    [] e.type = "member" -> Append(PathOf(e.of), e.name)
    [] e.type = "index"  -> PathOf(e.of)
    [] e.type = "call"   -> PathOf(e.callee)
    [] OTHER             -> <<>>

\* rawCallName.
Callee(e) ==
  CASE e.type = "id"     -> [name |-> e.name, path |-> <<>>]
    [] e.type = "member" -> [name |-> e.name, path |-> PathOf(e.of)]
    [] OTHER             -> None

CommonType(l, r) ==
  CASE l = None \/ r = None           -> None
    [] Canonical(l) = Canonical(r)    -> Canonical(l)
    [] l = "integerLiteral" /\ Canonical(r) \in IntTypes -> r
    [] r = "integerLiteral" /\ Canonical(l) \in IntTypes -> l
    [] l = "bytesLiteral" /\ r \in BytesTypes -> r
    [] r = "bytesLiteral" /\ l \in BytesTypes -> l
    [] OTHER -> None

\* What the call of a function or of a getter gives.
ReturnType(target, count) ==
  LET unit == Unit(target[1])
      contract == Head(Named(unit.contracts, target[2]))
      of(s) == Head(SelectSeq(s, LAMBDA d : d.name = target[4] /\ d.params = target[5]))
      fn == of(IF target[2] = "" THEN unit.free ELSE contract.functions)
      got[k \in 0..count] == IF k = 0 THEN of(contract.vars).type ELSE ElementOf(got[k - 1])
  IN  IF target = None THEN None
      ELSE CASE target[3] = "function"      -> IF Len(fn.returns) = 1 THEN fn.returns[1] ELSE None
             [] target[3] = "stateVariable" -> got[count]
             [] OTHER -> None

CallType(env, callee, types) ==
  IF callee = None \/ callee.name \in Keywords THEN None ELSE ReturnType(CallTarget(env, callee, types), Len(types))

\* inferRawArgumentType.
ArgumentType(env, e) ==
  CASE e.type = "literal" -> e.of
    [] e.type = "id"      -> TypeText(ReceiverType(env, <<e.name>>))
    [] e.type = "member"  -> TypeText(ReceiverType(env, PathOf(e)))
    [] e.type = "binary"  -> IF e.op = "==" THEN "bool"
                             ELSE CommonType(ArgumentType(env, e.left), ArgumentType(env, e.right))
    [] e.type = "unary"   -> IF e.op = "!" THEN "bool" ELSE ArgumentType(env, e.of)
    [] e.type = "conditional" -> CommonType(ArgumentType(env, e.parts[2]), ArgumentType(env, e.parts[3]))
    [] e.type = "index"   -> ElementOf(ArgumentType(env, e.of))
    [] e.type = "call"    ->
         IF e.callee.type = "id" /\ (e.callee.name \in BuiltinTypes \/ TypeTarget(<<e.callee.name>>, env.file) # None)
         THEN e.callee.name ELSE CallType(env, Callee(e.callee), ArgumentTypes(env, e.args))
    [] OTHER -> None

ArgumentTypes(env, args) == [i \in DOMAIN args |-> ArgumentType(env, args[i])]
=============================================================================
