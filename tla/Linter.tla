------------------------------- MODULE Linter -------------------------------
(***************************************************************************)
(* The linter's rules over the syntax tree of one file.  A node of a body  *)
(* is [type, name, kids], the kids in the order of the text:               *)
(*   id: name; literal: name; member: its name, the expression;            *)
(*   index: base and index; binary, unary: the operator, the operands;     *)
(*   call: the callee, then the arguments; options: the callee, then the   *)
(*   values; declaration: [vars] too, the initial value; expression, emit, *)
(*   block, if, for, while, do: their parts; tuple.                        *)
(* A function is [name, kind, mods, visibility, mutability, params,        *)
(* returns, body]; a contract [name, bases, vars, functions, usings].      *)
(***************************************************************************)
EXTENDS Naturals, SequencesExt

CONSTANTS
  Sources,     \* the files that are linted: [pragmas, contracts, disabled]
  NoBody,
  Guards,      \* modifiers whose name says they are against reentrancy
  Erc20Types, SafeLibraries, AssignmentOperators, ExternalMembers, VolatileMembers

VARIABLES source, diagnostics

vars == <<source, diagnostics>>

\* visit, of the parser: the node and all below it, in the order of the text.
RECURSIVE Visit(_)
Visit(n) == <<n>> \o FoldLeft(LAMBDA s, k : s \o Visit(k), <<>>, n.kids)
NodesOf(n) == ToSet(Visit(n))
InBody(f) == IF f.body = NoBody THEN {} ELSE NodesOf(f.body)

Kid(n, i) == n.kids[i]
Identifier(n, name) == n.type = "id" /\ n.name = name
MemberOf(n, base, name) == n.type = "member" /\ n.name = name /\ Identifier(Kid(n, 1), base)
StateVars(c) == {v.name : v \in ToSet(c.vars)}

\* A diagnostic: its code, what it is shown at.
Flag(code, at) == [code |-> code, at |-> at]

RECURSIVE Peeled(_), Target(_)
\* isExternalCallNode, externalCallMember: call options are peeled off.
Peeled(n) == IF n.type = "options" THEN Peeled(Kid(n, 1)) ELSE n
ExternalMember(n) ==
  IF n.type = "call" /\ Peeled(Kid(n, 1)).type = "member" /\ Peeled(Kid(n, 1)).name \in ExternalMembers
  THEN Peeled(Kid(n, 1)).name ELSE ""

(* targetsStateVariable: the name that is written; none for a tuple. *)
Target(n) ==
  CASE n.type = "id" -> n.name
    [] n.type \in {"index", "member"} -> Target(Kid(n, 1))
    [] OTHER -> ""
Writes(n) ==
  IF \/ n.type = "binary" /\ n.name \in AssignmentOperators
     \/ n.type = "unary" /\ n.name \in {"++", "--"}
  THEN {Target(Kid(n, 1))} \ {""} ELSE {}
Written(body) == UNION {Writes(n) : n \in NodesOf(body)}
\* countStateAssignments.
CountWrites(body, name) == Len(SelectSeq(Visit(body), LAMBDA n : name \in Writes(n)))
-----------------------------------------------------------------------------
(* findRawFunction: the mapped function is paired with the body of the first
   function of that name. *)
BodyOf(c, f) == Head(SelectSeq(c.functions, LAMBDA g : g.name = f.name)).body
Checkable(c, f) == f.body # NoBody /\ f.name # "" /\ BodyOf(c, f) # NoBody
Named(c) == {f \in ToSet(c.functions) : Checkable(c, f)}

Calls(s) == \E n \in NodesOf(s) : ExternalMember(n) # ""

\* Mutant of WritesLate: a call in the statement itself counts.
WritesWhereItCalls(c, body, i) ==
  /\ \E j \in 1..i : Calls(Kid(body, j))
  /\ Written(Kid(body, i)) \cap StateVars(c) # {}

\* checkReentrancyAst: statements of the body; those inside them are one with them.
WritesLate(c, body, i) ==
  /\ \E j \in 1..i - 1 : Calls(Kid(body, j))
  /\ Written(Kid(body, i)) \cap StateVars(c) # {}
Reentrancy(c) ==
  UNION {{Flag("reentrancy", <<f.id, ToString(i)>>) : i \in {k \in DOMAIN BodyOf(c, f).kids : WritesLate(c, BodyOf(c, f), k)}} :
           f \in {g \in Named(c) : g.mods \cap Guards = {}}}

UncheckedCalls(c) ==
  {Flag("unchecked-call", <<f.id>>) : f \in {g \in Named(c) : \E s \in NodesOf(BodyOf(c, g)) :
     s.type = "expression" /\ ExternalMember(Kid(s, 1)) \in {"call", "delegatecall", "staticcall"}}}

MissingEvents(c) ==
  {Flag("missing-event", <<f.id>>) : f \in {g \in Named(c) :
     /\ g.kind = "function" /\ g.mutability \notin {"view", "pure"} /\ g.visibility # "private"
     /\ Written(BodyOf(c, g)) \cap StateVars(c) # {}
     /\ ~\E n \in NodesOf(BodyOf(c, g)) : n.type = "emit"}}

(* emitStorageInLoopHints, for one loop: identifiers that name a state
   variable, but for those the function's parameters or a declaration that
   ended earlier in the loop hide. *)
LoopReads(c, loop, shadowed) ==
  LET seq == Visit(loop)
      declaredBefore(k, name) == \E d \in 1..k - 1 :
        /\ seq[d].type = "declaration" /\ \E v \in ToSet(seq[d].vars) : v.name = name
        /\ d + Len(Visit(seq[d])) <= k
  IN  {k \in DOMAIN seq : /\ seq[k].type = "id" /\ seq[k].name \in StateVars(c) \ shadowed
                          /\ ~declaredBefore(k, seq[k].name)}

StorageInLoop(c) ==
  LET loops(f) == {n \in NodesOf(BodyOf(c, f)) : n.type \in {"for", "while", "do"}}
      raw(f) == Head(SelectSeq(c.functions, LAMBDA g : g.name = f.name))
      shadowed(f) == {p.name : p \in ToSet(raw(f).params \o raw(f).returns)}
  IN  UNION {UNION {{Flag("storage-in-loop", <<f.id, Visit(n)[k].name>>) : k \in LoopReads(c, n, shadowed(f))} :
                      n \in loops(f)} : f \in Named(c)}

SelfDestructs(c) ==
  LET calls(n, name) == n.type = "call" /\ Identifier(Kid(n, 1), name)
      body(f) == NodesOf(BodyOf(c, f))
  IN  {Flag("unprotected-selfdestruct", <<f.id>>) : f \in {g \in Named(c) :
         /\ \E n \in body(g) : calls(n, "selfdestruct") \/ calls(n, "suicide")
         /\ g.mods = {} /\ ~\E n \in body(g) : calls(n, "require") \/ MemberOf(n, "msg", "sender")}}
-----------------------------------------------------------------------------
(* The rules that look at each function by itself. *)
Delegatecalls(c) ==
  {Flag("dangerous-delegatecall", <<f.id>>) : f \in {g \in ToSet(c.functions) :
     \E n \in InBody(g) : ExternalMember(n) = "delegatecall"}}

Plain(f) == f.kind \notin {"constructor", "fallback", "receive"}
EmptyBlocks(c) ==
  {Flag("empty-block", <<f.id>>) : f \in {g \in ToSet(c.functions) : g.body # NoBody /\ Plain(g) /\ g.body.kids = <<>>}}
DefaultVisibility(c) ==
  {Flag("func-visibility-explicit", <<f.id>>) : f \in {g \in ToSet(c.functions) : Plain(g) /\ g.visibility = "default"}}

\* checkPayableFallbackAst: no fallback is shown when anything is received.
PayableFallback(c) ==
  IF \E f \in ToSet(c.functions) : f.kind = "receive" THEN {}
  ELSE {Flag("payable-fallback", <<f.id>>) : f \in {g \in ToSet(c.functions) : g.kind = "fallback" /\ g.mutability # "payable"}}

Truth(n) == n.type = "literal" /\ n.name \in {"true", "false"}
RECURSIVE Unwrapped(_)
Unwrapped(n) == IF n.type = "tuple" /\ Len(n.kids) = 1 THEN Unwrapped(Kid(n, 1)) ELSE n
Division(n) == Unwrapped(n).type = "binary" /\ Unwrapped(n).name = "/"
Volatile(n) == n.type = "member" /\ (n.name = "balance" \/ \E m \in VolatileMembers : MemberOf(n, "block", m))
Entropy(n) == \E k \in NodesOf(n) : \/ \E m \in VolatileMembers : MemberOf(k, "block", m)
                                    \/ k.type = "call" /\ Identifier(Kid(k, 1), "blockhash")

BinaryFlags(c, code, ops, P(_)) ==
  {Flag(code, <<f.id>>) : f \in {g \in ToSet(c.functions) :
     \E n \in InBody(g) : n.type = "binary" /\ n.name \in ops /\ \E i \in 1..2 : P(Kid(n, i))}}
BooleanEquality(c)      == BinaryFlags(c, "boolean-equality", {"==", "!="}, Truth)
DivideBeforeMultiply(c) == BinaryFlags(c, "divide-before-multiply", {"*"}, Division)
StrictEquality(c)       == BinaryFlags(c, "incorrect-strict-equality", {"==", "!="}, Volatile)
WeakPrng(c)             == BinaryFlags(c, "weak-prng", {"%"}, Entropy)

\* checkEcrecoverZeroCheckAst.
AddressZero(n) == n.type = "call" /\ Identifier(Kid(n, 1), "address") /\ Len(n.kids) > 1 /\ Kid(n, 2).name = "0"
ZeroCompared(f) ==
  UNION {{Kid(n, i).name : i \in {j \in 1..2 : Kid(n, j).type = "id" /\ AddressZero(Kid(n, 3 - j))}} :
           n \in {m \in InBody(f) : m.type = "binary" /\ m.name \in {"==", "!="}}}
Ecrecover(c) ==
  LET captured(f) == {d.vars[1].name : d \in {n \in InBody(f) :
                        /\ n.type = "declaration" /\ n.kids # <<>>
                        /\ Kid(n, 1).type = "call" /\ Identifier(Kid(Kid(n, 1), 1), "ecrecover")}}
  IN  UNION {{Flag("ecrecover-zero-check", <<f.id, v>>) : v \in captured(f) \ ZeroCompared(f)} : f \in ToSet(c.functions)}

\* checkUnsafeErc20CallAst.
UnsafeErc20(c) ==
  LET held(s) == {v.name : v \in {w \in ToSet(s) : w.type \in Erc20Types}}
      locals(f) == UNION {held(d.vars) : d \in {n \in InBody(f) : n.type = "declaration"}}
      tokens(f) == held(c.vars) \cup held(f.params) \cup locals(f)
      direct(f) == {n \in InBody(f) : /\ n.type = "call" /\ Kid(n, 1).type = "member"
                                      /\ Kid(n, 1).name \in {"transfer", "transferFrom", "approve"}
                                      /\ \E t \in tokens(f) : Identifier(Kid(Kid(n, 1), 1), t)}
  IN  IF c.usings \cap SafeLibraries # {} THEN {}
      ELSE {Flag("unsafe-erc20-call", <<f.id>>) : f \in {g \in ToSet(c.functions) : direct(g) # {}}}

\* checkShadowingStateAst: the variables of the contract and of its bases in the file.
BasesIn(u, c) ==
  LET up(S) == S \cup {d \in ToSet(u.contracts) : \E e \in S : d.name \in e.bases}
      after[k \in 0..Len(u.contracts)] == IF k = 0 THEN {c} ELSE up(after[k - 1])
  IN  after[Len(u.contracts)]
Shadowing(u, c) ==
  LET names == UNION {StateVars(b) : b \in BasesIn(u, c)}
      own(f) == {p.name : p \in ToSet(f.params)} \cup UNION {{v.name : v \in ToSet(d.vars)} :
                  d \in {n \in InBody(f) : n.type = "declaration"}}
  IN  UNION {{Flag("shadowing-state", <<f.id, n>>) : n \in own(f) \cap names} : f \in ToSet(c.functions)}

(* checkStateOptimizableAst: assignments in the functions of the contract. *)
StateOptimizable(c) ==
  LET functions == {f \in ToSet(c.functions) : f.body # NoBody}
      inConstructor(v) == {CountWrites(f.body, v.name) : f \in {g \in functions : g.kind = "constructor"}}
      count(v) == IF inConstructor(v) = {} THEN 0 ELSE CHOOSE k \in inConstructor(v) : TRUE
      elsewhere(v) == \E f \in functions : f.kind # "constructor" /\ CountWrites(f.body, v.name) > 0
      runtime(v) == \E n \in NodesOf(v.init) : n.type = "member" /\ \E b \in {"block", "msg", "tx"} : Identifier(Kid(n, 1), b)
      open == {v \in ToSet(c.vars) : ~v.fixed /\ ~elsewhere(v)}
  IN  {Flag("state-could-be-constant", <<v.name>>) : v \in {w \in open : w.init # NoBody /\ count(w) = 0 /\ ~runtime(w)}}
      \cup {Flag("state-could-be-immutable", <<v.name>>) : v \in {w \in open : w.init = NoBody /\ count(w) = 1}}

(* checkMissingZeroCheck, by the text of the body: compared, given alone to
   _checkNonZero, or required first of all while anything is compared. *)
RECURSIVE Leftmost(_)
Leftmost(n) == IF n.kids = <<>> THEN n.name ELSE Leftmost(Kid(n, 1))
MissingZeroChecks(c) ==
  LET required(f) == IF ~\E n \in InBody(f) : AddressZero(n) THEN {}
                     ELSE {Leftmost(Kid(n, 2)) : n \in {m \in InBody(f) :
                             m.type = "call" /\ Identifier(Kid(m, 1), "require") /\ Len(m.kids) > 1}}
      checked(f) == {Kid(n, 2).name : n \in {m \in InBody(f) :
                       m.type = "call" /\ Kid(m, 1).name = "_checkNonZero" /\ Len(m.kids) = 2 /\ Kid(m, 2).type = "id"}}
      open(f) == {p \in ToSet(f.params) : p.type \in {"address", "address payable"}
                                          /\ p.name \notin ZeroCompared(f) \cup required(f) \cup checked(f) \cup {""}}
  IN  UNION {{Flag("missing-zero-check", <<f.id, p.name>>) : p \in open(f)} :
               f \in {g \in ToSet(c.functions) : g.body # NoBody}}

MultiplePragma(u) == {Flag("multiple-pragma", <<ToString(i)>>) : i \in {j \in DOMAIN u.pragmas : u.pragmas[j] = "solidity" /\ \E k \in 1..j - 1 : u.pragmas[k] = "solidity"}}
-----------------------------------------------------------------------------
OfContract(u, c) ==
  Reentrancy(c) \cup UncheckedCalls(c) \cup MissingEvents(c) \cup StorageInLoop(c) \cup Delegatecalls(c)
  \cup SelfDestructs(c) \cup EmptyBlocks(c) \cup PayableFallback(c) \cup DefaultVisibility(c) \cup BooleanEquality(c)
  \cup DivideBeforeMultiply(c) \cup StrictEquality(c) \cup WeakPrng(c)
  \cup Ecrecover(c) \cup UnsafeErc20(c) \cup Shadowing(u, c) \cup StateOptimizable(c) \cup MissingZeroChecks(c)

(* isSuppressed: the comment on the line before names the code, or none.
   disabled[at]: the codes named before that place, {} for no names. *)
Suppressed(u, d) == d.at \in DOMAIN u.disabled /\ (u.disabled[d.at] = {} \/ d.code \in u.disabled[d.at])

\* lint.
Linted(u) ==
  LET all == MultiplePragma(u) \cup UNION {OfContract(u, c) : c \in ToSet(u.contracts)}
  IN  {d \in all : ~Suppressed(u, d)}

Init == source \in Sources /\ diagnostics = {}
Lint == diagnostics = {} /\ diagnostics' = Linted(source) /\ UNCHANGED source
Next == Lint
-----------------------------------------------------------------------------
(* What a run of a statement does, in order: calls, writes of state variables,
   names used in loops, emits.  hidden: the names of parameters and locals.
   A run: [does, hidden]; a loop runs at most twice. *)
RECURSIVE Runs(_, _, _)
Then(R, k, names, loop) ==
  UNION {{[r2 EXCEPT !.does = r.does \o @] : r2 \in Runs(k, [names EXCEPT !.hidden = r.hidden], loop)} : r \in R}
After(ks, env, loop) == FoldLeft(LAMBDA R, k : Then(R, k, env, loop), {[does |-> <<>>, hidden |-> env.hidden]}, ks)
Runs(n, env, loop) ==
  LET scoped(R) == {[r EXCEPT !.hidden = env.hidden] : r \in R}
      last == Kid(n, Len(n.kids))
      twice == After(n.kids, env, TRUE) \cup Then(After(n.kids, env, TRUE), last, env, TRUE)
      own(v) == v \in env.state \ env.hidden
      parts == IF n.type = "binary" /\ Kid(n, 1).type = "tuple" THEN {Target(k) : k \in ToSet(Kid(n, 1).kids)} ELSE {}
      does == (IF ExternalMember(n) # "" THEN <<<<"call">>>> ELSE <<>>)
              \o SetToSeq({<<"write", v, parts # {}>> : v \in {w \in Writes(n) \cup parts : own(w)}})
              \o (IF n.type = "emit" THEN <<<<"emit">>>> ELSE <<>>)
              \o (IF loop /\ n.type = "id" /\ own(n.name) THEN <<<<"loop", n.name>>>> ELSE <<>>)
  IN  CASE n.type = "if" -> scoped(Then(Runs(Kid(n, 1), env, loop), Kid(n, 2), env, loop)
                                   \cup (IF Len(n.kids) = 3 THEN Then(Runs(Kid(n, 1), env, loop), Kid(n, 3), env, loop)
                                         ELSE Runs(Kid(n, 1), env, loop)))
        [] n.type \in {"for", "while"} -> scoped(twice \cup After(Front(n.kids), env, TRUE))
        [] n.type = "do" -> scoped(twice)
        [] n.type = "block" -> scoped(After(n.kids, env, loop))
        [] n.type = "declaration" -> {[r EXCEPT !.hidden = @ \cup {v.name : v \in ToSet(n.vars)}] : r \in After(n.kids, env, loop)}
        [] OTHER -> {[r EXCEPT !.does = @ \o does] : r \in After(n.kids, env, loop)}

RunsOf(c, f) == Runs(f.body, [state |-> StateVars(c), hidden |-> {p.name : p \in ToSet(f.params \o f.returns)}], FALSE)
Does(r) == ToSet(r.does)

(* Rules that match shapes of the tree, against the runs of the function.
   A statement that can write a state variable after an earlier statement has
   called out is flagged, unless it writes through a tuple or the function is
   guarded; one is flagged for no other reason than that, or a hidden name.
   Where a missing event is shown, no run emits; what is offered as constant
   no run writes, but through a tuple; and what a loop uses of the storage is
   hinted unless an earlier declaration in the loop has its name. *)
HintsFitTheRuns ==
  diagnostics # {} =>
  \A c \in ToSet(source.contracts) : \A f \in {g \in ToSet(c.functions) : g.body # NoBody} :
    LET flagged(code, at) == Flag(code, at) \in diagnostics
        env == [state |-> StateVars(c), hidden |-> {p.name : p \in ToSet(f.params \o f.returns)}]
        before(i) == After(SubSeq(f.body.kids, 1, i - 1), env, FALSE)
        late(i) == \E r \in before(i) : /\ <<"call">> \in Does(r)
                     /\ \E q \in Runs(Kid(f.body, i), [env EXCEPT !.hidden = r.hidden], FALSE) :
                          \E v \in StateVars(c) : <<"write", v, FALSE>> \in Does(q)
        hides == env.hidden \cup UNION {{v.name : v \in ToSet(d.vars)} : d \in {n \in InBody(f) : n.type = "declaration"}}
        all == UNION {Does(r) : r \in RunsOf(c, f)}
    IN  /\ \A i \in DOMAIN f.body.kids :
             /\ late(i) /\ f.mods \cap Guards = {} => flagged("reentrancy", <<f.id, ToString(i)>>)
             /\ flagged("reentrancy", <<f.id, ToString(i)>>) => late(i) \/ hides \cap StateVars(c) # {}
        /\ flagged("missing-event", <<f.id>>) => <<"emit">> \notin all
        /\ \A v \in StateVars(c) :
             /\ flagged("state-could-be-constant", <<v>>) => <<"write", v, FALSE>> \notin all
             /\ <<"loop", v>> \in all => flagged("storage-in-loop", <<f.id, v>>) \/ v \in hides
=============================================================================
