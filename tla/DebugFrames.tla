---------------------------- MODULE DebugFrames ----------------------------
(***************************************************************************)
(* What the debug adapter shows where it stops: the frames of the Solidity *)
(* functions, rebuilt from the jump markers of the source map, and the     *)
(* values of their locals, read from slots of the EVM's stack.             *)
(*                                                                         *)
(* The EVM (external) runs compiled functions and records, for each opcode,*)
(* its call depth, its source position (0 when generated), its marker and  *)
(* the height of the stack before it.  A call jumps with its arguments and *)
(* the destination on the stack; a function then has its return variables  *)
(* there, and each executed declaration leaves its value on top.           *)
(***************************************************************************)
EXTENDS Naturals, Integers, Sequences, FiniteSets, SequencesExt, FiniteSetsExt

CONSTANTS
  Functions,   \* name -> [start, end, params, returns, locals, body]: positions; locals: [name, declared, end]
  MaxSteps, MaxCalls, None

VARIABLES
  evm,         \* the EVM's frames: [known, calls]; a call is [fn, at, height, slots, alone]
  trace,       \* steps: [depth, context, at, jump, height, evm], the last as of after the step
  cursor       \* the step it stopped at, or None while the EVM runs

debugVars == <<evm, trace, cursor>>

Dispatcher == 1     \* where the contract itself is mapped to
Put(F, k, v) == [x \in DOMAIN F \cup {k} |-> IF x = k THEN v ELSE F[x]]
-----------------------------------------------------------------------------
\* extractFunctions and findEnclosingFunction.
Enclosing(at) ==
  LET around == {n \in DOMAIN Functions : Functions[n].start <= at /\ at < Functions[n].end}
  IN  IF around = {} THEN None
      ELSE CHOOSE n \in around : \A k \in around : Functions[n].end - Functions[n].start <= Functions[k].end - Functions[k].start

(* buildCallStack.  A frame is [fn, context, at, entry, slots]; at is 0 until
   a step of its depth has a source. *)
Seed(step) == [fn |-> None, context |-> step.context, at |-> 0, entry |-> step.height, slots |-> <<>>]
EnsureDepth(stacks, step) ==
  IF Len(stacks) >= step.depth THEN SubSeq(stacks, 1, step.depth)
  ELSE stacks \o [k \in 1..(step.depth - Len(stacks)) |-> <<Seed(step)>>]

Anchored(frames, step) ==
  IF Len(frames) = 1 /\ frames[1].at = 0
  THEN <<[frames[1] EXCEPT !.at = step.at, !.fn = Enclosing(step.at), !.entry = step.height]>>
  ELSE frames

\* Mutant of Jumped: the first function's frame is taken for the bottom one.
JumpedButOne(frames, step) ==
  CASE step.jump = "i" -> Append(frames, [Seed(step) EXCEPT !.at = step.at, !.fn = Enclosing(step.at)])
    [] step.jump = "o" /\ Len(frames) > 2 -> Front(frames)
    [] OTHER -> frames

\* A function is named after the position of the jump into it.
Jumped(frames, step) ==
  CASE step.jump = "i" -> Append(frames, [Seed(step) EXCEPT !.at = step.at, !.fn = Enclosing(step.at)])
    [] step.jump = "o" /\ Len(frames) > 1 -> Front(frames)
    [] OTHER -> frames

\* Live-local tracking, of the topmost frame.
Tracked(frame, step) ==
  LET passed == IF frame.fn = None \/ step.height <= frame.entry THEN {}
                ELSE {l \in ToSet(Functions[frame.fn].locals) : l.name \notin DOMAIN frame.slots /\ step.at >= l.end}
  IN  [frame EXCEPT !.at = step.at,
                    !.slots = [n \in DOMAIN @ \cup {l.name : l \in passed} |->
                                 IF n \in DOMAIN @ THEN @[n] ELSE step.height - 1]]

Walked(stacks, step) ==
  LET deep   == EnsureDepth(stacks, step)
      frames == Jumped(Anchored(Last(deep), step), step)
  IN  IF step.context = None \/ step.at = 0 THEN deep
      ELSE Append(Front(deep), Append(Front(frames), Tracked(Last(frames), step)))

Stacks(i) == FoldLeft(Walked, <<>>, SubSeq(trace, 1, i))
BuildCallStack(i) == Reverse(FlattenSeq(Stacks(i)))

(* handleStackTrace: frames of the walk, or a label when there is no source. *)
StackTrace(i) == [k \in DOMAIN BuildCallStack(i) |-> [name |-> BuildCallStack(i)[k].fn, at |-> BuildCallStack(i)[k].at]]
-----------------------------------------------------------------------------
(* handleScopes and sourceLocalsVariables: the slots shown for the enclosing
   function of the step, of the topmost frame that has it. *)
FrameOf(i, fn) ==
  LET of == SelectSeq(BuildCallStack(i), LAMBDA f : f.fn = fn /\ f.context = trace[i].context)
  IN  IF of = <<>> THEN None ELSE Head(of)

ParameterSlot(frame, k) == frame.entry - Functions[frame.fn].params + k - 1
Shown(slot, step) == IF slot >= 0 /\ slot < step.height THEN slot ELSE None
ShownLocals(i) ==
  LET step  == trace[i]
      fn    == IF step.context = None THEN None ELSE Enclosing(step.at)
      frame == FrameOf(i, fn)
      seen  == {l \in ToSet(Functions[fn].locals) : l.declared <= step.at}
  IN  IF fn = None \/ frame = None THEN <<>>
      ELSE [n \in {l.name : l \in seen} |->
              IF n \in DOMAIN frame.slots THEN Shown(frame.slots[n], step) ELSE None]

ShownParameters(i) ==
  LET fn    == IF trace[i].context = None THEN None ELSE Enclosing(trace[i].at)
      frame == FrameOf(i, fn)
  IN  IF fn = None \/ frame = None THEN <<>>
      ELSE [k \in 1..Functions[fn].params |-> Shown(ParameterSlot(frame, k), trace[i])]

\* evaluateExpression for a name: the topmost frame with a function, else a state variable.
Evaluate(i, name) ==
  LET named == SelectSeq(BuildCallStack(i), LAMBDA f : f.fn # None)
  IN  IF named = <<>> THEN "state"
      ELSE IF name \in DOMAIN Head(named).slots THEN Shown(Head(named).slots[name], trace[i])
      ELSE "state"
-----------------------------------------------------------------------------
(* The EVM. *)
Depth == Len(evm)
Calls == evm[Depth].calls
Here  == IF Calls = <<>> THEN [fn |-> None, at |-> Dispatcher, height |-> 1, slots |-> <<>>, alone |-> TRUE] ELSE Last(Calls)
Context == IF evm[Depth].known THEN <<"contract", Depth>> ELSE None
WithCalls(cs) == [evm EXCEPT ![Depth].calls = cs]
WithHere(c) == IF Calls = <<>> THEN evm ELSE WithCalls(Append(Front(Calls), c))

Step(at, jump, height, after) ==
  [depth |-> Depth, context |-> Context, at |-> at, jump |-> jump, height |-> height, evm |-> after]
Record(steps, after) ==
  /\ cursor = None /\ Len(trace) + Len(steps) <= MaxSteps
  /\ evm' = after /\ trace' = trace \o steps
  /\ UNCHANGED cursor

Declared(fn, at) == {l \in ToSet(Functions[fn].locals) : l.declared = at}
Execute ==
  \E at \in {a \in (IF Calls = <<>> THEN {Dispatcher} ELSE Functions[Here.fn].body) : a > Here.at \/ Calls = <<>>} :
    LET new   == IF Calls = <<>> THEN {} ELSE Declared(Here.fn, at)
        after == WithHere([Here EXCEPT !.at = at, !.height = @ + Cardinality(new),
                                       !.slots = IF new = {} THEN @ ELSE Put(@, (CHOOSE l \in new : TRUE).name, Here.height)])
    IN  Record(<<Step(at, "-", Here.height, after)>>, after)
\* A contract begins in its dispatcher.
Started == Calls # <<>> \/ (trace # <<>> /\ Last(trace).depth = Depth)
Generated == Started /\ Record(<<Step(0, "-", Here.height, evm)>>, evm)

Enter(g) ==
  LET fn     == Functions[g]
      at     == IF Calls = <<>> THEN fn.start ELSE Here.at
      pushed == Here.height + 1 + fn.params          \* the return address and the arguments
      callee == [fn |-> g, at |-> fn.start, height |-> pushed + fn.returns, slots |-> <<>>, alone |-> TRUE]
      after  == WithCalls(IF Calls = <<>> THEN <<callee>>
                          ELSE Append(Front(Calls), [Here EXCEPT !.alone = FALSE]) \o <<callee>>)
  IN  /\ Started /\ Len(Calls) < MaxCalls
      /\ Calls # <<>> => Here.at \in Functions[Here.fn].body
      /\ Record(<<Step(at, "i", pushed + 1, after)>>, after)

(* A function jumps back, to a JUMPDEST of its caller. *)
Leave ==
  LET after  == WithCalls(Front(Calls))
      caller == IF Len(Calls) = 1 THEN [at |-> Dispatcher, height |-> 1] ELSE Calls[Len(Calls) - 1]
  IN  /\ Calls # <<>>
      /\ Record(<<Step(Functions[Here.fn].end - 1, "o", Here.height, after), Step(caller.at, "-", caller.height, after)>>, after)

CallContract(known) ==
  LET after == Append(evm, [known |-> known, calls |-> <<>>])
  IN  Depth = 1 /\ Calls # <<>> /\ Record(<<Step(Here.at, "-", Here.height + 7, after)>>, after)

\* RETURN, STOP or REVERT: whatever functions are open.
Halt == Record(<<Step(Here.at, "-", Here.height, Front(evm))>>, Front(evm))

\* The session stops somewhere, and asks for frames and scopes.
Stop == cursor = None /\ trace # <<>> /\ cursor' = Len(trace) /\ UNCHANGED <<evm, trace>>

DebugInit == evm = <<[known |-> TRUE, calls |-> <<>>]>> /\ trace = <<>> /\ cursor = None
DebugNext ==
  \/ /\ evm # <<>>
     /\ \/ Execute \/ Generated \/ (\E g \in DOMAIN Functions : Enter(g)) \/ Leave
        \/ (\E known \in BOOLEAN : CallContract(known)) \/ Halt
  \/ Stop
-----------------------------------------------------------------------------
(* The frames and values shown are of the run.  Each EVM depth whose source is
   known has one frame and one more for each function open in it, however the
   deeper ones ended; each frame is named after a function that is open, or
   none; the topmost frame is where the last mapped opcode is, and the others
   are where their function was when it called.  In a function that was
   called from outside, returns a value and has called none yet, each declared
   local is read at its own slot, and its name evaluates to the same.  No slot
   is shown both as a parameter and as a local.                            *)
FramesFitTheRun ==
  cursor # None =>
    LET step   == trace[cursor]
        stacks == Stacks(cursor)
        truth  == IF Len(step.evm) >= step.depth THEN step.evm ELSE Append(step.evm, [known |-> TRUE, calls |-> <<>>])
        mapped == step.context # None /\ step.at # 0
        open(d) == truth[d].calls
        halted == Len(step.evm) < step.depth
        shown  == ShownLocals(cursor)
    IN  /\ Len(stacks) = step.depth
        /\ \A d \in 1..step.depth : ~(halted /\ d = step.depth) =>
             /\ Len(stacks[d]) = 1 + (IF truth[d].known THEN Len(open(d)) ELSE 0)
             /\ \A k \in 1..Len(stacks[d]) : stacks[d][k].fn \in {None} \cup {open(d)[j].fn : j \in DOMAIN open(d)}
             /\ \A k \in 2..Len(stacks[d]) - 1 : stacks[d][k].at = open(d)[k - 1].at
        /\ mapped => StackTrace(cursor)[1].at = step.at
        /\ \A k \in DOMAIN ShownParameters(cursor), n \in DOMAIN shown :
             shown[n] = None \/ shown[n] # ShownParameters(cursor)[k]
        /\ (/\ mapped /\ ~halted /\ Len(open(step.depth)) = 1 /\ Enclosing(step.at) = open(step.depth)[1].fn
            /\ Functions[open(step.depth)[1].fn].returns > 0 /\ open(step.depth)[1].alone) =>
             LET call == open(step.depth)[1]
             IN  \A n \in DOMAIN shown : (n \in DOMAIN call.slots /\ shown[n] # None) =>
                   shown[n] = call.slots[n] /\ Evaluate(cursor, n) = shown[n]
=============================================================================
