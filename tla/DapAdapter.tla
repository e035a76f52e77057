---------------------------- MODULE DapAdapter ----------------------------
(***************************************************************************)
(* The debug adapter: it replays the trace of one transaction, opcode by   *)
(* opcode, and maps each opcode to a source line with the source map of    *)
(* the contract that executes it.  Which contract that is, is not in the   *)
(* trace: rebuildContextStream infers it from the call depth and from the  *)
(* address on the stack of each call.                                      *)
(*                                                                         *)
(* The transaction runs first (the EVM is external) and records, beside    *)
(* each step, the contract that really executed it.  Then the session is   *)
(* launched and the client sends its requests.  "entry" is the contract    *)
(* with the main artifact, "aux" one listed in the launch configuration,   *)
(* "other" one whose artifact is not known.                                *)
(***************************************************************************)
EXTENDS Naturals, Sequences, SequencesExt

CONSTANTS MaxSteps,   \* bound on the length of the trace
          MaxDepth    \* bound on the call depth

Contracts == {"entry", "aux", "other"}
Lines     == {1, 2}     \* a contract's source lines; 0 is a generated opcode
Sites     == {"entry", "aux"} \X Lines
Nowhere   == <<"none", 0>>

VARIABLES
  frames,      \* the EVM's call stack: the contract executing at each depth
  trace,       \* the steps: depth, who executes, line of the opcode, op, to
  session,     \* "running EVM", "launched", "stopped", "terminated"
  index,       \* this.cursor's index, 0-based
  loaded,      \* this.cursor is set
  stream,      \* this.contextStream
  casting,     \* cast run is under way
  known,       \* contracts whose artifact is loaded
  breakpoints  \* this.breakpoints

vars == <<frames, trace, session, index, loaded, stream, casting, known, breakpoints>>
launchVars == <<frames, trace, loaded, stream, casting, known>>

\* The context of a contract, and of the callee of a call: the entry contract's
\* address is not known, so a call back into it finds no context.
Context(who) == IF who \in known THEN who ELSE "none"
Callee(to)   == IF to = "entry" THEN "none" ELSE Context(to)
-----------------------------------------------------------------------------
(* The EVM executes an opcode.  A call to an account without code, and a call
   that fails at once, do not reach a deeper frame. *)
Record(op, to, line) ==
  /\ session = "running EVM" /\ Len(trace) < MaxSteps /\ frames # <<>>
  /\ trace' = Append(trace, [depth |-> Len(frames), who |-> Last(frames), line |-> line,
                             op |-> op, to |-> to])
  /\ UNCHANGED <<session, index, loaded, stream, casting, known, breakpoints>>

EvmOpcode == \E line \in Lines \cup {0} : Record("PUSH", "other", line) /\ UNCHANGED frames

EvmCall ==
  \E to \in Contracts :
    /\ Record("CALL", to, 1)
    /\ \/ UNCHANGED frames
       \/ Len(frames) < MaxDepth /\ frames' = Append(frames, to)

EvmCreate ==
  /\ Record("CREATE", "other", 1)
  /\ Len(frames) < MaxDepth /\ frames' = Append(frames, "other")

EvmReturn == Record("RETURN", "other", 1) /\ frames' = Front(frames)
-----------------------------------------------------------------------------
(* Mutant of Descend: a context is not dropped when the depth shrinks. *)
DescendOnly(stack, d, callee) ==
  stack \o [k \in 1..(IF d > Len(stack) THEN d - Len(stack) ELSE 0) |-> IF k = 1 THEN callee ELSE "none"]

\* Pop the stack of contexts to depth d, or push the callee's to reach it.
Descend(stack, d, callee) ==
  IF Len(stack) >= d THEN SubSeq(stack, 1, d)
  ELSE stack \o [k \in 1..(d - Len(stack)) |-> IF k = 1 THEN callee ELSE "none"]

\* The context a step leaves for the next deeper one.
Pending(step, callee, entered) ==
  IF step.op = "CALL" THEN Callee(step.to)
  ELSE IF step.op = "CREATE" \/ entered THEN "none"
  ELSE callee

(* rebuildContextStream: [stack, callee, result] before the first step and
   after each. *)
Before == [stack |-> <<Context("entry")>>, callee |-> "none", result |-> <<>>]

After(walk, step) ==
  LET stack == Descend(walk.stack, step.depth, walk.callee)
  IN  [stack  |-> stack,
       callee |-> Pending(step, walk.callee, step.depth > Len(walk.stack)),
       result |-> Append(walk.result, Last(stack))]

RebuildContextStream(steps) ==
  LET Walk[i \in 0..Len(steps)] == IF i = 0 THEN Before ELSE After(Walk[i - 1], steps[i])
  IN  Walk[Len(steps)].result

(* currentLine at a 0-based index: nowhere past the end, on a generated opcode
   and where the contract is not known.  With a wrong context the program
   counter is looked up in another contract's map. *)
LineAt(i) ==
  IF i >= Len(trace) THEN Nowhere
  ELSE LET step == trace[i + 1]
           ctx  == stream[i + 1]
       IN  IF ctx = "none" \/ step.line = 0 THEN Nowhere ELSE <<ctx, step.line>>

MatchesBreakpoint(i) == LineAt(i) \in breakpoints

Ahead == index + 1..Len(trace) - 1

\* Where a walk that looks for one of these opcodes stops: at the first, or the end.
FirstOf(hits) == IF hits = {} THEN Len(trace) ELSE Min(hits)

(* Mutant of Arrive: the cursor is moved once more after the match. *)
ArriveBeyond(i) ==
  /\ index' = i + 1
  /\ session' = IF i < Len(trace) THEN "stopped" ELSE "terminated"

\* The cursor arrives at i: a stopped event, or terminated past the end.
Arrive(i) ==
  /\ index' = i
  /\ session' = IF i < Len(trace) THEN "stopped" ELSE "terminated"

NoCursor == ~loaded /\ session' = "terminated" /\ UNCHANGED index
-----------------------------------------------------------------------------
(* handleLaunch with a trace file: load, infer the contexts, stop on entry. *)
LaunchFile ==
  /\ session = "running EVM" /\ trace # <<>>
  /\ loaded' = TRUE
  /\ stream' = RebuildContextStream(trace)
  /\ session' = "stopped"
  /\ UNCHANGED <<frames, trace, index, casting, known, breakpoints>>

(* handleLaunch with neither a trace file nor a transaction hash. *)
LaunchNothing ==
  /\ session = "running EVM" /\ trace = <<>>
  /\ session' = "stopped"
  /\ UNCHANGED <<launchVars, index, breakpoints>>

(* handleLaunch with a transaction hash: cast is run, requests are served. *)
LaunchHash ==
  /\ session = "running EVM" /\ trace # <<>>
  /\ session' = "launched" /\ casting' = TRUE
  /\ UNCHANGED <<frames, trace, index, loaded, stream, known, breakpoints>>

(* cast answers, or fails. *)
Fetched ==
  /\ casting
  /\ casting' = FALSE
  /\ \/ /\ loaded' = TRUE /\ stream' = RebuildContextStream(trace)
        /\ session' = "stopped"
     \/ session' = "terminated" /\ UNCHANGED <<loaded, stream>>
  /\ UNCHANGED <<frames, trace, index, known, breakpoints>>

\* The client asks to go on only while it was told that the session is stopped.
InSession == session = "stopped"

(* setBreakpoints: every breakpoint is accepted, known line or not. *)
SetBreakpoints ==
  /\ session \in {"launched", "stopped"}
  /\ breakpoints' \in {B \in SUBSET Sites : \A p, q \in B : p = q}
  /\ UNCHANGED <<launchVars, session, index>>

(* Mutant of Continue: the step after the cursor is not looked at. *)
ContinueFromNext ==
  /\ InSession
  /\ \/ loaded /\ Arrive(FirstOf({i \in Ahead \ {index + 1} : MatchesBreakpoint(i)}))
     \/ NoCursor
  /\ UNCHANGED <<launchVars, breakpoints>>

(* handleContinue: to the next opcode on a line with a breakpoint. *)
Continue ==
  /\ InSession
  /\ \/ loaded /\ Arrive(FirstOf({i \in Ahead : MatchesBreakpoint(i)}))
     \/ NoCursor
  /\ UNCHANGED <<launchVars, breakpoints>>

(* handleStep, for "next" and "stepIn" alike: to a breakpoint or another line;
   by one opcode when no artifact is loaded. *)
Step ==
  /\ InSession
  /\ \/ /\ loaded /\ known = {}
        /\ Arrive(IF index < Len(trace) THEN index + 1 ELSE index)
     \/ /\ loaded /\ known # {}
        /\ Arrive(FirstOf({i \in Ahead : /\ LineAt(i) # Nowhere
                                         /\ MatchesBreakpoint(i) \/ LineAt(i) # LineAt(index)}))
     \/ NoCursor
  /\ UNCHANGED <<launchVars, breakpoints>>

(* handleStepOut: to a shallower opcode, past any breakpoint; in the outermost
   frame it is handleContinue. *)
StepOut ==
  /\ InSession
  /\ \/ /\ loaded /\ index < Len(trace)
        /\ LET target == trace[index + 1].depth - 1
           IN  Arrive(FirstOf({i \in Ahead : IF target = 0 THEN MatchesBreakpoint(i)
                                             ELSE trace[i + 1].depth <= target}))
     \/ /\ ~loaded \/ index >= Len(trace)
        /\ session' = "terminated" /\ UNCHANGED index
  /\ UNCHANGED <<launchVars, breakpoints>>

(* handleTerminate. *)
Terminate ==
  /\ session \in {"launched", "stopped"}
  /\ session' = "terminated"
  /\ UNCHANGED <<launchVars, index, breakpoints>>
-----------------------------------------------------------------------------
Init ==
  /\ frames = <<"entry">> /\ trace = <<>> /\ session = "running EVM"
  /\ casting = FALSE /\ known \in {{}, {"entry", "aux"}}
  /\ index = 0 /\ loaded = FALSE /\ stream = <<>> /\ breakpoints = {}

Next ==
  \/ EvmOpcode \/ EvmCall \/ EvmCreate \/ EvmReturn
  \/ LaunchFile \/ LaunchNothing \/ LaunchHash \/ Fetched
  \/ SetBreakpoints \/ Continue \/ Step \/ StepOut \/ Terminate

Spec == Init /\ [][Next]_vars
-----------------------------------------------------------------------------
TypeOK ==
  /\ frames \in Seq(Contracts) /\ Len(frames) <= MaxDepth
  /\ session \in {"running EVM", "launched", "stopped", "terminated"}
  /\ index \in 0..Len(trace) /\ {loaded, casting} \subseteq BOOLEAN
  /\ breakpoints \subseteq Sites
  /\ loaded => Len(stream) = Len(trace)

(* Each opcode is mapped with the artifact of the contract that executed it,
   through nested calls, calls that reach no code, creations and returns; only
   a call back into the entry contract gets no artifact. *)
ContextIsRight ==
  loaded => \A i \in DOMAIN trace :
              \/ stream[i] = Context(trace[i].who)
              \/ stream[i] = "none" /\ trace[i].who = "entry" /\ trace[i].depth > 1

(* Continue and Step never pass an opcode on a line with a breakpoint. *)
NoBreakpointPassed ==
  [][StepOut \/ \A i \in index + 1..index' - 1 : ~MatchesBreakpoint(i)]_vars
============================================================================
