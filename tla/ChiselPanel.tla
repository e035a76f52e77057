---------------------------- MODULE ChiselPanel ----------------------------
(***************************************************************************)
(* The Chisel REPL panel of the extension: a webview that drives one       *)
(* `chisel` subprocess over pipes.  The subprocess prints no prompt when   *)
(* its output is a pipe, so an expression is paired with the output that   *)
(* follows it by a quiet window: once stdout has been silent for 250 ms,   *)
(* whatever is buffered is the result of the oldest pending expression.    *)
(*                                                                         *)
(* Expressions are numbered in the order they are sent and subprocesses in *)
(* the order they are spawned.  An output is the number of the expression  *)
(* that chisel printed it for, which is what the pairing cannot see.       *)
(***************************************************************************)
EXTENDS Naturals, Sequences, SequencesExt, FiniteSets

CONSTANTS MaxSpawns,   \* bound on subprocesses
          MaxExprs     \* bound on expressions

Procs  == 1..MaxSpawns
Exprs  == 1..MaxExprs
None   == 0
Banner == MaxExprs + 1

VARIABLES
  active,      \* the extension is activated
  panel,       \* this.panel is set
  process,     \* this.process, None when undefined
  spawned,     \* number of subprocesses spawned; the last owns this.outputBuffer
  pst,         \* subprocess -> "none", "starting", "live", "term", "dead" or "failed"
  input,       \* subprocess -> expressions written to its stdin
  out, err,    \* subprocess -> what is in its output pipes
  buf,         \* subprocess -> what its ChiselOutputBuffer holds
  ready,       \* subprocesses whose banner was seen
  pending,     \* this.pending
  quietTimer,  \* a quiet-window flush is armed
  restarting,  \* subprocesses a restart awaits the exit of
  selections,  \* expressions of sendSelection awaiting the banner
  cards,       \* <<expression, outputs>> of each result, None when unpaired
  sentTo,      \* the subprocess each expression was written to
  overlapped,  \* history: a spawn replaced a subprocess that was running
  muddled      \* history: an expression was sent with another one unsettled

vars == <<active, panel, process, spawned, pst, input, out, err, buf, ready, pending,
          quietTimer, restarting, selections, cards, sentTo, overlapped, muddled>>
procVars == <<input, out, err, buf, ready>>
resultVars == <<pending, cards>>
sendVars == <<sentTo, muddled>>

\* exitCode is set by an exit and by a failed spawn, not by a signal; the exit
\* handler clears this.process.
Running(p) == p # None /\ pst[p] \in {"starting", "live", "term"}

\* No output of e can appear any more, and it has its card or a spawn dropped it.
Settled(e) ==
  /\ \A p \in Procs : /\ e \in Range(input[p]) => pst[p] \in {"dead", "failed"}
                      /\ e \notin Range(out[p]) \cup Range(err[p]) \cup Range(buf[p])
  /\ e \in {c[1] : c \in cards} \/ sentTo[e] # process

\* A card per result, under the expressions that are pending, oldest first.
Shown(results) ==
  cards \cup {<<IF i <= Len(pending) THEN pending[i] ELSE None, results[i]>> : i \in DOMAIN results}

\* consumeResult for each result: its expression is no longer pending.
Consume(results) ==
  /\ pending' = SubSeq(pending, Len(results) + 1, Len(pending))
  /\ cards' = Shown(results)

(***************************************************************************)
(* spawnChisel: a new subprocess with an empty buffer and nothing pending, *)
(* whatever this.process was; the expressions es are written to it.        *)
(***************************************************************************)
Spawn(es, closing) ==
  LET p == spawned + 1
  IN  /\ spawned < MaxSpawns
      /\ spawned' = p
      /\ pst' = [closing EXCEPT ![p] = "starting"]
      /\ process' = p
      /\ pending' = es
      /\ input' = [input EXCEPT ![p] = es]
      /\ overlapped' = (overlapped \/ (process # None /\ closing[process] \in {"starting", "live"}))

(***************************************************************************)
(* evaluate, for each expression of es: spawn if nothing is running, then  *)
(* push the expression and write it.                                       *)
(***************************************************************************)
Evaluate(es) ==
  /\ muddled' = (muddled \/ Len(es) > 1 \/ \E e \in DOMAIN sentTo : ~Settled(e))
  /\ \/ /\ Running(process)
        /\ pending' = pending \o es
        /\ input' = [input EXCEPT ![process] = @ \o es]
        /\ sentTo' = [e \in DOMAIN sentTo \cup Range(es) |-> IF e \in Range(es) THEN process ELSE sentTo[e]]
        /\ UNCHANGED <<spawned, pst, process, overlapped>>
     \/ /\ ~Running(process)
        /\ Spawn(es, pst)
        /\ sentTo' = [e \in DOMAIN sentTo \cup Range(es) |-> IF e \in Range(es) THEN spawned + 1 ELSE sentTo[e]]

\* The next expression's number: those sent and those awaiting the banner are taken.
NextExpr == Cardinality(DOMAIN sentTo) + Len(selections) + 1
-----------------------------------------------------------------------------
(* The webview's "evaluate" and "rerun" messages. *)
OnEvaluate ==
  /\ active /\ panel /\ NextExpr <= MaxExprs
  /\ selections = <<>>
  /\ Evaluate(<<NextExpr>>)
  /\ UNCHANGED <<active, panel, out, err, buf, ready, quietTimer, restarting, selections, cards>>

(* chisel.start and chisel.startFork. *)
Start ==
  /\ active
  /\ ~panel \/ ~Running(process)
  /\ panel' = TRUE
  /\ Spawn(<<>>, pst)
  /\ UNCHANGED <<active, out, err, buf, ready, quietTimer, restarting, selections, cards, sendVars>>

(* chisel.sendSelection: at once when a subprocess runs behind an open panel,
   otherwise start one and wait at most five seconds for its banner. *)
SendSelection ==
  /\ active /\ NextExpr <= MaxExprs
  /\ \/ /\ panel /\ Running(process)
        /\ selections = <<>>
        /\ Evaluate(<<NextExpr>>)
        /\ UNCHANGED <<panel, selections>>
     \/ /\ ~panel \/ ~Running(process)
        /\ panel' = TRUE
        /\ Spawn(<<>>, pst)
        /\ selections' = Append(selections, NextExpr)
        /\ UNCHANGED sendVars
  /\ UNCHANGED <<active, out, err, buf, ready, quietTimer, restarting, cards>>

(* The five seconds are over: the selection is dropped with a warning. *)
ReadyTimeout ==
  /\ active /\ selections # <<>>
  /\ selections' = Front(selections)
  /\ UNCHANGED <<active, panel, process, spawned, pst, procVars, resultVars, quietTimer,
                 restarting, sendVars, overlapped>>

\* terminate, up to its wait for the exit: forget the process, then SIGTERM.
Told == IF Running(process) THEN [pst EXCEPT ![process] = "term"] ELSE pst

(* The webview's "restart": terminate, wait for the exit (or a second), spawn. *)
Restart ==
  /\ active /\ panel
  /\ quietTimer' = FALSE
  /\ \/ /\ Running(process)
        /\ pst' = Told /\ process' = None
        /\ restarting' = restarting \cup {process}
        /\ UNCHANGED <<spawned, pending, input, overlapped>>
     \/ /\ ~Running(process)
        /\ Spawn(<<>>, pst)
        /\ UNCHANGED restarting
  /\ UNCHANGED <<active, panel, out, err, buf, ready, selections, cards, sendVars>>

(* A second after SIGTERM: SIGKILL, and the restart goes on before the exit. *)
KillTimeout(p) ==
  /\ active /\ p \in restarting /\ pst[p] = "term"
  /\ restarting' = restarting \ {p}
  /\ Spawn(<<>>, pst)
  /\ UNCHANGED <<active, panel, out, err, buf, ready, quietTimer, selections, cards, sendVars>>

(* onDidDispose of the panel. *)
Dispose ==
  /\ active /\ panel
  /\ panel' = FALSE
  /\ pst' = Told /\ process' = None /\ quietTimer' = FALSE
  /\ UNCHANGED <<active, spawned, procVars, resultVars, restarting, selections, sendVars, overlapped>>

(* The extension is deactivated: terminate, and no timer fires afterwards. *)
Deactivate ==
  /\ active
  /\ active' = FALSE
  /\ pst' = Told /\ process' = None /\ quietTimer' = FALSE
  /\ UNCHANGED <<panel, spawned, procVars, resultVars, restarting, selections, sendVars, overlapped>>
-----------------------------------------------------------------------------
(* chisel starts and prints its banner. *)
Begin(p) ==
  /\ active /\ pst[p] = "starting"
  /\ pst' = [pst EXCEPT ![p] = "live"]
  /\ out' = [out EXCEPT ![p] = <<Banner>>]
  /\ UNCHANGED <<active, panel, process, spawned, input, err, buf, ready, resultVars, quietTimer,
                 restarting, selections, sendVars, overlapped>>

(* chisel cannot be started: "error" is emitted, this.process stays. *)
SpawnFails(p) ==
  /\ active /\ pst[p] = "starting"
  /\ pst' = [pst EXCEPT ![p] = "failed"]
  /\ input' = [input EXCEPT ![p] = <<>>]
  /\ UNCHANGED <<active, panel, process, spawned, out, err, buf, ready, resultVars, quietTimer,
                 restarting, selections, sendVars, overlapped>>

(* chisel reads an expression: a value is printed on stdout, a diagnostic on
   stderr, and a statement prints nothing. *)
Reply(p) ==
  /\ active /\ pst[p] \in {"live", "term"} /\ input[p] # <<>>
  /\ LET e == Head(input[p])
     IN  \E toOut, toErr \in {<<>>, <<e>>} :
           /\ out' = [out EXCEPT ![p] = @ \o toOut]
           /\ err' = [err EXCEPT ![p] = @ \o toErr]
  /\ input' = [input EXCEPT ![p] = Tail(@)]
  /\ UNCHANGED <<active, panel, process, spawned, pst, buf, ready, resultVars, quietTimer,
                 restarting, selections, sendVars, overlapped>>

(* stdout "data": buffer it and arm the quiet window.  The banner resolves
   every selection that waits, each of which is then evaluated. *)
Stdout(p) ==
  /\ active /\ out[p] # <<>>
  /\ out' = [out EXCEPT ![p] = Tail(@)]
  /\ quietTimer' = TRUE
  /\ \/ /\ Head(out[p]) # Banner
        /\ buf' = [buf EXCEPT ![p] = Append(@, Head(out[p]))]
        /\ UNCHANGED <<ready, selections, process, spawned, pst, input, pending, overlapped, sendVars>>
     \/ /\ Head(out[p]) = Banner
        /\ ready' = ready \cup {p}
        /\ selections' = <<>>
        /\ \/ selections # <<>> /\ Evaluate(selections)
           \/ /\ selections = <<>>
              /\ UNCHANGED <<process, spawned, pst, input, pending, overlapped, sendVars>>
        /\ UNCHANGED buf
  /\ UNCHANGED <<active, panel, err, restarting, cards>>

(* stderr "data": a result of its own. *)
Stderr(p) ==
  /\ active /\ err[p] # <<>>
  /\ err' = [err EXCEPT ![p] = Tail(@)]
  /\ Consume(<< <<Head(err[p])>> >>)
  /\ UNCHANGED <<active, panel, process, spawned, pst, input, out, buf, ready, quietTimer,
                 restarting, selections, sendVars, overlapped>>

(* The quiet window passes: drainOnce on the buffer of the last spawn. *)
QuietFlush ==
  /\ active /\ quietTimer
  /\ quietTimer' = FALSE
  /\ \/ /\ buf[spawned] # <<>>
        /\ buf' = [buf EXCEPT ![spawned] = <<>>]
        /\ Consume(<<buf[spawned]>>)
     \/ buf[spawned] = <<>> /\ UNCHANGED <<buf, resultVars>>
  /\ UNCHANGED <<active, panel, process, spawned, pst, input, out, err, ready, restarting,
                 selections, sendVars, overlapped>>

(* Mutant of ForgetProcess: any exit clears this.process. *)
ForgetAny(p) == None

\* The exit handler clears this.process only if it is still this subprocess.
ForgetProcess(p) == IF process = p THEN None ELSE process

(* "exit": clear this.process, split what is buffered into results, and let
   the restart that waits for it spawn. *)
Exit(p) ==
  /\ active /\ pst[p] \in {"live", "term"}
  /\ LET results == [i \in DOMAIN buf[p] |-> <<buf[p][i]>>]
         dead    == [pst EXCEPT ![p] = "dead"]
     IN  \/ /\ p \in restarting
            /\ restarting' = restarting \ {p}
            /\ cards' = Shown(results)
            /\ Spawn(<<>>, dead)
         \/ /\ p \notin restarting
            /\ process' = ForgetProcess(p)
            /\ pst' = dead
            /\ Consume(results)
            /\ UNCHANGED <<input, restarting, spawned, overlapped>>
  /\ buf' = [buf EXCEPT ![p] = <<>>]
  /\ UNCHANGED <<active, panel, out, err, ready, quietTimer, selections, sendVars>>
-----------------------------------------------------------------------------
Init ==
  /\ active = TRUE /\ panel = FALSE /\ process = None /\ spawned = 0
  /\ pst = [p \in Procs |-> "none"]
  /\ input = [p \in Procs |-> <<>>]
  /\ out = [p \in Procs |-> <<>>] /\ err = [p \in Procs |-> <<>>]
  /\ buf = [p \in Procs |-> <<>>] /\ ready = {}
  /\ pending = <<>> /\ quietTimer = FALSE /\ restarting = {} /\ selections = <<>>
  /\ cards = {} /\ sentTo = <<>> /\ overlapped = FALSE /\ muddled = FALSE

Next ==
  \/ OnEvaluate \/ Start \/ SendSelection \/ ReadyTimeout \/ Restart \/ Dispose \/ Deactivate
  \/ QuietFlush
  \/ \E p \in Procs : \/ KillTimeout(p) \/ Begin(p) \/ SpawnFails(p) \/ Reply(p)
                      \/ Stdout(p) \/ Stderr(p) \/ Exit(p)

Spec == Init /\ [][Next]_vars
-----------------------------------------------------------------------------
TypeOK ==
  /\ {active, panel, quietTimer, overlapped, muddled} \subseteq BOOLEAN
  /\ process \in 0..spawned /\ spawned \in 0..MaxSpawns
  /\ pst \in [Procs -> {"none", "starting", "live", "term", "dead", "failed"}]
  /\ Range(pending) \subseteq Exprs /\ Range(selections) \subseteq Exprs
  /\ restarting \subseteq {p \in Procs : pst[p] = "term"}
  /\ DOMAIN sentTo \subseteq Exprs

(* A subprocess that was not told to die is the one the panel holds, and can
   therefore still be told to: by closing the panel, by a restart, by the
   deactivation of the extension.  The exception is a spawn over a running
   subprocess, which a restart does when something was started while it
   waited. *)
HeldOrTold == overlapped \/ \A p \in Procs : pst[p] \in {"starting", "live"} => p = process

(* As long as each expression is sent only once the one before it is settled,
   a result shown under an expression is output of that expression. *)
PairedWhenSerial ==
  muddled \/ \A c \in cards : c[1] # None => Range(c[2]) = {c[1]}

(* However evaluations, restarts, exits and the panel's closing cross, every
   expression of a living panel is pending or was answered, and results are
   shown under their expressions, but for the exceptions above.
   About evaluate, restart, consumeResult and the handlers of the subprocess. *)
EvaluationsAreKept == HeldOrTold /\ PairedWhenSerial
=============================================================================
