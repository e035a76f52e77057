----------------------------- MODULE ParserPool -----------------------------
(***************************************************************************)
(* The pool of parser worker threads (parser/parser-pool.ts) as its        *)
(* callers on the main thread see it.                                      *)
(*                                                                         *)
(* A call is one invocation of parse(uri, text).  Its life on the main     *)
(* thread is pc[c]:                                                        *)
(*    "new"       not made yet                                             *)
(*    "waiting"   its resolver is in the waiters queue                     *)
(*    "granted"   acquire() resolved, its continuation is a microtask      *)
(*    "running"   listeners attached to holds[c], request posted           *)
(*    "answered"  runOnWorker resolved, the finally block is a microtask   *)
(*    "failed"    runOnWorker rejected, the finally block is a microtask   *)
(*    "resolved", "rejected"  how the promise of parse() settled           *)
(* Microtasks run before the event loop takes its next task, so the tasks  *)
(* (delivery of a worker's event, terminate()) wait for NoMicrotask; the   *)
(* worker threads run at any time.                                         *)
(***************************************************************************)
EXTENDS Naturals, Sequences

CONSTANTS Size,           \* how many workers the constructor creates
          Calls,          \* the parse() calls made during the pool's life
          MaxCrashes,     \* bound: worker threads that die while parsing
          MayTerminate    \* whether the server shuts the pool down

ASSUME PoolAssumption == /\ Size \in Nat \ {0}    \* the constructor throws on 0
                         /\ MaxCrashes \in Nat
                         /\ MayTerminate \in BOOLEAN

VARIABLES idle,       \* the idle workers, a stack that grows at its end
          waiters,    \* the calls waiting for a worker, first come first
          poolState,  \* "open"; "terminating" until every thread exited
          pc,         \* where each call stands (above)
          holds,      \* the worker a call was handed, or NoWorker
          alive,      \* whether the worker's thread still runs
          inbox,      \* requests posted to a worker and not handled
          outbox,     \* events a worker emitted and not delivered
          crashes     \* worker threads that died so far

vars == <<idle, waiters, poolState, pc, holds, alive, inbox, outbox, crashes>>
mainVars   == <<idle, waiters, poolState, pc, holds>>
threadVars == <<alive, inbox, outbox, crashes>>

Workers  == 1..Size   \* indices into the workers array
NoWorker == 0         \* what terminate() hands to a waiter: undefined

CallState == {"new", "waiting", "granted", "running",
              "answered", "failed", "resolved", "rejected"}
Event == [call : Calls, kind : {"ok", "workerError", "error"}]

terminated  == poolState # "open"
Settled(c)  == pc[c] \in {"resolved", "rejected"}
NoMicrotask == \A c \in Calls : pc[c] \notin {"granted", "answered", "failed"}
Listeners(w) == {c \in Calls : pc[c] = "running" /\ holds[c] = w}
-----------------------------------------------------------------------------
(* parse() up to its first await: it throws on a terminated pool, takes    *)
(* the last idle worker, or queues.                                        *)
ParseRefused(c) ==
  /\ terminated
  /\ pc' = [pc EXCEPT ![c] = "rejected"]
  /\ UNCHANGED <<idle, waiters, holds>>

(* Mutant of AcquireIdle: peeks at the last idle worker, does not pop it. *)
AcquireByPeeking(c) ==
  /\ ~terminated /\ idle # <<>>
  /\ holds' = [holds EXCEPT ![c] = idle[Len(idle)]]
  /\ pc' = [pc EXCEPT ![c] = "granted"]
  /\ UNCHANGED <<idle, waiters>>

AcquireIdle(c) ==
  /\ ~terminated /\ idle # <<>>
  /\ idle' = SubSeq(idle, 1, Len(idle) - 1)
  /\ holds' = [holds EXCEPT ![c] = idle[Len(idle)]]
  /\ pc' = [pc EXCEPT ![c] = "granted"]
  /\ UNCHANGED waiters

AcquireWait(c) ==
  /\ ~terminated /\ idle = <<>>
  /\ waiters' = Append(waiters, c)
  /\ pc' = [pc EXCEPT ![c] = "waiting"]
  /\ UNCHANGED <<idle, holds>>

Parse(c) ==
  /\ pc[c] = "new"
  /\ ParseRefused(c) \/ AcquireIdle(c) \/ AcquireWait(c)
  /\ UNCHANGED <<poolState, threadVars>>

(* runOnWorker(): listeners first, then the request.  A dead thread drops  *)
(* what is posted to it; without a worker the executor throws.             *)
Post(c) ==
  /\ holds[c] # NoWorker
  /\ pc' = [pc EXCEPT ![c] = "running"]
  /\ inbox' = [inbox EXCEPT ![holds[c]] = IF alive[holds[c]] THEN Append(@, c) ELSE @]

PostFails(c) ==
  /\ holds[c] = NoWorker
  /\ pc' = [pc EXCEPT ![c] = "failed"]
  /\ UNCHANGED inbox

RunOnWorker(c) ==
  /\ pc[c] = "granted"
  /\ Post(c) \/ PostFails(c)
  /\ UNCHANGED <<idle, waiters, poolState, holds, alive, outbox, crashes>>

(* The finally block of parse(): release() returns at once on a terminated *)
(* pool, hands the worker to the first waiter, or makes it idle again.     *)
Outcome(c) == IF pc[c] = "answered" THEN "resolved" ELSE "rejected"

(* Mutant of HandOver: the last waiter, not the first, is served. *)
HandOverToLast(c) ==
  /\ ~terminated /\ waiters # <<>>
  /\ waiters' = SubSeq(waiters, 1, Len(waiters) - 1)
  /\ holds' = [holds EXCEPT ![c] = NoWorker, ![waiters[Len(waiters)]] = holds[c]]
  /\ pc' = [pc EXCEPT ![c] = Outcome(c), ![waiters[Len(waiters)]] = "granted"]
  /\ UNCHANGED idle

HandOver(c) ==
  /\ ~terminated /\ waiters # <<>>
  /\ waiters' = Tail(waiters)
  /\ holds' = [holds EXCEPT ![c] = NoWorker, ![Head(waiters)] = holds[c]]
  /\ pc' = [pc EXCEPT ![c] = Outcome(c), ![Head(waiters)] = "granted"]
  /\ UNCHANGED idle

BackToIdle(c) ==
  /\ ~terminated /\ waiters = <<>>
  /\ idle' = Append(idle, holds[c])
  /\ holds' = [holds EXCEPT ![c] = NoWorker]
  /\ pc' = [pc EXCEPT ![c] = Outcome(c)]
  /\ UNCHANGED waiters

(* Mutant of ReleaseAfterTerminate: no test of the terminated flag. *)
ReleaseRegardless(c) ==
  /\ terminated
  /\ idle' = Append(idle, holds[c])
  /\ holds' = [holds EXCEPT ![c] = NoWorker]
  /\ pc' = [pc EXCEPT ![c] = Outcome(c)]
  /\ UNCHANGED waiters

ReleaseAfterTerminate(c) ==
  /\ terminated
  /\ holds' = [holds EXCEPT ![c] = NoWorker]
  /\ pc' = [pc EXCEPT ![c] = Outcome(c)]
  /\ UNCHANGED <<idle, waiters>>

Release(c) == HandOver(c) \/ BackToIdle(c) \/ ReleaseAfterTerminate(c)

(* Mutant of Settle: the release is not in a finally block. *)
SettleWithoutFinally(c) ==
  /\ pc[c] \in {"answered", "failed"}
  /\ IF pc[c] = "answered"
     THEN Release(c)
     ELSE pc' = [pc EXCEPT ![c] = "rejected"] /\ UNCHANGED <<idle, waiters, holds>>
  /\ UNCHANGED <<poolState, threadVars>>

Settle(c) ==
  /\ pc[c] \in {"answered", "failed"}
  /\ Release(c)
  /\ UNCHANGED <<poolState, threadVars>>
-----------------------------------------------------------------------------
(* The worker thread (parser-worker.ts): it answers each request; parse    *)
(* errors are part of an "ok" answer, "workerError" is a caught exception. *)
Handle(w) ==
  /\ alive[w] /\ inbox[w] # <<>>
  /\ inbox' = [inbox EXCEPT ![w] = Tail(@)]
  /\ \E kind \in {"ok", "workerError"} :
       outbox' = [outbox EXCEPT ![w] = Append(@, [call |-> Head(inbox[w]), kind |-> kind])]
  /\ UNCHANGED <<mainVars, alive, crashes>>

(* The thread dies while it parses (out of memory, say): node emits        *)
(* "error" on the main thread and drops the rest of the inbox.             *)
Crash(w) ==
  /\ alive[w] /\ inbox[w] # <<>> /\ crashes < MaxCrashes
  /\ alive' = [alive EXCEPT ![w] = FALSE]
  /\ outbox' = [outbox EXCEPT ![w] = Append(@, [call |-> Head(inbox[w]), kind |-> "error"])]
  /\ inbox' = [inbox EXCEPT ![w] = <<>>]
  /\ crashes' = crashes + 1
  /\ UNCHANGED mainVars

(* The event loop delivers a worker's next event: every attached onMessage *)
(* or onError cleans up and settles its own promise; onMessage rejects an  *)
(* answer that is not its own.                                             *)
Deliver(w) ==
  /\ NoMicrotask /\ outbox[w] # <<>>
  /\ LET e == Head(outbox[w])
     IN  pc' = [c \in Calls |-> IF c \notin Listeners(w) THEN pc[c]
                               ELSE IF e.kind = "ok" /\ e.call = c THEN "answered"
                               ELSE "failed"]
  /\ outbox' = [outbox EXCEPT ![w] = Tail(@)]
  /\ UNCHANGED <<idle, waiters, poolState, holds, alive, inbox, crashes>>
-----------------------------------------------------------------------------
(* terminate(): every waiter is resolved with no worker, then all threads  *)
(* are stopped; the arrays are emptied once the last one has exited.  A    *)
(* second call returns at once.                                            *)
Waiting == {waiters[i] : i \in DOMAIN waiters}

Terminate ==
  /\ MayTerminate /\ NoMicrotask /\ ~terminated
  /\ poolState' = "terminating"
  /\ waiters' = <<>>
  /\ pc' = [c \in Calls |-> IF c \in Waiting THEN "granted" ELSE pc[c]]
  /\ UNCHANGED <<idle, holds, threadVars>>

Exit(w) ==
  /\ terminated /\ alive[w]
  /\ alive' = [alive EXCEPT ![w] = FALSE]
  /\ inbox' = [inbox EXCEPT ![w] = <<>>]
  /\ UNCHANGED <<mainVars, outbox, crashes>>

TerminateDone ==
  /\ NoMicrotask /\ poolState = "terminating" /\ \A w \in Workers : ~alive[w]
  /\ poolState' = "terminated"
  /\ idle' = <<>>
  /\ UNCHANGED <<waiters, pc, holds, threadVars>>
-----------------------------------------------------------------------------
Init ==
  /\ idle = [i \in Workers |-> i]
  /\ waiters = <<>>
  /\ poolState = "open"
  /\ pc = [c \in Calls |-> "new"]
  /\ holds = [c \in Calls |-> NoWorker]
  /\ alive = [w \in Workers |-> TRUE]
  /\ inbox = [w \in Workers |-> <<>>]
  /\ outbox = [w \in Workers |-> <<>>]
  /\ crashes = 0

Next ==
  \/ \E c \in Calls : Parse(c) \/ RunOnWorker(c) \/ Settle(c)
  \/ \E w \in Workers : Handle(w) \/ Crash(w) \/ Deliver(w) \/ Exit(w)
  \/ Terminate \/ TerminateDone

Spec == Init /\ [][Next]_vars

(* The event loop runs its microtasks and delivers events, and a living    *)
(* thread answers; nobody has to call parse() or terminate(), or crash.    *)
Fairness ==
  /\ \A c \in Calls : WF_vars(RunOnWorker(c)) /\ WF_vars(Settle(c))
  /\ \A w \in Workers : WF_vars(Handle(w)) /\ WF_vars(Deliver(w))

FairSpec == Spec /\ Fairness
-----------------------------------------------------------------------------
(* Type invariant: what each variable may hold, in particular that only    *)
(* workers ever become idle (release() after terminate() holds none).      *)
TypeOK ==
  /\ idle \in Seq(Workers)
  /\ waiters \in Seq(Calls)
  /\ poolState \in {"open", "terminating", "terminated"}
  /\ pc \in [Calls -> CallState]
  /\ holds \in [Calls -> Workers \cup {NoWorker}]
  /\ alive \in [Workers -> BOOLEAN]
  /\ inbox \in [Workers -> Seq(Calls)]
  /\ outbox \in [Workers -> Seq(Event)]
  /\ crashes \in Nat

(* "One worker handles one parse at a time": no two calls hold the same    *)
(* worker, an idle worker is held by nobody, and none is idle twice.       *)
OneParsePerWorker ==
  /\ \A c, d \in Calls : holds[c] = holds[d] /\ holds[c] # NoWorker => c = d
  /\ \A i \in DOMAIN idle : \A c \in Calls : holds[c] # idle[i]
  /\ \A i, j \in DOMAIN idle : idle[i] = idle[j] => i = j

(* No worker is lost: until terminate() each one is idle or held by a call *)
(* that has yet to settle, whatever the outcomes of the parses it ran.     *)
NoWorkerLost ==
  ~terminated => \A w \in Workers : \/ \E i \in DOMAIN idle : idle[i] = w
                                    \/ \E c \in Calls : holds[c] = w /\ ~Settled(c)

(* A caller queues only while every worker is busy, and the queue is empty *)
(* for good once the pool is terminated.                                   *)
QueueOnlyWhenBusy == waiters # <<>> => idle = <<>> /\ ~terminated

(* "One parse = one worker = one response": whatever a worker has been     *)
(* asked or has answered belongs to the one call that listens to it now,   *)
(* so an answer never reaches another caller's promise.                    *)
OneResponsePerParse ==
  \A w \in Workers :
    /\ Len(inbox[w]) + Len(outbox[w]) <= 1
    /\ \A i \in DOMAIN inbox[w]  : Listeners(w) = {inbox[w][i]}
    /\ \A i \in DOMAIN outbox[w] : Listeners(w) = {outbox[w][i].call}

(* A worker serves one call at a time, none is lost, and its answers reach *)
(* the call it serves, whatever order calls, answers, failures and the     *)
(* shutdown come in.  About parse, runOnWorker and release.                *)
WorkersServeOneCall == OneParsePerWorker /\ NoWorkerLost /\ OneResponsePerParse

(* Every parse() settles, also after parses that failed, unless a thread   *)
(* dies or the pool is shut down in between.                               *)
ParsesSettle == \A c \in Calls : pc[c] # "new" ~> Settled(c) \/ crashes > 0 \/ terminated

(* Every parse() settles, whatever happens to a thread. *)
EveryParseSettles == \A c \in Calls : pc[c] # "new" ~> Settled(c)

(* What the pool promises: a fair first-come-first-served set of slots.  A *)
(* call is served while it holds a worker, and finished from the moment it *)
(* is turned away or gives its worker back.                                *)
Free     == IF terminated THEN 0 ELSE Len(idle)
Serving  == {c \in Calls : holds[c] # NoWorker}
Finished == {c \in Calls : Settled(c) \/ (pc[c] \in {"granted", "failed"} /\ holds[c] = NoWorker)}

Slots == INSTANCE WorkerSlots WITH free <- Free, queue <- waiters, serving <- Serving,
                                   finished <- Finished, closed <- terminated

ImplementsSlots == Slots!Spec
=============================================================================
