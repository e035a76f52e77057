---------------------------- MODULE WorkerSlots ----------------------------
(***************************************************************************)
(* What ParserPool promises its callers: Size slots, given to callers in   *)
(* the order they asked, each slot passed on directly to the caller that   *)
(* has waited longest, until the pool is closed; closing turns away the    *)
(* callers that still wait and lets the served ones finish.                *)
(***************************************************************************)
EXTENDS Naturals, Sequences

CONSTANTS Size, Calls

VARIABLES free,      \* how many slots nobody uses
          queue,     \* the callers that wait, first come first
          serving,   \* the callers that have a slot
          finished,  \* the callers that were served or turned away
          closed     \* whether the pool was closed

vars == <<free, queue, serving, finished, closed>>

Queued == {queue[i] : i \in DOMAIN queue}
Fresh(c) == c \notin Queued \cup serving \cup finished

Init == /\ free = Size
        /\ queue = <<>>
        /\ serving = {}
        /\ finished = {}
        /\ closed = FALSE

(* A caller gets a free slot, or joins the queue only if there is none. *)
Serve(c) == /\ Fresh(c) /\ free > 0
            /\ free' = free - 1
            /\ serving' = serving \cup {c}
            /\ UNCHANGED <<queue, finished, closed>>

Enqueue(c) == /\ Fresh(c) /\ free = 0 /\ ~closed
              /\ queue' = Append(queue, c)
              /\ UNCHANGED <<free, serving, finished, closed>>

TurnAway(c) == /\ Fresh(c) /\ closed
               /\ finished' = finished \cup {c}
               /\ UNCHANGED <<free, queue, serving, closed>>

(* A served caller leaves: its slot goes to the head of the queue. *)
PassOn(c) == /\ c \in serving /\ queue # <<>>
             /\ serving' = (serving \ {c}) \cup {Head(queue)}
             /\ queue' = Tail(queue)
             /\ finished' = finished \cup {c}
             /\ UNCHANGED <<free, closed>>

Leave(c) == /\ c \in serving /\ queue = <<>>
            /\ serving' = serving \ {c}
            /\ finished' = finished \cup {c}
            /\ free' = IF closed THEN free ELSE free + 1
            /\ UNCHANGED <<queue, closed>>

Close == /\ ~closed
         /\ closed' = TRUE
         /\ free' = 0
         /\ finished' = finished \cup Queued
         /\ queue' = <<>>
         /\ UNCHANGED serving

Next == \/ \E c \in Calls : Serve(c) \/ Enqueue(c) \/ TurnAway(c) \/ PassOn(c) \/ Leave(c)
        \/ Close

Spec == Init /\ [][Next]_vars
=============================================================================
