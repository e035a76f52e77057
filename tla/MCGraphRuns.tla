----------------------------- MODULE MCGraphRuns -----------------------------
(***************************************************************************)
(* The Project Graph's schedule after the start-up, as the constants give  *)
(* it, and from a fresh start, with a dependency that does not exist at    *)
(* first and batches of one file.                                         *)
(***************************************************************************)
EXTENDS MCGraphSchedule

VARIABLES part,
          created    \* the files created after the start-up

Fresh == INSTANCE GraphSchedule WITH
           Start <- "fresh", BatchSize <- 1, Missing <- {c}, Modes <- AutoModes,
           Moves <- {"edit", "create", "delete", "search", "rebuild"}

RunsInit == /\ created = {}
            /\ \/ part = "steady" /\ Init
               \/ part = "fresh" /\ Fresh!Init
RunsNext == \/ part = "steady" /\ Next /\ created' = created \cup (existing' \ existing) /\ UNCHANGED part
            \/ part = "fresh" /\ Fresh!Next /\ UNCHANGED <<part, created>>
runsVars == <<part, created, vars>>

(* FairSpec of GraphSchedule, after the start-up. *)
RunsSpec ==
  /\ RunsInit /\ [][RunsNext]_runsVars
  /\ WF_runsVars(part = "steady" /\ (\E t \in timers.armed : RunBatch(t)) /\ UNCHANGED <<part, created>>)
  /\ WF_runsVars(part = "steady" /\ Initialized /\ UNCHANGED <<part, created>>)
  /\ WF_runsVars(part = "steady" /\ (\E r \in {"blocking", "background", "declarationsOnly"} : RebuildEnd(r)) /\ UNCHANGED <<part, created>>)
  /\ \A f \in Files : WF_runsVars(part = "steady" /\ (SweepFile(f) \/ WalkDone(f)) /\ UNCHANGED <<part, created>>)
  /\ \A q \in Queries : WF_runsVars(part = "steady" /\ QueryStep(q, FALSE) /\ UNCHANGED <<part, created>>)
-----------------------------------------------------------------------------
(* The types of both; a part of GraphIsCurrent. *)
RunsTypeOK == IF part = "steady" THEN TypeOK ELSE Fresh!TypeOK

(* The queue has each file once and none that is indexed; after the start-up
   the nodes and import edges are of files that exist and of their texts, what
   is counted as indexed has its relationships, and an edge is missing only
   where MayMiss says so.
   About indexRelationshipBatch and refreshFileAndDependents. *)
GraphIsCurrent ==
  RunsTypeOK /\ QueueMatches /\ (part = "steady" => IndexedHasEdges(created) /\ ImportEdgesMatch(created))

(* After the start-up the queue has every file that is not indexed, and one
   chain of timers works it off, or none.
   About scheduleGraphRelationshipIndex, drainGraphRelationshipIndexForQuery
   and the handlers that queue files. *)
QueueIsDriven == part = "steady" => NothingForgotten /\ OneBackground

(* After the start-up the background comes to rest once every listed file
   exists and nobody changes anything, and every query that waits is answered.
   About runBatch, and a drain that gives up when it makes no progress. *)
BackgroundAndDrainsEnd ==
  /\ part = "steady" /\ timers.armed # {} ~> timers.armed = {} \/ ~(listed \subseteq existing)
  /\ \A q \in Queries : part = "steady" /\ drain[q].at = "waiting" ~> drain[q].at = "done"
=============================================================================
