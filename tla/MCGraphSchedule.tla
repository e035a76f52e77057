--------------------------- MODULE MCGraphSchedule ---------------------------
(***************************************************************************)
(* Instances of GraphSchedule for TLC: a chain of three files that import  *)
(* one another, the last one a dependency, and a triangle, where the first *)
(* imports the second and both import the third.                           *)
(***************************************************************************)
EXTENDS GraphSchedule

CONSTANTS a, b, c

InOrder == <<a, b, c>>
Chain == [f \in Files |-> IF f = a THEN {b} ELSE IF f = b THEN {c} ELSE {}]
Triangle == [f \in Files |-> IF f = a THEN {b, c} ELSE IF f = b THEN {c} ELSE {}]

(* UpdateAll is updateFile() for one file of the list after another. *)
ASSUME UpdatesAreInOrder ==
  \A D, P \in SUBSET Files, E \in SUBSET UNION {{f} \X Imports[f] : f \in Files} :
    \A list \in UNION {SetToSeqs(S) : S \in SUBSET Files} :
      LET G == [EmptyGraph EXCEPT !.declared = D, !.edges = E, !.indexed = D,
                                  !.related = Files, !.queue = Order, !.queued = Files]
      IN  UpdateAll(G, list, P, Files) = FoldLeft(LAMBDA H, f : UpdateFile(H, f, P, Files), G, list)

AutoOnly == {<<"auto", "disabled">>}
AutoModes == {<<"auto", "disabled">>, <<"auto", "relationships">>}
AllModes == {<<"auto", "disabled">>, <<"manual", "declarations">>, <<"auto", "relationships">>,
             <<"disabled", "disabled">>}
=============================================================================
