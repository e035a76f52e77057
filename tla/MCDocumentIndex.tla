--------------------------- MODULE MCDocumentIndex ---------------------------
(***************************************************************************)
(* Instances of DocumentIndex for TLC: two contracts, the first importing  *)
(* the second, and one dependency imported by both; batches of one file,   *)
(* so that other activities run between the batches of a sweep.            *)
(***************************************************************************)
EXTENDS DocumentIndex, TLC

CONSTANTS a, b, d

ThreeFiles == <<a, b, d>>
TwoFiles == <<a, d>>
Tree == [f \in Files |-> Files \cap (IF f = a THEN {b, d} ELSE IF f = b THEN {d} ELSE {})]
AllRoots == {Files}
MoreRoots == {Files, {a, d}}
SomeRoots == {{a}, {d}}
JobSymmetry == Permutations(Jobs)
=============================================================================
