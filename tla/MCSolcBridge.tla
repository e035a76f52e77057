----------------------------- MODULE MCSolcBridge -----------------------------
(***************************************************************************)
(* Instances of SolcBridge for TLC: identifiers of one byte and a comment  *)
(* character of two.                                                       *)
(***************************************************************************)
EXTENDS SolcBridge, TLC

CONSTANTS f, g, x, y, c

TwoTexts == {<<x, y, y>>, <<c, x, y, y>>}
Width(token) == IF token \in Names THEN 1 ELSE 2
Widths == [t \in TwoTexts |-> [n \in 0 .. Len(t) |-> MapThenSumSet(LAMBDA i : Width(t[i]), 1 .. n)]]
FileSymmetry == Permutations(Files) \cup Permutations(Builds)
=============================================================================
