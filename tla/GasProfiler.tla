---------------------------- MODULE GasProfiler ----------------------------
(***************************************************************************)
(* The gas profiler: the tree of the costs in forge's .gas-snapshot, with  *)
(* what changed since the costs that were read before.  The costs read     *)
(* last are kept in the extension's state under "Contract::function": a    *)
(* refresh reads them, and sets them at once, then awaits that they are    *)
(* stored before it shows its tree; watcher events may start another       *)
(* refresh meanwhile.                                                      *)
(*                                                                         *)
(* A line of the snapshot is [contract, fn, params, gas].                  *)
(***************************************************************************)
EXTENDS Integers, Sequences, FiniteSets, SequencesExt, FiniteSetsExt

CONSTANTS
  Snapshots,          \* what forge may write: sequences of lines
  Editors,            \* [file -> the functions it declares whose names are marked as tests]
  MaxEvents, None

VARIABLES
  snapshot,           \* .gas-snapshot: [lines, or None; reported: whether a watcher event is due]
  previous,           \* the gas map in the extension's state
  awaiting,           \* the updates of it not yet stored, in order: refreshes and clears
  entries,            \* the tree: a sequence of contracts
  editor,             \* the active editor and its decorations
  told,               \* per key: its gas when first shown, and the changes shown since
  events

gasVars == <<snapshot, previous, awaiting, entries, editor, told, events>>
-----------------------------------------------------------------------------
Key(l) == <<l.contract, l.fn>>
FlatMap(lines) ==
  [k \in {Key(lines[i]) : i \in DOMAIN lines} |-> lines[Max({i \in DOMAIN lines : Key(lines[i]) = k})].gas]

\* parseSnapshot: a contract has its lines in the order of the file, and comes
\* where its first line is; then contracts are ordered by their totals.
InOrder(S, n) == FlattenSeq([i \in 1..n |-> IF i \in S THEN <<i>> ELSE <<>>])
OfContract(lines, i) == {j \in DOMAIN lines : lines[j].contract = lines[i].contract}
Total(lines, i) == SumFunctionOnSet([j \in DOMAIN lines |-> lines[j].gas], OfContract(lines, i))
ContractOf(lines, i) ==
  LET own == InOrder(OfContract(lines, i), Len(lines))
  IN  [label |-> lines[i].contract, gas |-> Total(lines, i), delta |-> None,
       children |-> [j \in DOMAIN own |-> [fn |-> lines[own[j]].fn, params |-> lines[own[j]].params, gas |-> lines[own[j]].gas,
                                           delta |-> None]]]
Firsts(lines) == {i \in DOMAIN lines : \A j \in OfContract(lines, i) : i <= j}
CostsMore(lines, i, j) ==
  Total(lines, i) > Total(lines, j) \/ (Total(lines, i) = Total(lines, j) /\ i < j)
Ranking(lines) ==
  CHOOSE r \in [1..Cardinality(Firsts(lines)) -> Firsts(lines)] :
    /\ \A i \in Firsts(lines) : \E n \in DOMAIN r : r[n] = i
    /\ \A m, n \in DOMAIN r : m < n => CostsMore(lines, r[m], r[n])
ParseSnapshot(lines) == LET rank == Ranking(lines) IN [n \in DOMAIN rank |-> ContractOf(lines, rank[n])]

\* The changes since the gas map P: functions that share a name share a key.
Changed(P, c, ch) == IF <<c, ch.fn>> \in DOMAIN P THEN ch.gas - P[<<c, ch.fn>>] ELSE None
ContractDelta(P, e) ==
  FoldLeft(LAMBDA sum, ch : sum + (IF Changed(P, e.label, ch) = None THEN 0 ELSE Changed(P, e.label, ch)), 0, e.children)
Compared(P, e) ==
  [label |-> e.label, gas |-> e.gas, delta |-> IF ContractDelta(P, e) = 0 THEN None ELSE ContractDelta(P, e),
   children |-> [j \in DOMAIN e.children |-> [e.children[j] EXCEPT !.delta = Changed(P, e.label, e.children[j])]]]
WithDeltas(tree, P) == [i \in DOMAIN tree |-> Compared(P, tree[i])]

\* updateDecorations: the last child of a name counts; of the contracts that
\* have the name, the first in the tree.
GasLookup(c, fn) == LET js == {j \in DOMAIN c.children : c.children[j].fn = fn} IN  c.children[Max(js)]
Decorations(tree, f) ==
  LET having(fn) == {i \in DOMAIN tree : \E j \in DOMAIN tree[i].children : tree[i].children[j].fn = fn}
      info(fn) == GasLookup(tree[Min(having(fn))], fn)
  IN  [fn \in {fn \in Editors[f] : having(fn) # {}} |->
         [gas |-> info(fn).gas, delta |-> IF info(fn).delta = 0 THEN None ELSE info(fn).delta]]
-----------------------------------------------------------------------------
\* Mutant of NewBaseline: tests that are gone stay in the baseline.
MergedBaseline(P, lines) ==
  LET flat == FlatMap(lines)
  IN  [k \in DOMAIN P \cup DOMAIN flat |-> IF k \in DOMAIN flat THEN flat[k] ELSE P[k]]

\* The baseline P is overwritten with what was read.
NewBaseline(P, lines) == FlatMap(lines)

\* loadSnapshot: a file that cannot be read has no lines.
LoadSnapshot(lines) == IF lines = None THEN <<>> ELSE lines

\* refresh, up to its await: the gas map P is read and set in one step.
Refresh(lines, P) == [kind |-> "refresh", tree |-> WithDeltas(ParseSnapshot(lines), P), flat |-> FlatMap(lines)]
Refreshed(q) ==
  LET lines == LoadSnapshot(snapshot.lines)
  IN  awaiting' = Append(q, Refresh(lines, previous)) /\ previous' = NewBaseline(previous, lines)

\* activate refreshes at once; the gas map P is of an earlier session.
GasInit ==
  \E s \in Snapshots \cup {None}, P \in {FlatMap(o) : o \in Snapshots \cup {<<>>}} :
    /\ snapshot = [lines |-> s, reported |-> FALSE]
    /\ previous = NewBaseline(P, LoadSnapshot(s)) /\ awaiting = <<Refresh(LoadSnapshot(s), P)>>
    /\ entries = <<>> /\ editor = [file |-> None, shown |-> <<>>] /\ events = 0
    /\ told = [k \in DOMAIN P |-> [first |-> P[k], changes |-> 0, now |-> P[k]]]

\* Forge truncates the file and writes it; the user may remove it, of which no
\* watcher tells the profiler.  Another folder's snapshot is reported as well.
WriteSnapshot(s) ==
  /\ events < MaxEvents /\ events' = events + 1
  /\ snapshot' = [lines |-> s, reported |-> s # None \/ snapshot.reported]
  /\ UNCHANGED <<previous, awaiting, entries, editor, told>>

WatcherFires ==
  /\ snapshot.reported \/ events < MaxEvents
  /\ events' = IF snapshot.reported THEN events ELSE events + 1
  /\ snapshot' = [snapshot EXCEPT !.reported = FALSE]
  /\ Refreshed(awaiting)
  /\ UNCHANGED <<entries, editor, told>>

\* gasClearHistory.
ClearHistory ==
  /\ events < MaxEvents /\ events' = events + 1
  /\ previous' = <<>>
  /\ awaiting' = Append(awaiting, [kind |-> "clear"])
  /\ UNCHANGED <<snapshot, entries, editor, told>>

ActivateEditor(f) ==
  /\ editor.file # f
  /\ editor' = [file |-> f, shown |-> Decorations(entries, f)]
  /\ UNCHANGED <<snapshot, previous, awaiting, entries, told, events>>

\* What the tree tells of the key k, whose last line has the gas g.
Telling(tree, k, g) ==
  LET c == CHOOSE i \in DOMAIN tree : tree[i].label = k[1]
      delta == GasLookup(tree[c], k[2]).delta
      change == IF delta = None THEN 0 ELSE delta
  IN  IF k \in DOMAIN told THEN [told[k] EXCEPT !.changes = @ + change, !.now = g]
      ELSE [first |-> g, changes |-> change, now |-> g]

\* The rest of refresh, and of gasClearHistory: updates are stored in order.
Stored ==
  /\ awaiting # <<>>
  /\ LET a == Head(awaiting)
         flat == a.flat
     IN  CASE a.kind = "clear" -> Refreshed(Tail(awaiting)) /\ told' = <<>> /\ UNCHANGED <<entries, editor>>
           [] a.kind = "refresh" ->
                /\ entries' = a.tree
                /\ editor' = IF editor.file = None THEN editor ELSE [editor EXCEPT !.shown = Decorations(a.tree, editor.file)]
                /\ told' = [k \in DOMAIN flat |-> Telling(a.tree, k, flat[k])]
                /\ awaiting' = Tail(awaiting)
                /\ UNCHANGED previous
  /\ UNCHANGED <<snapshot, events>>

GasNext ==
  \/ \E s \in Snapshots \cup {<<>>, None} : WriteSnapshot(s)
  \/ WatcherFires \/ ClearHistory \/ Stored
  \/ \E f \in DOMAIN Editors : ActivateEditor(f)
GasSpec == GasInit /\ [][GasNext]_gasVars
-----------------------------------------------------------------------------
(* What the next refresh will show are changes since what is shown now, and not
   since what another refresh read before its await: however they overlap, each
   is told of once (refresh). *)
ChangesAreSinceShown ==
  awaiting # <<>> /\ Head(awaiting).kind = "refresh" =>
    \E lines \in Snapshots \cup {<<>>} : Head(awaiting) = Refresh(lines, [k \in DOMAIN told |-> told[k].now])

(* The changes shown of a test add up: since it came into the tree, or the
   history was cleared, they are the difference between its gas then and its
   gas now, however refreshes overlap and events repeat; of tests that share a
   name this holds of the last.  With nothing under way the tree has the costs
   of the file, unless the file was removed, and the active editor's tests show
   a cost of the tree, the only one where no two contracts share the name.
   About refresh, which diffs against a map that it overwrites before its
   await, and about updateDecorations. *)
ChangesAddUp ==
  /\ ChangesAreSinceShown
  /\ \A k \in DOMAIN told : told[k].now - told[k].first = told[k].changes
  /\ awaiting = <<>> /\ ~snapshot.reported /\ snapshot.lines # None =>
       LET shown == UNION {{<<entries[i].label, entries[i].children[j].fn, entries[i].children[j].params, entries[i].children[j].gas>> :
                              j \in DOMAIN entries[i].children} : i \in DOMAIN entries}
       IN  shown = {<<l.contract, l.fn, l.params, l.gas>> : l \in ToSet(snapshot.lines)}
  /\ editor.file # None =>
       LET keys == {k \in DOMAIN told : \E i \in DOMAIN entries : entries[i].label = k[1]}
       IN  \A k \in keys : k[2] \in Editors[editor.file] /\ (\A o \in keys : o[2] = k[2] => o = k) =>
             k[2] \in DOMAIN editor.shown /\ editor.shown[k[2]].gas = told[k].now
=============================================================================
