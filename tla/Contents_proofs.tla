-------------------------- MODULE Contents_proofs --------------------------
(***************************************************************************)
(* Proofs about three parts of MCParts that run a tool and show what its   *)
(* report says: coverage, the gas profiler and the external analysers.     *)
(* Each is proved in two steps: that what is shown is of one run, whatever *)
(* runs, saves and cancellations cross it, and that it is what this run's  *)
(* report says.                                                            *)
(*                                                                         *)
(* That what is shown of the coverage is what one run hit rests on the     *)
(* parser reading back what was written: a tracefile is followed record by *)
(* record, for any files, lines and branches, with and without totals.     *)
(*                                                                         *)
(* That the changes of gas add up rests on what the tree has of a          *)
(* snapshot: one contract of each name, with its lines in their order, a   *)
(* line's change being told of the last line of its name.  The invariant   *)
(* then ties the last update awaited, the tree, what is told and what the  *)
(* editor shows to one snapshot.                                           *)
(*                                                                         *)
(* That an analyser's diagnostics are at the lines its report gives rests  *)
(* on what each parser keeps of the entries, one parser at a time; the     *)
(* invariant adds that every run saw a text the disk had.                  *)
(***************************************************************************)
EXTENDS MCParts, Induction, TLAPS, FiniteSetTheorems, SequenceTheorems, WellFoundedInduction
-----------------------------------------------------------------------------
(***************************************************************************)
(* Coverage.                                                               *)
(***************************************************************************)
ForgeRuns == [id : Nat, hits : Hits, totals : BOOLEAN, wrote : BOOLEAN]
ReportOf(r) == [of |-> r.hits, records |-> Cover!Tracefile(r.hits, r.totals)]

(* The report on disk is a run's, and without others of the one under way. *)
CoverInv ==
  /\ reading \subseteq ForgeRuns /\ moves \in Nat
  /\ form # NoFile => \E r \in ForgeRuns : form = ReportOf(r)
  /\ saved = [hits |-> saved.hits, crossed |-> saved.crossed] /\ saved.crossed \in BOOLEAN
  /\ saved.hits \in Hits \cup {<<>>}
  /\ Cover!LoadsOneRun
  /\ ~saved.crossed =>
       /\ \A r, q \in reading : r = q
       /\ form # NoFile => \E r \in reading : form = ReportOf(r)

LEMMA CoverInit == PartsInit /\ part = "cover" => CoverInv
<1> SUFFICES ASSUME PartsInit, part = "cover" PROVE CoverInv
  OBVIOUS
<1>1. /\ form = NoFile /\ reading = {} /\ kept = <<>> /\ command = NoFile /\ ran = <<>> /\ moves = 0
      /\ saved = [hits |-> <<>>, crossed |-> FALSE]
  BY Zenon DEF PartsInit, Cover!CoverageInit
<1>2. DOMAIN kept = {} /\ DOMAIN ran = {}
  BY <1>1
<1>3. Cover!Loads(<<>>) /\ command = Cover!Percentage(kept)
  BY <1>1, <1>2, Zenon DEF Cover!Loads, Cover!Percentage
<1>4. Cover!LoadsOneRun
  BY <1>1, <1>2, <1>3 DEF Cover!LoadsOneRun
<1> QED
  BY <1>1, <1>4 DEF CoverInv

LEMMA CoverRuns ==
  ASSUME NEW h \in Hits, NEW totals \in BOOLEAN PROVE CoverInv /\ Cover!RunCoverage(h, totals) => CoverInv'
<1> SUFFICES ASSUME CoverInv, Cover!RunCoverage(h, totals) PROVE CoverInv'
  OBVIOUS
<1> DEFINE r == [id |-> moves', hits |-> h, totals |-> totals, wrote |-> FALSE]
<1>1. /\ moves' = moves + 1 /\ reading' = reading \cup {r} /\ UNCHANGED <<form, kept, command, ran>>
      /\ saved' = [saved EXCEPT !.crossed = @ \/ reading # {}]
  BY DEF Cover!RunCoverage
<1>2. moves \in Nat /\ saved = [hits |-> saved.hits, crossed |-> saved.crossed] /\ saved.crossed \in BOOLEAN
  BY DEF CoverInv
<1>3. moves' \in Nat /\ r \in ForgeRuns
  <2>1. moves' \in Nat
    BY <1>1, <1>2
  <2> QED
    BY <2>1 DEF ForgeRuns
<1> HIDE DEF r
<1>4. saved'.hits = saved.hits /\ saved'.crossed = (saved.crossed \/ reading # {}) /\ saved'.crossed \in BOOLEAN
      /\ saved' = [hits |-> saved'.hits, crossed |-> saved'.crossed]
  BY <1>1, <1>2
<1>5. Cover!LoadsOneRun'
  BY <1>1, <1>4 DEF CoverInv, Cover!LoadsOneRun, Cover!Loads
<1>6. reading' \subseteq ForgeRuns /\ (form' # NoFile => \E q \in ForgeRuns : form' = ReportOf(q))
  BY <1>1, <1>3 DEF CoverInv
<1>7. ASSUME ~saved'.crossed PROVE (\A p, q \in reading' : p = q) /\ (form' # NoFile => \E q \in reading' : form' = ReportOf(q))
  <2>1. reading' = {r} /\ form' = NoFile
    BY <1>1, <1>2, <1>4, <1>7 DEF CoverInv
  <2> QED
    BY <2>1
<1> QED
  BY <1>3, <1>4, <1>5, <1>6, <1>7 DEF CoverInv

LEMMA CoverWrites == ASSUME NEW r \in reading PROVE CoverInv /\ Cover!ForgeWrites(r) => CoverInv'
<1> SUFFICES ASSUME CoverInv, Cover!ForgeWrites(r) PROVE CoverInv'
  OBVIOUS
<1> DEFINE w == [r EXCEPT !.wrote = TRUE]
<1>1. reading' = (reading \ {r}) \cup {w} /\ form' = ReportOf(r) /\ UNCHANGED <<kept, command, ran, moves, saved>>
  BY DEF Cover!ForgeWrites, ReportOf
<1>2. w \in ForgeRuns /\ w.hits = r.hits /\ w.totals = r.totals /\ r \in ForgeRuns
  BY DEF CoverInv, ForgeRuns
<1>3. ReportOf(w) = ReportOf(r)
  BY <1>2 DEF ReportOf
<1> HIDE DEF w
<1>4. Cover!LoadsOneRun'
  BY <1>1 DEF CoverInv, Cover!LoadsOneRun, Cover!Loads
<1>5. reading' \subseteq ForgeRuns /\ \E q \in ForgeRuns : form' = ReportOf(q)
  BY <1>1, <1>2 DEF CoverInv
<1>6. ASSUME ~saved'.crossed PROVE (\A p, q \in reading' : p = q) /\ (\E q \in reading' : form' = ReportOf(q))
  <2>1. reading' = {w}
    BY <1>1, <1>6 DEF CoverInv
  <2> QED
    BY <1>1, <1>3, <2>1
<1> QED
  BY <1>1, <1>4, <1>5, <1>6 DEF CoverInv

(* What is painted follows what is loaded.                                 *)
LEMMA LoadsAreShown ==
  ASSUME NEW D, Cover!Shown(D) PROVE /\ kept' = D /\ command' = Cover!Percentage(kept')
                                     /\ \A f \in DOMAIN ran' : ran'[f] = Cover!Decorations(kept', f)
<1>1. kept' = D /\ command' = Cover!Percentage(D) /\ ran' = [f \in DOMAIN ran |-> Cover!Decorations(D, f)]
  BY DEF Cover!Shown
<1> QED
  BY <1>1

LEMMA CoverEnds == ASSUME NEW r \in reading, NEW ok \in BOOLEAN PROVE CoverInv /\ Cover!ForgeEnds(r, ok) => CoverInv'
<1> SUFFICES ASSUME CoverInv, Cover!ForgeEnds(r, ok) PROVE CoverInv'
  OBVIOUS
<1>1. reading' = reading \ {r} /\ form' = NoFile /\ moves' = moves
  BY DEF Cover!ForgeEnds
<1>2. reading' \subseteq ForgeRuns /\ moves' \in Nat /\ form' = NoFile /\ r \in ForgeRuns
  BY <1>1 DEF CoverInv
<1>3. CASE UNCHANGED <<kept, command, ran, saved>>
  <2>1. Cover!LoadsOneRun'
    BY <1>3 DEF CoverInv, Cover!LoadsOneRun, Cover!Loads
  <2> QED
    BY <1>1, <1>2, <1>3, <2>1 DEF CoverInv
<1>4. CASE form # NoFile /\ Cover!Shown(Cover!ParseLcov(form.records)) /\ saved' = [saved EXCEPT !.hits = r.hits]
  <2>1. kept' = Cover!ParseLcov(form.records) /\ command' = Cover!Percentage(kept')
        /\ \A f \in DOMAIN ran' : ran'[f] = Cover!Decorations(kept', f)
    BY <1>4, LoadsAreShown
  <2>2. saved'.hits = r.hits /\ saved'.crossed = saved.crossed /\ saved' = [hits |-> saved'.hits, crossed |-> saved'.crossed]
    BY <1>4 DEF CoverInv
  <2>7. saved'.hits \in Hits
    BY <1>2, <2>2 DEF ForgeRuns
  <2>3. \A q \in ForgeRuns : form = ReportOf(q) => Cover!Loads(q.hits)'
    BY <2>1 DEF ReportOf, ForgeRuns, Cover!Loads
  <2>4. \E h \in Hits \cup {<<>>} : Cover!Loads(h)'
    BY <1>4, <2>3 DEF CoverInv, ForgeRuns
  <2>5. saved'.crossed \/ Cover!Loads(saved.hits)'
    <3>1. ASSUME ~saved.crossed PROVE form = ReportOf(r)
      BY <1>4, <3>1 DEF CoverInv
    <3> QED
      BY <1>2, <2>2, <2>3, <3>1 DEF CoverInv, Cover!Loads
  <2>6. Cover!LoadsOneRun'
    BY <2>1, <2>4, <2>5 DEF Cover!LoadsOneRun
  <2> QED
    BY <1>1, <1>2, <2>2, <2>6, <2>7 DEF CoverInv
<1> QED
  BY <1>3, <1>4 DEF Cover!ForgeEnds

LEMMA CoverCleared == CoverInv /\ Cover!ClearCoverage => CoverInv'
<1> SUFFICES ASSUME CoverInv, Cover!ClearCoverage PROVE CoverInv'
  OBVIOUS
<1>1. /\ kept' = <<>> /\ command' = Cover!Percentage(kept') /\ \A f \in DOMAIN ran' : ran'[f] = Cover!Decorations(kept', f)
  BY LoadsAreShown DEF Cover!ClearCoverage
<1>2. UNCHANGED <<form, reading, moves>> /\ saved' = [saved EXCEPT !.hits = <<>>]
  BY DEF Cover!ClearCoverage
<1>3. saved'.hits = <<>> /\ saved'.crossed = saved.crossed /\ saved' = [hits |-> saved'.hits, crossed |-> saved'.crossed]
  BY <1>2 DEF CoverInv
<1>4. Cover!LoadsOneRun'
  BY <1>1, <1>3 DEF Cover!LoadsOneRun, Cover!Loads
<1> QED
  BY <1>2, <1>3, <1>4 DEF CoverInv

LEMMA CoverPaints == ASSUME NEW f \in {"f", "g"} PROVE CoverInv /\ Cover!OpenEditor(f) => CoverInv'
<1> SUFFICES ASSUME CoverInv, Cover!OpenEditor(f) PROVE CoverInv'
  OBVIOUS
<1>1. ran' = Cover!Put(ran, f, Cover!Decorations(kept, f)) /\ UNCHANGED <<form, reading, kept, command, moves, saved>>
  BY DEF Cover!OpenEditor
<1>2. \A x \in DOMAIN ran' : ran'[x] = Cover!Decorations(kept, x)
  BY <1>1 DEF CoverInv, Cover!LoadsOneRun, Cover!Put
<1>3. Cover!LoadsOneRun'
  BY <1>1, <1>2 DEF CoverInv, Cover!LoadsOneRun, Cover!Loads
<1> QED
  BY <1>1, <1>3 DEF CoverInv

LEMMA CoverNext == CoverInv /\ [Cover!CoverageNext]_(Cover!coverageVars) => CoverInv'
<1> SUFFICES ASSUME CoverInv, [Cover!CoverageNext]_(Cover!coverageVars) PROVE CoverInv'
  OBVIOUS
<1>1. CASE UNCHANGED Cover!coverageVars
  <2>1. UNCHANGED <<form, reading, kept, command, ran, moves, saved>>
    BY <1>1 DEF Cover!coverageVars
  <2>2. Cover!LoadsOneRun'
    BY <2>1 DEF CoverInv, Cover!LoadsOneRun, Cover!Loads
  <2> QED
    BY <2>1, <2>2 DEF CoverInv
<1>2. CASE Cover!CoverageNext
  BY <1>2, CoverRuns, CoverWrites, CoverEnds, CoverCleared, CoverPaints DEF Cover!CoverageNext
<1> QED
  BY <1>1, <1>2

(* The report on disk is that of a run, at every step (runCoverage).        *)
THEOREM ReportsAreOfRuns == PartsSpec => [](part = "cover" => CoverInv)
<1> DEFINE J == part = "cover" => CoverInv
<1>1. PartsInit => J
  BY CoverInit
<1>2. J /\ [PartsNext]_allVars => J'
  <2> SUFFICES ASSUME J, [PartsNext]_allVars, part' = "cover" PROVE CoverInv'
    OBVIOUS
  <2>1. part = "cover" /\ [Cover!CoverageNext]_(Cover!coverageVars)
    BY DEF PartsNext, allVars, viewVars, Cover!coverageVars
  <2> QED
    BY <2>1, CoverNext
<1> QED
  BY <1>1, <1>2, PTL DEF PartsSpec

(* What is loaded, counted and painted is the parsed report of one run, and *)
(* without runs that overlap that of the run that ended last (runCoverage). *)
THEOREM OneRunIsLoaded == PartsSpec => [](part = "cover" => Cover!LoadsOneRun)
<1>1. (part = "cover" => CoverInv) => (part = "cover" => Cover!LoadsOneRun)
  BY DEF CoverInv
<1> QED
  BY <1>1, ReportsAreOfRuns, PTL
-----------------------------------------------------------------------------
(***************************************************************************)
(* What parseLcov() makes of a tracefile.  Reads(st, s, q): st are the      *)
(* states of the parser along the records q, from s on.                    *)
(***************************************************************************)
Reads(st, s, q) ==
  st = [i \in 0 .. Len(q) |-> IF i = 0 THEN s ELSE Cover!LcovStep(st[i - 1], q[i])]

LEMMA ReadOnSteps ==
  ASSUME NEW s, NEW q, Len(q) \in Nat
  PROVE  \E st : Reads(st, s, q) /\ Cover!ReadOn(s, q) = st[Len(q)]
<1> DEFINE n == Len(q)
           After(st, i) == IF i = 0 THEN s ELSE Cover!LcovStep(st[i - 1], q[i])
           Is(st, m) == st = [i \in 0 .. m |-> After(st, i)]
           T == {m \in 0 .. n : \E st : Is(st, m)}
<1>1. 0 \in T
  <2> DEFINE st == [i \in 0 .. 0 |-> s]
  <2>1. Is(st, 0)
    OBVIOUS
  <2> HIDE DEF st
  <2>2. \E su : Is(su, 0)
    BY <2>1
  <2>3. 0 \in 0 .. n
    OBVIOUS
  <2> QED
    BY <2>2, <2>3
<1>2. ASSUME NEW m \in 0 .. n - 1, m \in T PROVE m + 1 \in T
  <2>1. PICK st : Is(st, m)
    BY <1>2
  <2> DEFINE su == [i \in 0 .. m + 1 |-> After(st, i)]
  <2>2. \A i \in 0 .. m : su[i] = st[i]
    BY <2>1
  <2>3. \A i \in 0 .. m + 1 : After(st, i) = After(su, i)
    <3> SUFFICES ASSUME NEW i \in 0 .. m + 1, i # 0 PROVE st[i - 1] = su[i - 1]
      OBVIOUS
    <3>1. i - 1 \in 0 .. m
      OBVIOUS
    <3> QED
      BY <2>2, <3>1
  <2>4. Is(su, m + 1)
    BY <2>3
  <2>5. m + 1 \in 0 .. n
    OBVIOUS
  <2> QED
    BY <2>4, <2>5
<1>n. n \in Nat
  OBVIOUS
<1> HIDE DEF T, n
<1>3. n \in T
  <2>1. \A i \in 0 .. n : i \in T
    BY ONLY <1>n, <1>1, <1>2, NumbersUpTo, Zenon
  <2> QED
    BY <1>n, <2>1
<1> DEFINE state == CHOOSE st : Is(st, n)
<1>4. \E st : Is(st, n)
  BY <1>3 DEF T
<1>5. Is(state, n)
  BY <1>4
<1>6. Cover!ReadOn(s, q) = state[n]
  BY DEF Cover!ReadOn, n
<1> HIDE DEF state
<1>7. Reads(state, s, q)
  BY <1>5 DEF Reads, n
<1> QED
  BY <1>6, <1>7 DEF n

LEMMA ReadAt ==
  ASSUME NEW st, NEW s, NEW q, Len(q) \in Nat, Reads(st, s, q)
  PROVE  st[0] = s /\ \A i \in 1 .. Len(q) : st[i] = Cover!LcovStep(st[i - 1], q[i])
BY DEF Reads

LEMMA ReadJoined ==
  ASSUME NEW X, NEW q \in Seq(X), NEW t \in Seq(X), NEW s
  PROVE  Cover!ReadOn(s, q \o t) = Cover!ReadOn(Cover!ReadOn(s, q), t)
<1> DEFINE n == Len(q)
           m == Len(t)
           w == q \o t
<1>1. /\ n \in Nat /\ m \in Nat /\ Len(w) = n + m /\ Len(w) \in Nat
      /\ \A i \in 1 .. n + m : w[i] = IF i <= n THEN q[i] ELSE t[i - n]
  BY LenProperties, ConcatProperties
<1> HIDE DEF w
<1>2. PICK u : Reads(u, s, q) /\ Cover!ReadOn(s, q) = u[n]
  BY <1>1, ReadOnSteps
<1>3. PICK v : Reads(v, u[n], t) /\ Cover!ReadOn(u[n], t) = v[m]
  BY <1>1, ReadOnSteps
<1>4. PICK x : Reads(x, s, w) /\ Cover!ReadOn(s, w) = x[n + m]
  <2>1. PICK x : Reads(x, s, w) /\ Cover!ReadOn(s, w) = x[Len(w)]
    BY <1>1, ReadOnSteps
  <2> QED
    BY <1>1, <2>1
<1>5. u[0] = s /\ \A i \in 1 .. n : u[i] = Cover!LcovStep(u[i - 1], q[i])
  BY <1>1, <1>2, ReadAt
<1>6. v[0] = u[n] /\ \A i \in 1 .. m : v[i] = Cover!LcovStep(v[i - 1], t[i])
  BY <1>1, <1>3, ReadAt
<1>7. x[0] = s /\ \A i \in 1 .. n + m : x[i] = Cover!LcovStep(x[i - 1], w[i])
  <2>1. x[0] = s /\ \A i \in 1 .. Len(w) : x[i] = Cover!LcovStep(x[i - 1], w[i])
    BY <1>1, <1>4, ReadAt
  <2> QED
    BY <1>1, <2>1
<1> HIDE DEF n, m
<1>8. x[n] = u[n]
  <2> DEFINE T == {i \in 0 .. n : x[i] = u[i]}
  <2>1. 0 \in T
    BY <1>1, <1>5, <1>7
  <2>2. ASSUME NEW i \in 0 .. n - 1, i \in T PROVE i + 1 \in T
    <3>1. i + 1 \in 1 .. n /\ i + 1 \in 0 .. n /\ i + 1 \in 1 .. n + m /\ (i + 1) - 1 = i /\ i + 1 <= n
      BY <1>1
    <3>2. x[i + 1] = Cover!LcovStep(x[i], q[i + 1]) /\ u[i + 1] = Cover!LcovStep(u[i], q[i + 1])
      BY <1>1, <1>5, <1>7, <3>1
    <3> QED
      BY <2>2, <3>1, <3>2
  <2> HIDE DEF T
  <2>n. n \in Nat
    BY <1>1
  <2>3. \A i \in 0 .. n : i \in T
    BY ONLY <2>n, <2>1, <2>2, NumbersUpTo, Zenon
  <2> QED
    BY <2>n, <2>3 DEF T
<1>9. x[n + m] = v[m]
  <2> DEFINE T == {i \in 0 .. m : x[n + i] = v[i]}
  <2>1. 0 \in T
    BY <1>1, <1>6, <1>8
  <2>2. ASSUME NEW i \in 0 .. m - 1, i \in T PROVE i + 1 \in T
    <3> DEFINE j == n + (i + 1)
    <3>1. i + 1 \in 1 .. m /\ i + 1 \in 0 .. m /\ j \in 1 .. n + m /\ (i + 1) - 1 = i /\ ~(j <= n) /\ j - 1 = n + i /\ j - n = i + 1
      BY <1>1
    <3> HIDE DEF j
    <3>2. x[j] = Cover!LcovStep(x[n + i], t[i + 1]) /\ v[i + 1] = Cover!LcovStep(v[i], t[i + 1])
      BY <1>1, <1>6, <1>7, <3>1
    <3> QED
      BY <2>2, <3>1, <3>2 DEF j
  <2> HIDE DEF T
  <2>n. m \in Nat
    BY <1>1
  <2>3. \A i \in 0 .. m : i \in T
    BY ONLY <2>n, <2>1, <2>2, NumbersUpTo, Zenon
  <2> QED
    BY <2>n, <2>3 DEF T
<1> QED
  BY <1>2, <1>3, <1>4, <1>9 DEF w

LEMMA ReadNone == ASSUME NEW s PROVE Cover!ReadOn(s, <<>>) = s
<1>1. Len(<<>>) = 0
  OBVIOUS
<1>2. PICK st : Reads(st, s, <<>>) /\ Cover!ReadOn(s, <<>>) = st[0]
  BY <1>1, ReadOnSteps
<1> QED
  BY <1>1, <1>2, ReadAt

LEMMA ReadOne == ASSUME NEW s, NEW r PROVE Cover!ReadOn(s, <<r>>) = Cover!LcovStep(s, r)
<1>1. Len(<<r>>) = 1 /\ <<r>>[1] = r
  OBVIOUS
<1>2. PICK st : Reads(st, s, <<r>>) /\ Cover!ReadOn(s, <<r>>) = st[1]
  BY <1>1, ReadOnSteps
<1>3. st[0] = s /\ st[1] = Cover!LcovStep(st[1 - 1], r)
  BY <1>1, <1>2, ReadAt
<1>4. 1 - 1 = 0
  OBVIOUS
<1> QED
  BY <1>2, <1>3, <1>4

(* The parser's state: the files it has read, and the one it reads.        *)
Reading(res, f, ls, bs, t, n) ==
  [result |-> res, current |-> [file |-> f, lines |-> ls, branches |-> bs, lineTotal |-> t, lineHit |-> n]]

LEMMA ReadsFile ==
  ASSUME NEW res, NEW g, NEW ls, NEW bs, NEW t, NEW n, NEW f
  PROVE  Cover!LcovStep(Reading(res, g, ls, bs, t, n), Cover!Record("SF", f, 0)) = Reading(res, f, <<>>, <<>>, 0, 0)
<1> DEFINE r == Cover!Record("SF", f, 0)
           s == Reading(res, g, ls, bs, t, n)
<1>1. r.tag = "SF" /\ r.line = f
  BY DEF Cover!Record
<1>2. Cover!LcovStep(s, r) = [s EXCEPT !.current = [Cover!NoFileRead EXCEPT !.file = f]]
  <2> HIDE DEF r, s
  <2>1. Cover!LcovStep(s, r) = [s EXCEPT !.current = [Cover!NoFileRead EXCEPT !.file = r.line]]
    BY <1>1, Zenon DEF Cover!LcovStep
  <2> QED
    BY <1>1, <2>1
<1> HIDE DEF r
<1>3. [Cover!NoFileRead EXCEPT !.file = f] = Reading(res, f, <<>>, <<>>, 0, 0).current
  BY DEF Cover!NoFileRead, Reading
<1> DEFINE x == [Cover!NoFileRead EXCEPT !.file = f]
<1>4. [s EXCEPT !.current = x] = [result |-> res, current |-> x]
  <2> HIDE DEF x
  <2> QED
    BY DEF Reading
<1> QED
  BY <1>2, <1>3, <1>4 DEF Reading, r

(* What a record of a file changes.                                        *)
LEMMA ReadsRecord ==
  ASSUME NEW s, s.current.file # NoFile, NEW r, r.tag \notin {"SF", "end"}
  PROVE  Cover!LcovStep(s, r) = [s EXCEPT !.current = Cover!OfFile(s.current, r)]
BY Zenon DEF Cover!LcovStep

LEMMA ReadsInto ==
  ASSUME NEW res, NEW f, f # NoFile, NEW ls, NEW bs, NEW t, NEW n, NEW r, r.tag \notin {"SF", "end"},
         NEW kt, NEW ku, NEW kv, NEW kw,
         Cover!OfFile(Reading(res, f, ls, bs, t, n).current, r) = Reading(res, f, kt, ku, kv, kw).current
  PROVE  Cover!LcovStep(Reading(res, f, ls, bs, t, n), r) = Reading(res, f, kt, ku, kv, kw)
<1> DEFINE s == Reading(res, f, ls, bs, t, n)
           w == Reading(res, f, kt, ku, kv, kw)
<1>1. s.current.file = f /\ s = [result |-> res, current |-> s.current] /\ w = [result |-> res, current |-> w.current]
  BY DEF Reading
<1> HIDE DEF s, w
<1>2. Cover!LcovStep(s, r) = [s EXCEPT !.current = w.current]
  BY <1>1, ReadsRecord DEF s, w
<1>3. [s EXCEPT !.current = w.current] = w
  BY <1>1
<1> QED
  BY <1>2, <1>3 DEF s, w

LEMMA ReadsHits ==
  ASSUME NEW res, NEW f, f # NoFile, NEW ls, NEW bs, NEW t, NEW n, NEW l, NEW k
  PROVE  Cover!LcovStep(Reading(res, f, ls, bs, t, n), Cover!Record("DA", l, k))
         = Reading(res, f, Cover!AddHits(ls, Cover!Record("DA", l, k)), bs, t, n)
<1> DEFINE r == Cover!Record("DA", l, k)
           c == Reading(res, f, ls, bs, t, n).current
           x == Cover!AddHits(ls, r)
<1>1. r.tag = "DA" /\ c.lines = ls
  BY DEF Cover!Record, Reading
<1>2. Cover!OfFile(c, r) = [c EXCEPT !.lines = x]
  <2> HIDE DEF c, r
  <2> QED
    BY <1>1 DEF Cover!OfFile
<1> HIDE DEF x, r
<1>3. [c EXCEPT !.lines = x] = Reading(res, f, x, bs, t, n).current
  BY DEF Reading
<1> HIDE DEF c
<1>4. Cover!OfFile(c, r) = Reading(res, f, x, bs, t, n).current
  BY <1>2, <1>3
<1>5. Cover!LcovStep(Reading(res, f, ls, bs, t, n), r) = Reading(res, f, x, bs, t, n)
  BY <1>1, <1>4, ReadsInto DEF c
<1> QED
  BY <1>5 DEF x, r

LEMMA ReadsBranch ==
  ASSUME NEW res, NEW f, f # NoFile, NEW ls, NEW bs, NEW t, NEW n, NEW l, NEW k
  PROVE  Cover!LcovStep(Reading(res, f, ls, bs, t, n), Cover!Record("BRDA", l, k))
         = Reading(res, f, ls, Append(bs, [line |-> l, taken |-> k]), t, n)
<1> DEFINE r == Cover!Record("BRDA", l, k)
           c == Reading(res, f, ls, bs, t, n).current
           x == Append(bs, [line |-> l, taken |-> k])
<1>1. r.tag = "BRDA" /\ c.branches = bs /\ r.line = l /\ r.count = k
  BY DEF Cover!Record, Reading
<1>2. Cover!OfFile(c, r) = [c EXCEPT !.branches = x]
  <2> HIDE DEF c, r
  <2> QED
    BY <1>1 DEF Cover!OfFile
<1> HIDE DEF x, r
<1>3. [c EXCEPT !.branches = x] = Reading(res, f, ls, x, t, n).current
  BY DEF Reading
<1> HIDE DEF c
<1>4. Cover!OfFile(c, r) = Reading(res, f, ls, x, t, n).current
  BY <1>2, <1>3
<1>5. Cover!LcovStep(Reading(res, f, ls, bs, t, n), r) = Reading(res, f, ls, x, t, n)
  BY <1>1, <1>4, ReadsInto DEF c
<1> QED
  BY <1>5 DEF x, r

LEMMA ReadsLineTotal ==
  ASSUME NEW res, NEW f, f # NoFile, NEW ls, NEW bs, NEW t, NEW n, NEW k
  PROVE  Cover!LcovStep(Reading(res, f, ls, bs, t, n), Cover!Record("LF", 0, k)) = Reading(res, f, ls, bs, k, n)
<1> DEFINE r == Cover!Record("LF", 0, k)
<1>1. r.tag = "LF" /\ r.count = k
  BY DEF Cover!Record
<1> HIDE DEF r
<1>2. Cover!OfFile(Reading(res, f, ls, bs, t, n).current, r) = Reading(res, f, ls, bs, k, n).current
  BY <1>1 DEF Cover!OfFile, Reading
<1>3. Cover!LcovStep(Reading(res, f, ls, bs, t, n), r) = Reading(res, f, ls, bs, k, n)
  BY <1>1, <1>2, ReadsInto
<1> QED
  BY <1>3 DEF r

LEMMA ReadsHitTotal ==
  ASSUME NEW res, NEW f, f # NoFile, NEW ls, NEW bs, NEW t, NEW n, NEW k
  PROVE  Cover!LcovStep(Reading(res, f, ls, bs, t, n), Cover!Record("LH", 0, k)) = Reading(res, f, ls, bs, t, k)
<1> DEFINE r == Cover!Record("LH", 0, k)
<1>1. r.tag = "LH" /\ r.count = k
  BY DEF Cover!Record
<1> HIDE DEF r
<1>2. Cover!OfFile(Reading(res, f, ls, bs, t, n).current, r) = Reading(res, f, ls, bs, t, k).current
  BY <1>1 DEF Cover!OfFile, Reading
<1>3. Cover!LcovStep(Reading(res, f, ls, bs, t, n), r) = Reading(res, f, ls, bs, t, k)
  BY <1>1, <1>2, ReadsInto
<1> QED
  BY <1>3 DEF r

LEMMA ReadsEnd ==
  ASSUME NEW res, NEW f, f # NoFile, NEW ls, NEW bs, NEW t, NEW n
  PROVE  Cover!LcovStep(Reading(res, f, ls, bs, t, n), Cover!Record("end", 0, 0))
         = Reading(Cover!Put(res, f, Cover!Committed(Reading(res, f, ls, bs, t, n).current)), NoFile, <<>>, <<>>, 0, 0)
<1> DEFINE r == Cover!Record("end", 0, 0)
           s == Reading(res, f, ls, bs, t, n)
           x == Cover!Put(res, f, Cover!Committed(s.current))
<1>1. r.tag = "end" /\ s.current.file = f /\ s.result = res
  BY DEF Cover!Record, Reading
<1>2. Cover!LcovStep(s, r) = [result |-> x, current |-> Cover!NoFileRead]
  <2> HIDE DEF r, s
  <2> QED
    BY <1>1 DEF Cover!LcovStep
<1> HIDE DEF r, x
<1> QED
  BY <1>2 DEF Reading, Cover!NoFileRead, r, x

(* What is kept of a file: what was read, and totals that are its lines'.  *)
LEMMA CommittedIs ==
  ASSUME NEW res, NEW f, NEW ls, NEW bs, NEW t, NEW n
  PROVE  LET K == Cover!Committed(Reading(res, f, ls, bs, t, n).current)
         IN  /\ K.lines = ls /\ K.branches = bs
             /\ t \in {0, Cover!Cardinality(DOMAIN ls)} => K.lineTotal = Cover!Cardinality(DOMAIN ls)
             /\ n \in {0, Cover!Cardinality(Cover!HitLines(ls))} => K.lineHit = Cover!Cardinality(Cover!HitLines(ls))
<1> DEFINE c == Reading(res, f, ls, bs, t, n).current
           x == Cover!Cardinality(DOMAIN ls)
           y == Cover!Cardinality(Cover!HitLines(ls))
           K == Cover!Committed(c)
<1>1. /\ c = [file |-> f, lines |-> ls, branches |-> bs, lineTotal |-> t, lineHit |-> n]
      /\ c.lines = ls
  BY DEF Reading
<1>2. K = [c EXCEPT !.lineTotal = IF @ = 0 THEN x ELSE @, !.lineHit = IF @ = 0 THEN y ELSE @]
  BY <1>1, Zenon DEF Cover!Committed
<1> HIDE DEF c, x, y, K
<1>3. K = [file |-> f, lines |-> ls, branches |-> bs, lineTotal |-> IF t = 0 THEN x ELSE t, lineHit |-> IF n = 0 THEN y ELSE n]
  BY <1>1, <1>2
<1>4. K.lines = ls /\ K.branches = bs /\ (t \in {0, x} => K.lineTotal = x) /\ (n \in {0, y} => K.lineHit = y)
  BY <1>3
<1> QED
  BY <1>4 DEF K, c, x, y

(* The operators of the library, as the module has them.                   *)
LEMMA CoverCardinality == ASSUME NEW S PROVE Cover!Cardinality(S) = Cardinality(S)
BY Zenon DEF Cover!Cardinality, Cardinality
LEMMA CoverSetToSeq == ASSUME NEW S PROVE Cover!SetToSeq(S) = SetToSeq(S)
BY Zenon DEF Cover!SetToSeq, SetToSeq, Cover!IsInjective, IsInjective, Cover!Cardinality, Cardinality
LEMMA CoverFlattenSeq == ASSUME NEW p PROVE Cover!FlattenSeq(p) = FlattenSeq(p)
BY Zenon DEF Cover!FlattenSeq, FlattenSeq

(* What a run may hit in a file, and the records of the files F.           *)
IsHits(hit) == DOMAIN hit \subseteq Nat /\ IsFiniteSet(DOMAIN hit) /\ hit \in [DOMAIN hit -> Nat]
BranchLists == Seq([line : Nat, taken : Nat])
Tags == {"SF", "DA", "BRDA", "LF", "LH", "end"}
RecordsOf(F) == [tag : Tags, line : Nat \cup F, count : Nat]

LEMMA IsRecord ==
  ASSUME NEW F, NEW tag \in Tags, NEW l \in Nat \cup F, NEW k \in Nat
  PROVE  Cover!Record(tag, l, k) \in RecordsOf(F)
BY DEF Cover!Record, RecordsOf

LEMMA ReadsLine ==
  ASSUME NEW res, NEW f, f # NoFile, NEW ls, NEW bs, NEW t, NEW n, NEW l \in Nat, l \notin DOMAIN ls, NEW k \in Nat, NEW F
  PROVE  /\ Cover!ReadOn(Reading(res, f, ls, bs, t, n), Cover!LineRecords(l, k)) = Reading(res, f, Cover!Put(ls, l, k), bs, t, n)
         /\ Cover!LineRecords(l, k) \in Seq(RecordsOf(F))
<1> DEFINE r(x) == Cover!Record("DA", l, x)
           X == RecordsOf(F)
<1>1. \A x \in Nat : r(x) \in X /\ r(x).line = l /\ r(x).count = x
  <2> SUFFICES ASSUME NEW x \in Nat PROVE r(x) \in X /\ r(x).line = l /\ r(x).count = x
    OBVIOUS
  <2>1. r(x).line = l /\ r(x).count = x
    BY DEF Cover!Record
  <2>2. r(x) \in X
    <3>1. "DA" \in Tags /\ l \in Nat \cup F
      BY DEF Tags
    <3> QED
      BY <3>1, IsRecord, Zenon
  <2> QED
    BY <2>1, <2>2
<1>2. \A x \in Nat : <<r(x)>> \in Seq(X)
  BY <1>1
<1>3. ASSUME NEW x \in Nat PROVE Cover!AddHits(ls, r(x)) = Cover!Put(ls, l, x)
  <2>1. Cover!AddHits(ls, r(x)) = Cover!Put(ls, l, x + 0)
    BY <1>1 DEF Cover!AddHits
  <2> QED
    BY <2>1
<1>4. ASSUME NEW x \in Nat, NEW y \in Nat PROVE Cover!AddHits(Cover!Put(ls, l, x), r(y)) = Cover!Put(ls, l, y + x)
  <2> DEFINE L == Cover!Put(ls, l, x)
  <2>1. l \in DOMAIN L /\ L[l] = x
    BY DEF Cover!Put
  <2>2. Cover!Put(L, l, y + x) = Cover!Put(ls, l, y + x)
    BY DEF Cover!Put
  <2> HIDE DEF L
  <2>3. Cover!AddHits(L, r(y)) = Cover!Put(L, l, y + x)
    BY <1>1, <2>1 DEF Cover!AddHits
  <2> QED
    BY <2>2, <2>3 DEF L
<1>5. \A x \in Nat : Cover!LcovStep(Reading(res, f, ls, bs, t, n), r(x)) = Reading(res, f, Cover!Put(ls, l, x), bs, t, n)
  BY <1>3, ReadsHits
<1>6. \A x, y \in Nat : Cover!LcovStep(Reading(res, f, Cover!Put(ls, l, x), bs, t, n), r(y)) = Reading(res, f, Cover!Put(ls, l, y + x), bs, t, n)
  BY <1>4, ReadsHits
<1> HIDE DEF r, X
<1>7. CASE k > 1
  <2>1. Cover!LineRecords(l, k) = <<r(1), r(k - 1)>>
    BY <1>7 DEF Cover!LineRecords, r
  <2>2. <<r(1), r(k - 1)>> = <<r(1)>> \o <<r(k - 1)>> /\ k - 1 \in Nat /\ (k - 1) + 1 = k
    BY <1>7
  <2>3. Cover!ReadOn(Reading(res, f, ls, bs, t, n), <<r(1)>> \o <<r(k - 1)>>)
        = Cover!ReadOn(Cover!ReadOn(Reading(res, f, ls, bs, t, n), <<r(1)>>), <<r(k - 1)>>)
    BY <1>2, <2>2, ReadJoined
  <2>4. Cover!ReadOn(Reading(res, f, ls, bs, t, n), <<r(1)>>) = Reading(res, f, Cover!Put(ls, l, 1), bs, t, n)
    BY <1>5, ReadOne
  <2>5. Cover!ReadOn(Reading(res, f, Cover!Put(ls, l, 1), bs, t, n), <<r(k - 1)>>) = Reading(res, f, Cover!Put(ls, l, k), bs, t, n)
    BY <1>6, <2>2, ReadOne
  <2>6. <<r(1)>> \o <<r(k - 1)>> \in Seq(X)
    BY <1>2, <2>2, ConcatProperties
  <2> QED
    BY <2>1, <2>2, <2>3, <2>4, <2>5, <2>6 DEF X
<1>8. CASE ~(k > 1)
  <2>1. Cover!LineRecords(l, k) = <<r(k)>>
    BY <1>8 DEF Cover!LineRecords, r
  <2> QED
    BY <1>2, <1>5, <2>1, ReadOne DEF X
<1> QED
  BY <1>7, <1>8

(* The lines of a file, in the order that was chosen.                      *)
LEMMA ReadsLines ==
  ASSUME NEW res, NEW f, f # NoFile, NEW hit, IsHits(hit), NEW F
  PROVE  LET order == Cover!SetToSeq(DOMAIN hit)
             das == Cover!FlattenSeq([i \in DOMAIN order |-> Cover!LineRecords(order[i], hit[order[i]])])
         IN  das \in Seq(RecordsOf(F))
             /\ Cover!ReadOn(Reading(res, f, <<>>, <<>>, 0, 0), das) = Reading(res, f, hit, <<>>, 0, 0)
<1> DEFINE D == DOMAIN hit
           order == Cover!SetToSeq(D)
           m == Cardinality(D)
           X == RecordsOf(F)
           p == [i \in DOMAIN order |-> Cover!LineRecords(order[i], hit[order[i]])]
           s == Reading(res, f, <<>>, <<>>, 0, 0)
           Upto(i) == [l \in {order[j] : j \in 1 .. i} |-> hit[l]]
<1>1. D \subseteq Nat /\ IsFiniteSet(D) /\ hit \in [D -> Nat]
  BY DEF IsHits
<1>2. /\ m \in Nat /\ order \in [1 .. m -> D]
      /\ \A i, j \in 1 .. m : order[i] = order[j] => i = j
      /\ \A x \in D : \E i \in 1 .. m : order[i] = x
  <2> HIDE DEF D
  <2> QED
    BY <1>1, SetListed, CoverSetToSeq
<1> HIDE DEF D, order, m
<1>3. \A i \in 1 .. m : order[i] \in D /\ order[i] \in Nat /\ hit[order[i]] \in Nat
  BY <1>1, <1>2
<1>4. p \in Seq(Seq(X)) /\ Len(p) = m
  <2>1. \A i \in 1 .. m : Cover!LineRecords(order[i], hit[order[i]]) \in Seq(X)
    <3> SUFFICES ASSUME NEW i \in 1 .. m PROVE Cover!LineRecords(order[i], hit[order[i]]) \in Seq(X)
      OBVIOUS
    <3>1. order[i] \notin DOMAIN [x \in {} |-> 0]
      OBVIOUS
    <3> QED
      BY <1>3, <3>1, ReadsLine
  <2>2. DOMAIN order = 1 .. m
    BY <1>2
  <2> HIDE DEF X
  <2> QED
    BY <1>2, <2>1, <2>2
<1>5. PICK J : Joined(J, p, X) /\ FlattenSeq(p) = J[m]
  <2> HIDE DEF p, X
  <2> QED
    BY <1>4, FlattenSteps
<1>6. J \in [0 .. m -> Seq(X)] /\ J[0] = <<>> /\ \A i \in 1 .. m : J[i] = J[i - 1] \o p[i]
  BY <1>4, <1>5 DEF Joined
<1>7. \A i \in 1 .. m : p[i] = Cover!LineRecords(order[i], hit[order[i]]) /\ p[i] \in Seq(X)
  <2>1. DOMAIN order = 1 .. m
    BY <1>2
  <2> QED
    BY <1>2, <1>3, <1>4, <2>1, LenProperties
<1> HIDE DEF p, X, s
<1> DEFINE T == {i \in 0 .. m : Cover!ReadOn(s, J[i]) = Reading(res, f, Upto(i), <<>>, 0, 0)}
<1>8. 0 \in T
  <2>1. Upto(0) = <<>>
    OBVIOUS
  <2> HIDE DEF Upto
  <2> QED
    BY <1>2, <1>6, <2>1, ReadNone DEF s
<1>9. ASSUME NEW i \in 0 .. m - 1, i \in T PROVE i + 1 \in T
  <2> DEFINE k == i + 1
             l == order[k]
             ls == Upto(i)
  <2>1. k \in 1 .. m /\ k \in 0 .. m /\ i \in 0 .. m /\ k - 1 = i /\ ~(k \in 1 .. i)
    BY <1>2
  <2>2. l \notin DOMAIN ls
    BY <1>2, <2>1
  <2>3. Cover!Put(ls, l, hit[l]) = Upto(k)
    <3>1. {order[j] : j \in 1 .. k} = {order[j] : j \in 1 .. i} \cup {l}
      BY <1>2, <2>1
    <3> QED
      BY <3>1 DEF Cover!Put
  <2>4. l \in Nat /\ hit[l] \in Nat /\ p[k] = Cover!LineRecords(l, hit[l]) /\ p[k] \in Seq(X) /\ J[i] \in Seq(X) /\ J[k] = J[i] \o p[k]
    BY <1>3, <1>6, <1>7, <2>1
  <2>5. Cover!ReadOn(s, J[i]) = Reading(res, f, ls, <<>>, 0, 0)
    BY <1>9
  <2> HIDE DEF ls, l, k, Upto
  <2>6. Cover!ReadOn(s, J[k]) = Cover!ReadOn(Cover!ReadOn(s, J[i]), p[k])
    BY <2>4, ReadJoined
  <2>7. /\ Cover!ReadOn(Reading(res, f, ls, <<>>, 0, 0), Cover!LineRecords(l, hit[l])) = Reading(res, f, Cover!Put(ls, l, hit[l]), <<>>, 0, 0)
        /\ Cover!LineRecords(l, hit[l]) \in Seq(RecordsOf(F))
    <3> DEFINE n == hit[l]
    <3>1. l \in Nat /\ l \notin DOMAIN ls /\ n \in Nat
      BY <2>2, <2>4
    <3> HIDE DEF n
    <3>2. /\ Cover!ReadOn(Reading(res, f, ls, <<>>, 0, 0), Cover!LineRecords(l, n)) = Reading(res, f, Cover!Put(ls, l, n), <<>>, 0, 0)
          /\ Cover!LineRecords(l, n) \in Seq(RecordsOf(F))
      BY <3>1, ReadsLine
    <3> QED
      BY <3>2 DEF n
  <2>8. Cover!ReadOn(s, J[k]) = Reading(res, f, Upto(k), <<>>, 0, 0)
    BY <2>3, <2>4, <2>5, <2>6, <2>7
  <2> QED
    BY <2>1, <2>8 DEF k
<1>10. Upto(m) = hit
  <2>1. {order[j] : j \in 1 .. m} = D
    BY <1>2
  <2> QED
    BY <1>1, <2>1
<1> HIDE DEF Upto, T
<1>11. \A i \in 0 .. m : i \in T
  <2>1. m \in Nat
    BY <1>2
  <2> QED
    BY ONLY <2>1, <1>8, <1>9, NumbersUpTo, Zenon
<1>12. Cover!ReadOn(s, J[m]) = Reading(res, f, hit, <<>>, 0, 0)
  <2>1. m \in T
    BY <1>2, <1>11
  <2> QED
    BY <2>1, <1>10 DEF T
<1>13. Cover!FlattenSeq(p) = J[m] /\ J[m] \in Seq(X)
  <2>1. Cover!FlattenSeq(p) = J[m]
    BY <1>5, CoverFlattenSeq
  <2> QED
    BY <2>1, <1>2, <1>6
<1>14. Cover!FlattenSeq(p) \in Seq(X) /\ Cover!ReadOn(s, Cover!FlattenSeq(p)) = Reading(res, f, hit, <<>>, 0, 0)
  BY <1>12, <1>13
<1> QED
  BY <1>14 DEF p, order, D, X, s

LEMMA ReadsBranches ==
  ASSUME NEW res, NEW f, f # NoFile, NEW ls, NEW t, NEW n, NEW bs, bs \in BranchLists, NEW F
  PROVE  /\ Cover!BranchRecords(bs) \in Seq(RecordsOf(F))
         /\ Cover!ReadOn(Reading(res, f, ls, <<>>, t, n), Cover!BranchRecords(bs)) = Reading(res, f, ls, bs, t, n)
<1> DEFINE m == Len(bs)
           q == Cover!BranchRecords(bs)
           B == [line : Nat, taken : Nat]
           s == Reading(res, f, ls, <<>>, t, n)
<1>1. m \in Nat /\ bs \in Seq(B) /\ DOMAIN bs = 1 .. m /\ bs \in [1 .. m -> B]
  BY LenProperties DEF BranchLists
<1>2. \A i \in 1 .. m : bs[i] = [line |-> bs[i].line, taken |-> bs[i].taken] /\ bs[i].line \in Nat /\ bs[i].taken \in Nat
  BY <1>1
<1> HIDE DEF m, B
<1>3. q = [i \in 1 .. m |-> Cover!Record("BRDA", bs[i].line, bs[i].taken)]
  BY <1>1 DEF Cover!BranchRecords
<1>4. \A i \in 1 .. m : q[i] = Cover!Record("BRDA", bs[i].line, bs[i].taken) /\ q[i] \in RecordsOf(F)
  <2> SUFFICES ASSUME NEW i \in 1 .. m
               PROVE  q[i] = Cover!Record("BRDA", bs[i].line, bs[i].taken) /\ q[i] \in RecordsOf(F)
    OBVIOUS
  <2>1. q[i] = Cover!Record("BRDA", bs[i].line, bs[i].taken)
    BY <1>3
  <2>2. bs[i].line \in Nat \cup F /\ bs[i].taken \in Nat /\ "BRDA" \in Tags
    BY <1>2 DEF Tags
  <2>3. Cover!Record("BRDA", bs[i].line, bs[i].taken) \in RecordsOf(F)
    BY <2>2, IsRecord, Zenon
  <2> QED
    BY <2>1, <2>3
<1>5. Len(q) = m /\ q \in Seq(RecordsOf(F))
  <2> HIDE DEF q
  <2>1. q \in [1 .. m -> RecordsOf(F)]
    BY <1>3, <1>4
  <2> QED
    BY <1>1, <2>1
<1> HIDE DEF q, s
<1>6. PICK st : Reads(st, s, q) /\ Cover!ReadOn(s, q) = st[m]
  BY <1>1, <1>5, ReadOnSteps
<1>7. st[0] = s /\ \A i \in 1 .. m : st[i] = Cover!LcovStep(st[i - 1], q[i])
  <2>1. st[0] = s /\ \A i \in 1 .. Len(q) : st[i] = Cover!LcovStep(st[i - 1], q[i])
    BY <1>1, <1>5, <1>6, ReadAt
  <2> QED
    BY <1>5, <2>1
<1> DEFINE Upto(i) == SubSeq(bs, 1, i)
           T == {i \in 0 .. m : st[i] = Reading(res, f, ls, Upto(i), t, n)}
<1>8. 0 \in T
  <2>1. Upto(0) = <<>>
    BY <1>1, SubSeqEmpty
  <2> HIDE DEF Upto
  <2> QED
    BY <1>1, <1>7, <2>1 DEF s
<1>9. ASSUME NEW i \in 0 .. m - 1, i \in T PROVE i + 1 \in T
  <2> DEFINE k == i + 1
  <2>1. k \in 1 .. m /\ k \in 0 .. m /\ k - 1 = i /\ i \in 0 .. m
    BY <1>1
  <2>2. Append(Upto(i), bs[k]) = Upto(k)
    <3>1. Upto(k) \in Seq(B) /\ Upto(i) \in Seq(B) /\ Len(Upto(k)) = k /\ Len(Upto(i)) = i
          /\ (\A j \in 1 .. k : Upto(k)[j] = bs[j]) /\ (\A j \in 1 .. i : Upto(i)[j] = bs[j])
      BY <1>1, <2>1
    <3> HIDE DEF Upto, k
    <3>2. bs[k] \in B
      BY <1>1, <2>1
    <3> QED
      BY <2>1, <3>1, <3>2
  <2>3. st[k] = Cover!LcovStep(st[i], q[k]) /\ q[k] = Cover!Record("BRDA", bs[k].line, bs[k].taken)
    BY <1>4, <1>7, <2>1
  <2>4. st[i] = Reading(res, f, ls, Upto(i), t, n)
    BY <1>9
  <2> HIDE DEF Upto, k
  <2>5. st[k] = Reading(res, f, ls, Append(Upto(i), [line |-> bs[k].line, taken |-> bs[k].taken]), t, n)
    BY <2>3, <2>4, ReadsBranch
  <2>6. [line |-> bs[k].line, taken |-> bs[k].taken] = bs[k]
    BY <1>2, <2>1
  <2>7. st[k] = Reading(res, f, ls, Upto(k), t, n)
    BY <2>2, <2>5, <2>6
  <2> QED
    BY <2>1, <2>7 DEF k
<1>10. Upto(m) = bs
  BY <1>1, SubSeqFull DEF m
<1> HIDE DEF Upto, T
<1>11. \A i \in 0 .. m : i \in T
  BY ONLY <1>1, <1>8, <1>9, NumbersUpTo, Zenon
<1>12. st[m] = Reading(res, f, ls, bs, t, n)
  <2>1. m \in T
    BY <1>1, <1>11
  <2> QED
    BY <2>1, <1>10 DEF T
<1> QED
  BY <1>5, <1>6, <1>12 DEF q, s

LEMMA PairJoined == ASSUME NEW x, NEW y PROVE <<x, y>> = <<x>> \o <<y>>
<1> DEFINE X == {x, y}
<1>1. <<x>> \in Seq(X) /\ <<y>> \in Seq(X) /\ <<x, y>> \in Seq(X)
  OBVIOUS
<1>2. Len(<<x>>) = 1 /\ Len(<<y>>) = 1 /\ Len(<<x, y>>) = 2 /\ <<x>>[1] = x /\ <<y>>[1] = y
      /\ <<x, y>>[1] = x /\ <<x, y>>[2] = y
  OBVIOUS
<1> DEFINE q == <<x>> \o <<y>>
<1>3. q \in Seq(X) /\ Len(q) = 2 /\ q[1] = x /\ q[2] = y
  <2>1. 1 \in 1 .. 1 + 1 /\ 2 \in 1 .. 1 + 1 /\ 1 <= 1 /\ ~(2 <= 1) /\ 2 - 1 = 1 /\ 1 + 1 = 2
    OBVIOUS
  <2> HIDE DEF X
  <2> QED
    BY <1>1, <1>2, <2>1, ConcatProperties
<1> HIDE DEF q, X
<1>4. <<x, y>> = q
  BY <1>1, <1>2, <1>3, SeqEqual
<1> QED
  BY <1>4 DEF q

(* What is kept of a file when its records have been read.                 *)
Kept(f, hit, bs, totals) ==
  Cover!Committed(Reading(<<>>, f, hit, bs, IF totals THEN Cover!Cardinality(DOMAIN hit) ELSE 0,
                          IF totals THEN Cover!Cardinality(Cover!HitLines(hit)) ELSE 0).current)

LEMMA KeptIs ==
  ASSUME NEW f, NEW hit, NEW bs, NEW totals \in BOOLEAN
  PROVE  LET K == Kept(f, hit, bs, totals)
         IN  /\ K.lines = hit /\ K.branches = bs
             /\ K.lineTotal = Cover!Cardinality(DOMAIN hit) /\ K.lineHit = Cover!Cardinality(Cover!HitLines(hit))
<1> DEFINE x == Cover!Cardinality(DOMAIN hit)
           y == Cover!Cardinality(Cover!HitLines(hit))
           t == IF totals THEN x ELSE 0
           n == IF totals THEN y ELSE 0
           K == Cover!Committed(Reading(<<>>, f, hit, bs, t, n).current)
<1>1. t \in {0, x} /\ n \in {0, y}
  OBVIOUS
<1> HIDE DEF t, n
<1>2. /\ K.lines = hit /\ K.branches = bs
      /\ t \in {0, x} => K.lineTotal = x
      /\ n \in {0, y} => K.lineHit = y
  BY CommittedIs
<1>3. K = Kept(f, hit, bs, totals)
  BY DEF Kept, t, n
<1> HIDE DEF K, x, y
<1>4. K.lines = hit /\ K.branches = bs /\ K.lineTotal = x /\ K.lineHit = y
  BY <1>1, <1>2
<1> QED
  BY <1>3, <1>4 DEF x, y

LEMMA ReadsWholeFile ==
  ASSUME NEW res, NEW F, NEW f \in F, f # NoFile, NEW hit, IsHits(hit), NEW bs, bs \in BranchLists, NEW totals \in BOOLEAN
  PROVE  /\ Cover!FileRecords(f, hit, bs, totals) \in Seq(RecordsOf(F))
         /\ Cover!ReadOn(Reading(res, NoFile, <<>>, <<>>, 0, 0), Cover!FileRecords(f, hit, bs, totals))
            = Reading(Cover!Put(res, f, Kept(f, hit, bs, totals)), NoFile, <<>>, <<>>, 0, 0)
<1> DEFINE X == RecordsOf(F)
           order == Cover!SetToSeq(DOMAIN hit)
           das == Cover!FlattenSeq([i \in DOMAIN order |-> Cover!LineRecords(order[i], hit[order[i]])])
           x == Cover!Cardinality(DOMAIN hit)
           y == Cover!Cardinality({l \in DOMAIN hit : hit[l] > 0})
           r0 == Cover!Record("SF", f, 0)
           r1 == Cover!Record("LF", 0, x)
           r2 == Cover!Record("LH", 0, y)
           r3 == Cover!Record("end", 0, 0)
           sums == IF totals THEN <<r1, r2>> ELSE <<>>
           brs == Cover!BranchRecords(bs)
           t == IF totals THEN x ELSE 0
           n == IF totals THEN y ELSE 0
           s0 == Reading(res, NoFile, <<>>, <<>>, 0, 0)
           s1 == Reading(res, f, <<>>, <<>>, 0, 0)
           s2 == Reading(res, f, hit, <<>>, 0, 0)
           s3 == Reading(res, f, hit, bs, 0, 0)
           s4 == Reading(res, f, hit, bs, t, n)
           K == Cover!Committed(s4.current)
           s5 == Reading(Cover!Put(res, f, K), NoFile, <<>>, <<>>, 0, 0)
<1>1. Cover!FileRecords(f, hit, bs, totals) = <<r0>> \o das \o brs \o sums \o <<r3>>
  BY Zenon DEF Cover!FileRecords
<1>2. x \in Nat /\ y \in Nat
  <2>1. IsFiniteSet(DOMAIN hit) /\ IsFiniteSet({l \in DOMAIN hit : hit[l] > 0})
    BY FS_Subset DEF IsHits
  <2> QED
    BY <2>1, FS_CardinalityType, CoverCardinality
<1>3. K = Kept(f, hit, bs, totals)
  BY DEF Kept, Reading, Cover!HitLines
<1>4. r0 \in X /\ r1 \in X /\ r2 \in X /\ r3 \in X
  <2>1. 0 \in Nat /\ 0 \in Nat \cup F /\ f \in Nat \cup F
    OBVIOUS
  <2>2. "SF" \in Tags /\ "LF" \in Tags /\ "LH" \in Tags /\ "end" \in Tags
    BY DEF Tags
  <2> HIDE DEF x, y
  <2>3. r0 \in X
    BY <2>1, <2>2, IsRecord, Zenon
  <2>4. r1 \in X
    BY <1>2, <2>1, <2>2, IsRecord, Zenon
  <2>5. r2 \in X
    BY <1>2, <2>1, <2>2, IsRecord, Zenon
  <2>6. r3 \in X
    BY <2>1, <2>2, IsRecord, Zenon
  <2> QED
    BY <2>3, <2>4, <2>5, <2>6
<1>5. das \in Seq(X) /\ Cover!ReadOn(s1, das) = s2
  BY ReadsLines, Zenon
<1>6. brs \in Seq(X) /\ Cover!ReadOn(s2, brs) = s3
  BY ReadsBranches, Zenon
<1> HIDE DEF das, order, brs
<1>7. Cover!ReadOn(s0, <<r0>>) = s1
  BY ReadsFile, ReadOne
<1>8. Cover!LcovStep(s4, r3) = s5
  <2>1. Cover!Committed(s4.current) = Cover!Committed(Reading(res, f, hit, bs, t, n).current)
    OBVIOUS
  <2> HIDE DEF t, n
  <2> QED
    BY ReadsEnd
<1>9. sums \in Seq(X) /\ Cover!ReadOn(s3, sums) = s4
  <2>1. CASE totals
    <3>1. sums = <<r1>> \o <<r2>> /\ <<r1>> \in Seq(X) /\ <<r2>> \in Seq(X)
      <4>1. sums = <<r1, r2>>
        BY <2>1
      <4> HIDE DEF r1, r2, X, sums
      <4>2. <<r1, r2>> = <<r1>> \o <<r2>>
        BY PairJoined
      <4>3. <<r1>> \in Seq(X) /\ <<r2>> \in Seq(X)
        BY <1>4
      <4> QED
        BY <4>1, <4>2, <4>3
    <3>2. t = x /\ n = y
      BY <2>1
    <3> HIDE DEF sums, X, x, y, t, n
    <3>3. Cover!ReadOn(s3, <<r1>>) = Reading(res, f, hit, bs, x, 0)
      BY ReadsLineTotal, ReadOne
    <3>4. Cover!ReadOn(Reading(res, f, hit, bs, x, 0), <<r2>>) = Reading(res, f, hit, bs, x, y)
      BY ReadsHitTotal, ReadOne
    <3> HIDE DEF r1, r2, s3
    <3>5. Cover!ReadOn(s3, <<r1>> \o <<r2>>) = Cover!ReadOn(Cover!ReadOn(s3, <<r1>>), <<r2>>)
      BY <3>1, ReadJoined
    <3>6. sums \in Seq(X)
      BY <3>1, ConcatProperties
    <3> QED
      BY <3>1, <3>2, <3>3, <3>4, <3>5, <3>6
  <2>2. CASE ~totals
    <3>1. sums = <<>> /\ t = 0 /\ n = 0
      BY <2>2
    <3> HIDE DEF sums, X, t, n
    <3> QED
      BY <3>1, EmptySeq, ReadNone
  <2> QED
    BY <2>1, <2>2
<1> HIDE DEF s0, s1, s2, s3, s4, s5, sums, r0, r1, r2, r3, X, K, t, n, x, y
<1>10. Cover!ReadOn(s4, <<r3>>) = s5
  BY <1>8, ReadOne
<1>11. <<r0>> \in Seq(X) /\ <<r3>> \in Seq(X)
  BY <1>4
<1> DEFINE q1 == <<r0>> \o das
           q2 == q1 \o brs
           q3 == q2 \o sums
           q4 == q3 \o <<r3>>
<1>12. q1 \in Seq(X) /\ Cover!ReadOn(s0, q1) = s2
  BY <1>5, <1>7, <1>11, ReadJoined, ConcatProperties
<1> HIDE DEF q1
<1>13. q2 \in Seq(X) /\ Cover!ReadOn(s0, q2) = s3
  BY <1>6, <1>12, ReadJoined, ConcatProperties
<1> HIDE DEF q2
<1>14. q3 \in Seq(X) /\ Cover!ReadOn(s0, q3) = s4
  BY <1>9, <1>13, ReadJoined, ConcatProperties
<1> HIDE DEF q3
<1>15. q4 \in Seq(X) /\ Cover!ReadOn(s0, q4) = s5
  BY <1>10, <1>11, <1>14, ReadJoined, ConcatProperties
<1>16. Cover!FileRecords(f, hit, bs, totals) = q4
  BY <1>1 DEF q1, q2, q3
<1> QED
  BY <1>3, <1>15, <1>16 DEF s0, s5, X

(* A tracefile is read as what was kept of each of its files.              *)
IsCoverage(h) ==
  /\ IsFiniteSet(DOMAIN h) /\ NoFile \notin DOMAIN h
  /\ \A f \in DOMAIN h : IsHits(h[f].hits) /\ h[f].branches \in BranchLists

LEMMA ReadsTracefile ==
  ASSUME NEW h, IsCoverage(h), NEW totals \in BOOLEAN
  PROVE  Cover!ParseLcov(Cover!Tracefile(h, totals)) = [f \in DOMAIN h |-> Kept(f, h[f].hits, h[f].branches, totals)]
<1> DEFINE D == DOMAIN h
           order == Cover!SetToSeq(D)
           m == Cardinality(D)
           X == RecordsOf(D)
           p == [i \in DOMAIN order |-> Cover!FileRecords(order[i], h[order[i]].hits, h[order[i]].branches, totals)]
           K(f) == Kept(f, h[f].hits, h[f].branches, totals)
           s == Reading(<<>>, NoFile, <<>>, <<>>, 0, 0)
           Upto(i) == [f \in {order[j] : j \in 1 .. i} |-> K(f)]
<1>1. IsFiniteSet(D)
  BY DEF IsCoverage
<1>2. /\ m \in Nat /\ order \in [1 .. m -> D]
      /\ \A i, j \in 1 .. m : order[i] = order[j] => i = j
      /\ \A x \in D : \E i \in 1 .. m : order[i] = x
  <2> HIDE DEF D
  <2> QED
    BY <1>1, SetListed, CoverSetToSeq
<1>3. \A f \in D : f # NoFile /\ IsHits(h[f].hits) /\ h[f].branches \in BranchLists
  BY DEF IsCoverage
<1>a. Cover!Tracefile(h, totals) = Cover!FlattenSeq(p)
  BY DEF Cover!Tracefile
<1>b. s = [result |-> <<>>, current |-> Cover!NoFileRead]
  BY DEF Reading, Cover!NoFileRead
<1> HIDE DEF D, order, m, K
<1>r. ASSUME NEW res, NEW i \in 1 .. m
      PROVE  /\ p[i] \in Seq(X)
             /\ Cover!ReadOn(Reading(res, NoFile, <<>>, <<>>, 0, 0), p[i])
                = Reading(Cover!Put(res, order[i], K(order[i])), NoFile, <<>>, <<>>, 0, 0)
  <2> DEFINE f == order[i]
             hit == h[f].hits
             bs == h[f].branches
  <2>1. f \in D /\ f # NoFile /\ IsHits(hit) /\ bs \in BranchLists
    BY <1>2, <1>3
  <2>2. p[i] = Cover!FileRecords(f, hit, bs, totals)
    BY <1>2
  <2>3. K(f) = Kept(f, hit, bs, totals)
    BY DEF K
  <2> HIDE DEF f, hit, bs, p
  <2>4. /\ Cover!FileRecords(f, hit, bs, totals) \in Seq(RecordsOf(D))
        /\ Cover!ReadOn(Reading(res, NoFile, <<>>, <<>>, 0, 0), Cover!FileRecords(f, hit, bs, totals))
           = Reading(Cover!Put(res, f, Kept(f, hit, bs, totals)), NoFile, <<>>, <<>>, 0, 0)
    BY <2>1, ReadsWholeFile
  <2> QED
    BY <2>2, <2>3, <2>4 DEF f
<1>4. p \in Seq(Seq(X)) /\ Len(p) = m
  <2>1. \A i \in 1 .. m : p[i] \in Seq(X)
    BY <1>r
  <2>2. p = [i \in 1 .. m |-> p[i]]
    BY <1>2
  <2> HIDE DEF X, p
  <2> QED
    BY <1>2, <2>1, <2>2
<1>5. PICK J : Joined(J, p, X) /\ FlattenSeq(p) = J[m]
  <2> HIDE DEF p, X
  <2> QED
    BY <1>4, FlattenSteps
<1>6. J \in [0 .. m -> Seq(X)] /\ J[0] = <<>> /\ \A i \in 1 .. m : J[i] = J[i - 1] \o p[i]
  BY <1>4, <1>5 DEF Joined
<1> HIDE DEF p, X, s
<1> DEFINE T == {i \in 0 .. m : Cover!ReadOn(s, J[i]) = Reading(Upto(i), NoFile, <<>>, <<>>, 0, 0)}
<1>8. 0 \in T
  <2>1. Upto(0) = <<>>
    OBVIOUS
  <2> HIDE DEF Upto
  <2> QED
    BY <1>2, <1>6, <2>1, ReadNone DEF s
<1>9. ASSUME NEW i \in 0 .. m - 1, i \in T PROVE i + 1 \in T
  <2> DEFINE k == i + 1
             f == order[k]
             res == Upto(i)
  <2>1. k \in 1 .. m /\ k \in 0 .. m /\ i \in 0 .. m /\ k - 1 = i /\ ~(k \in 1 .. i)
    BY <1>2
  <2>2. Cover!Put(res, f, K(f)) = Upto(k)
    <3>1. {order[j] : j \in 1 .. k} = {order[j] : j \in 1 .. i} \cup {f}
      BY <1>2, <2>1
    <3> QED
      BY <3>1 DEF Cover!Put
  <2>3. Cover!ReadOn(s, J[i]) = Reading(res, NoFile, <<>>, <<>>, 0, 0)
    BY <1>9
  <2> HIDE DEF res, k, Upto
  <2>4. /\ p[k] \in Seq(X) /\ J[i] \in Seq(X) /\ J[k] = J[i] \o p[k]
        /\ Cover!ReadOn(Reading(res, NoFile, <<>>, <<>>, 0, 0), p[k]) = Reading(Cover!Put(res, f, K(f)), NoFile, <<>>, <<>>, 0, 0)
    BY <1>6, <1>r, <2>1
  <2> HIDE DEF f
  <2>5. Cover!ReadOn(s, J[k]) = Cover!ReadOn(Cover!ReadOn(s, J[i]), p[k])
    BY <2>4, ReadJoined
  <2>6. Cover!ReadOn(s, J[k]) = Reading(Upto(k), NoFile, <<>>, <<>>, 0, 0)
    BY <2>2, <2>3, <2>4, <2>5
  <2> QED
    BY <2>1, <2>6 DEF k
<1>10. Upto(m) = [f \in D |-> K(f)]
  <2>1. {order[j] : j \in 1 .. m} = D
    BY <1>2
  <2> QED
    BY <2>1
<1> HIDE DEF Upto, T
<1>11. \A i \in 0 .. m : i \in T
  <2>1. m \in Nat
    BY <1>2
  <2> QED
    BY ONLY <2>1, <1>8, <1>9, NumbersUpTo, Zenon
<1>12. Cover!ReadOn(s, J[m]) = Reading(Upto(m), NoFile, <<>>, <<>>, 0, 0)
  <2>1. m \in T
    BY <1>2, <1>11
  <2> QED
    BY <2>1 DEF T
<1>13. Cover!Tracefile(h, totals) = J[m]
  BY <1>5, <1>a, CoverFlattenSeq
<1>14. Cover!ParseLcov(Cover!Tracefile(h, totals)) = Cover!ReadOn(s, J[m]).result
  BY <1>13, <1>b DEF Cover!ParseLcov
<1>15. Reading(Upto(m), NoFile, <<>>, <<>>, 0, 0).result = Upto(m)
  BY DEF Reading
<1>16. Cover!ParseLcov(Cover!Tracefile(h, totals)) = [f \in D |-> K(f)]
  BY <1>10, <1>12, <1>14, <1>15
<1> QED
  BY <1>16 DEF D, K

(* What is loaded of a run's tracefile fits the run.                       *)
LEMMA LoadedCovers ==
  ASSUME NEW h, IsCoverage(h), Cover!Loads(h), command = Cover!Percentage(kept),
         \A f \in DOMAIN ran : ran[f] = Cover!Decorations(kept, f)
  PROVE  Cover!FitsRun(h)
<1>1. PICK totals \in BOOLEAN : DOMAIN kept = DOMAIN h /\ \A f \in DOMAIN h : kept[f] = Kept(f, h[f].hits, h[f].branches, totals)
  <2>1. ASSUME kept = <<>> /\ h = <<>>
        PROVE  \E totals \in BOOLEAN :
                 DOMAIN kept = DOMAIN h /\ \A f \in DOMAIN h : kept[f] = Kept(f, h[f].hits, h[f].branches, totals)
    <3>1. DOMAIN kept = {} /\ DOMAIN h = {}
      BY <2>1
    <3> QED
      BY <3>1
  <2>2. ASSUME NEW totals \in BOOLEAN, kept = Cover!ParseLcov(Cover!Tracefile(h, totals))
        PROVE  DOMAIN kept = DOMAIN h /\ \A f \in DOMAIN h : kept[f] = Kept(f, h[f].hits, h[f].branches, totals)
    BY <2>2, ReadsTracefile
  <2> QED
    BY <2>1, <2>2 DEF Cover!Loads
<1>2. \A f \in DOMAIN h : /\ kept[f].lines = h[f].hits /\ kept[f].branches = h[f].branches
                          /\ kept[f].lineTotal = Cover!Cardinality(DOMAIN h[f].hits)
                          /\ kept[f].lineHit = Cover!Cardinality({l \in DOMAIN h[f].hits : h[f].hits[l] > 0})
  BY <1>1, KeptIs DEF Cover!HitLines
<1>3. ASSUME DOMAIN h # {}
      PROVE  /\ command.total = Cover!SumFunction([f \in DOMAIN h |-> Cover!Cardinality(DOMAIN h[f].hits)])
             /\ command.covered = Cover!SumFunction([f \in DOMAIN h |-> Cover!Cardinality({l \in DOMAIN h[f].hits : h[f].hits[l] > 0})])
  <2> DEFINE t == [f \in DOMAIN kept |-> kept[f].lineTotal]
             n == [f \in DOMAIN kept |-> kept[f].lineHit]
  <2>1. command = [covered |-> Cover!SumFunction(n), total |-> Cover!SumFunction(t)]
    BY <1>1, <1>3 DEF Cover!Percentage
  <2>2. /\ t = [f \in DOMAIN h |-> Cover!Cardinality(DOMAIN h[f].hits)]
        /\ n = [f \in DOMAIN h |-> Cover!Cardinality({l \in DOMAIN h[f].hits : h[f].hits[l] > 0})]
    BY <1>1, <1>2
  <2> HIDE DEF t, n
  <2>3. command.total = Cover!SumFunction(t) /\ command.covered = Cover!SumFunction(n)
    BY <2>1
  <2> QED
    BY <2>2, <2>3
<1>4. ASSUME NEW f \in DOMAIN ran, f \notin DOMAIN h PROVE ran[f] = <<>>
  BY <1>1, <1>4 DEF Cover!Decorations
<1>5. ASSUME NEW f \in DOMAIN ran, f \in DOMAIN h, NEW l \in DOMAIN h[f].hits \cap PaintedLines
      PROVE  /\ ran[f][l] = "uncovered" <=> h[f].hits[l] = 0
             /\ ran[f][l] = "partial" <=>
                  /\ h[f].hits[l] > 0
                  /\ \E i, j \in DOMAIN h[f].branches : h[f].branches[i].line = l /\ h[f].branches[j].line = l
                                                     /\ h[f].branches[i].taken = 0 /\ h[f].branches[j].taken > 0
  <2> DEFINE hit == h[f].hits
             bs == h[f].branches
             Mixed == \E i, j \in DOMAIN bs : bs[i].line = l /\ bs[j].line = l /\ bs[i].taken = 0 /\ bs[j].taken > 0
  <2>1. ran[f][l] = IF hit[l] = 0 THEN "uncovered" ELSE IF Cover!Partial(bs, l) THEN "partial" ELSE "covered"
    <3> DEFINE e == kept[f]
    <3>1. e.lines = hit /\ e.branches = bs /\ f \in DOMAIN kept /\ ran[f] = Cover!Decorations(kept, f)
      BY <1>1, <1>2, <1>5
    <3>2. l \in DOMAIN hit \cap PaintedLines
      OBVIOUS
    <3> HIDE DEF hit, bs
    <3>3. ran[f] = [x \in DOMAIN e.lines \cap PaintedLines |->
                      IF e.lines[x] = 0 THEN "uncovered" ELSE IF Cover!Partial(e.branches, x) THEN "partial" ELSE "covered"]
      BY <3>1 DEF Cover!Decorations
    <3> HIDE DEF e
    <3> QED
      BY <3>1, <3>2, <3>3
  <2>2. hit[l] \in Nat /\ \A i \in DOMAIN bs : bs[i].taken \in Nat
    <3>1. IsHits(hit) /\ bs \in Seq([line : Nat, taken : Nat]) /\ l \in DOMAIN hit
      BY <1>5 DEF IsCoverage, BranchLists
    <3> HIDE DEF hit, bs
    <3>2. hit[l] \in Nat
      BY <3>1 DEF IsHits
    <3>3. \A i \in DOMAIN bs : bs[i] \in [line : Nat, taken : Nat]
      BY <3>1, LenProperties
    <3> QED
      BY <3>2, <3>3
  <2> HIDE DEF hit, bs
  <2>3. Cover!Partial(bs, l) <=> Mixed
    BY <2>2 DEF Cover!Partial
  <2> HIDE DEF Mixed
  <2>4. (ran[f][l] = "uncovered" <=> hit[l] = 0) /\ (ran[f][l] = "partial" <=> hit[l] > 0 /\ Mixed)
    BY <2>1, <2>2, <2>3
  <2> QED
    BY <2>4 DEF hit, bs, Mixed
<1> QED
  BY <1>1, <1>2, <1>3, <1>4, <1>5 DEF Cover!FitsRun

LEMMA RunsHitLines == ASSUME NEW h \in Hits \cup {<<>>} PROVE IsCoverage(h)
<1>1. CASE h \in Hits
  BY <1>1, CoverageAssumption DEF IsCoverage, IsHits, BranchLists
<1>2. CASE h = <<>>
  <2>1. DOMAIN h = {}
    BY <1>2
  <2> QED
    BY <2>1, FS_EmptySet DEF IsCoverage
<1> QED
  BY <1>1, <1>2

(* What is loaded, counted and painted is what one run hit, however its     *)
(* report was written, and without runs that overlap what the run that      *)
(* ended last hit (runCoverage, parseLcov, updateDecorations).              *)
THEOREM CoverageIsShown == PartsSpec => []CoverageIsOfOneRun
<1>1. (part = "cover" => CoverInv) => CoverageIsOfOneRun
  <2> SUFFICES ASSUME part = "cover", CoverInv PROVE Cover!CoverageIsOfOneRun
    BY DEF CoverageIsOfOneRun
  <2>1. /\ Cover!LoadsOneRun /\ saved.hits \in Hits \cup {<<>>}
        /\ command = Cover!Percentage(kept) /\ \A f \in DOMAIN ran : ran[f] = Cover!Decorations(kept, f)
        /\ \E h \in Hits \cup {<<>>} : Cover!Loads(h)
        /\ saved.crossed \/ Cover!Loads(saved.hits)
    BY DEF CoverInv, Cover!LoadsOneRun
  <2>2. ASSUME NEW h \in Hits \cup {<<>>}, Cover!Loads(h) PROVE Cover!FitsRun(h)
    BY <2>1, <2>2, RunsHitLines, LoadedCovers
  <2>3. \E h \in Hits \cup {<<>>} : Cover!FitsRun(h)
    BY <2>1, <2>2
  <2>4. saved.crossed \/ Cover!FitsRun(saved.hits)
    BY <2>1, <2>2
  <2> QED
    BY <2>1, <2>3, <2>4 DEF Cover!CoverageIsOfOneRun
<1> QED
  BY <1>1, ReportsAreOfRuns, PTL
-----------------------------------------------------------------------------
(***************************************************************************)
(* The gas profiler.                                                       *)
(***************************************************************************)
Read == Snapshots \cup {<<>>}
Costs == [k \in DOMAIN saved |-> saved[k].now]

(* What an awaited update leaves to compare with, and what it compares with. *)
Left(a) == IF a.kind = "refresh" THEN a.flat ELSE <<>>
Since(q, base, i) == IF i = 1 THEN base ELSE Left(q[i - 1])
Compares(a, P) == a.kind = "clear" \/ \E lines \in Read : a = Gas!Refresh(lines, P)

(* From the base to the last the updates q are a chain.                    *)
Chained(q, base, end) ==
  /\ end = Since(q, base, Len(q) + 1)
  /\ \A i \in 1 .. Len(q) : Compares(q[i], Since(q, base, i))

GasInv ==
  /\ form = [lines |-> form.lines, reported |-> form.reported] /\ form.lines \in Read \cup {NoFile}
  /\ \E S : reading \in Seq(S)
  /\ \A k \in DOMAIN saved : saved[k] = [first |-> saved[k].first, changes |-> saved[k].changes, now |-> saved[k].now]
  /\ Chained(reading, Costs, kept)

LEMMA UpdateQueued ==
  ASSUME NEW S, NEW q \in Seq(S), NEW base, NEW end, Chained(q, base, end), NEW a, Compares(a, end)
  PROVE  Chained(Append(q, a), base, Left(a)) /\ \E T : Append(q, a) \in Seq(T)
<1> DEFINE r == Append(q, a)
           T == S \cup {a}
<1>1. q \in Seq(T)
  OBVIOUS
<1>2. /\ r \in Seq(T) /\ Len(r) = Len(q) + 1 /\ Len(q) \in Nat /\ r[Len(q) + 1] = a
      /\ \A i \in 1 .. Len(q) : r[i] = q[i]
  BY <1>1, AppendProperties, LenProperties
<1> HIDE DEF r, T
<1>3. \A i \in 1 .. Len(q) + 1 : Since(r, base, i) = Since(q, base, i)
  <2> SUFFICES ASSUME NEW i \in 1 .. Len(q) + 1 PROVE Since(r, base, i) = Since(q, base, i)
    OBVIOUS
  <2>1. i = 1 \/ i - 1 \in 1 .. Len(q)
    BY <1>2
  <2> QED
    BY <1>2, <2>1 DEF Since
<1>4. \A i \in 1 .. Len(r) : Compares(r[i], Since(r, base, i))
  <2> SUFFICES ASSUME NEW i \in 1 .. Len(r) PROVE Compares(r[i], Since(r, base, i))
    OBVIOUS
  <2>1. CASE i = Len(q) + 1
    BY <1>2, <1>3, <2>1 DEF Chained
  <2>2. CASE i \in 1 .. Len(q)
    BY <1>2, <1>3, <2>2 DEF Chained
  <2> QED
    BY <1>2, <2>1, <2>2
<1>5. Since(r, base, Len(r) + 1) = Left(a)
  BY <1>2 DEF Since
<1>6. Chained(r, base, Left(a))
  BY <1>4, <1>5 DEF Chained
<1> QED
  BY <1>2, <1>6 DEF r

LEMMA UpdateTaken ==
  ASSUME NEW S, NEW q \in Seq(S), q # <<>>, NEW base, NEW end, Chained(q, base, end)
  PROVE  Compares(Head(q), base) /\ Chained(Tail(q), Left(Head(q)), end) /\ Tail(q) \in Seq(S)
<1> DEFINE r == Tail(q)
           b == Left(Head(q))
<1>1. /\ r \in Seq(S) /\ Len(q) \in Nat \ {0} /\ Len(r) = Len(q) - 1 /\ Head(q) = q[1]
      /\ \A i \in 1 .. Len(r) : r[i] = q[i + 1]
  BY HeadTailProperties, LenProperties, EmptySeq
<1>2. Compares(Head(q), base)
  BY <1>1 DEF Chained, Since
<1>3. b = Left(q[1])
  BY <1>1
<1> HIDE DEF r, b
<1>4. \A i \in 1 .. Len(q) : Since(r, b, i) = Since(q, base, i + 1)
  <2> SUFFICES ASSUME NEW i \in 1 .. Len(q) PROVE Since(r, b, i) = Since(q, base, i + 1)
    OBVIOUS
  <2>1. i = 1 \/ (i - 1 \in 1 .. Len(r) /\ r[i - 1] = q[i])
    BY <1>1
  <2> QED
    BY <1>3, <2>1 DEF Since
<1>5. \A i \in 1 .. Len(r) : Compares(r[i], Since(r, b, i))
  <2> SUFFICES ASSUME NEW i \in 1 .. Len(r) PROVE Compares(r[i], Since(r, b, i))
    OBVIOUS
  <2>1. i + 1 \in 1 .. Len(q) /\ i \in 1 .. Len(q) /\ r[i] = q[i + 1]
    BY <1>1
  <2> QED
    BY <1>4, <2>1 DEF Chained
<1>6. Since(r, b, Len(r) + 1) = end
  <2>1. Len(r) + 1 = Len(q) /\ Len(q) \in 1 .. Len(q)
    BY <1>1
  <2> QED
    BY <1>4, <2>1 DEF Chained
<1>7. Chained(r, b, end)
  BY <1>5, <1>6 DEF Chained
<1> QED
  BY <1>1, <1>2, <1>7 DEF r, b

(* The map of what was read is a function, and an update leaves it.         *)
LEMMA ReadIsLeft ==
  ASSUME NEW lines, NEW P
  PROVE  /\ Left(Gas!Refresh(lines, P)) = Gas!FlatMap(lines) /\ Gas!Refresh(lines, P).kind = "refresh"
         /\ Gas!FlatMap(lines) = [k \in DOMAIN Gas!FlatMap(lines) |-> Gas!FlatMap(lines)[k]]
<1>1. Gas!Refresh(lines, P).kind = "refresh" /\ Gas!Refresh(lines, P).flat = Gas!FlatMap(lines)
  BY DEF Gas!Refresh
<1>2. Gas!FlatMap(lines) = [k \in DOMAIN Gas!FlatMap(lines) |-> Gas!FlatMap(lines)[k]]
  BY Zenon DEF Gas!FlatMap
<1> QED
  BY <1>1, <1>2 DEF Left

LEMMA LinesAreRead == ASSUME NEW l \in Read \cup {NoFile} PROVE Gas!LoadSnapshot(l) \in Read
BY DEF Gas!LoadSnapshot, Read

(* A refresh is begun: it compares with what the one before it has read.    *)
LEMMA RefreshBegins ==
  ASSUME GasInv, NEW S, NEW q \in Seq(S), NEW base, Chained(q, base, kept), Gas!Refreshed(q)
  PROVE  Chained(reading', base, kept') /\ \E T : reading' \in Seq(T)
<1> DEFINE lines == Gas!LoadSnapshot(form.lines)
           a == Gas!Refresh(lines, kept)
<1>1. reading' = Append(q, a) /\ kept' = Gas!FlatMap(lines)
  BY DEF Gas!Refreshed, Gas!NewBaseline
<1>2. lines \in Read
  BY LinesAreRead DEF GasInv
<1> HIDE DEF lines
<1>3. Compares(a, kept) /\ kept' = Left(a)
  BY <1>1, <1>2, ReadIsLeft DEF Compares
<1> HIDE DEF a
<1> QED
  BY <1>1, <1>3, UpdateQueued

ToldAgain(old, change, g) == [old EXCEPT !.changes = @ + change, !.now = g]
LEMMA CostIsTold ==
  ASSUME NEW old, old = [first |-> old.first, changes |-> old.changes, now |-> old.now], NEW change, NEW g,
         NEW r, r = ToldAgain(old, change, g)
  PROVE  r = [first |-> r.first, changes |-> r.changes, now |-> r.now] /\ r.now = g
<1> DEFINE A == [old EXCEPT !.changes = @ + change]
<1>1. A = [first |-> A.first, changes |-> A.changes, now |-> A.now]
  OBVIOUS
<1> HIDE DEF A
<1> DEFINE B == [A EXCEPT !.now = g]
<1>2. B = [first |-> B.first, changes |-> B.changes, now |-> B.now] /\ B.now = g
  BY <1>1
<1>3. B = ToldAgain(old, change, g)
  BY Zenon DEF A, ToldAgain
<1> HIDE DEF B
<1> QED
  BY <1>2, <1>3

LEMMA TellingFits ==
  ASSUME GasInv, NEW t, NEW k, NEW g, NEW r, r = Gas!Telling(t, k, g)
  PROVE  r = [first |-> r.first, changes |-> r.changes, now |-> r.now] /\ r.now = g
<1> DEFINE c == CHOOSE i \in DOMAIN t : t[i].label = k[1]
           delta == Gas!GasLookup(t[c], k[2]).delta
           change == IF delta = NoFile THEN 0 ELSE delta
<1>1. r = IF k \in DOMAIN saved THEN ToldAgain(saved[k], change, g) ELSE [first |-> g, changes |-> change, now |-> g]
  BY Zenon DEF Gas!Telling, ToldAgain
<1> HIDE DEF change
<1>2. CASE k \in DOMAIN saved
  <2>1. r = ToldAgain(saved[k], change, g) /\ saved[k] = [first |-> saved[k].first, changes |-> saved[k].changes, now |-> saved[k].now]
    BY <1>1, <1>2 DEF GasInv
  <2> QED
    BY <2>1, CostIsTold
<1>3. CASE k \notin DOMAIN saved
  BY <1>1, <1>3
<1> QED
  BY <1>2, <1>3

LEMMA GasInit == PartsInit /\ part = "gas" => GasInv
<1> SUFFICES ASSUME PartsInit, part = "gas" PROVE GasInv
  OBVIOUS
<1>1. Gas!GasInit
  BY Zenon DEF PartsInit
<1>2. PICK s \in Snapshots \cup {NoFile}, P \in {Gas!FlatMap(o) : o \in Snapshots \cup {<<>>}} :
        /\ form = [lines |-> s, reported |-> FALSE]
        /\ kept = Gas!NewBaseline(P, Gas!LoadSnapshot(s)) /\ reading = <<Gas!Refresh(Gas!LoadSnapshot(s), P)>>
        /\ saved = [k \in DOMAIN P |-> [first |-> P[k], changes |-> 0, now |-> P[k]]]
  BY <1>1, Zenon DEF Gas!GasInit
<1> DEFINE lines == Gas!LoadSnapshot(s)
           a == Gas!Refresh(lines, P)
<1>3. lines \in Read
  BY LinesAreRead DEF Read
<1>4. form = [lines |-> form.lines, reported |-> form.reported] /\ form.lines \in Read \cup {NoFile}
  BY <1>2 DEF Read
<1>5. /\ \A k \in DOMAIN saved : saved[k] = [first |-> saved[k].first, changes |-> saved[k].changes, now |-> saved[k].now]
      /\ Costs = P
  <2>1. P = [k \in DOMAIN P |-> P[k]]
    BY ReadIsLeft
  <2>2. DOMAIN saved = DOMAIN P /\ \A k \in DOMAIN P : saved[k] = [first |-> P[k], changes |-> 0, now |-> P[k]]
    BY <1>2
  <2>3. Costs = P
    BY <2>1, <2>2 DEF Costs
  <2> QED
    BY <2>2, <2>3
<1> HIDE DEF lines
<1>6. Compares(a, P) /\ kept = Left(a) /\ reading = <<a>>
  BY <1>2, <1>3, ReadIsLeft DEF Compares, Gas!NewBaseline, lines
<1> HIDE DEF a
<1>7. reading \in Seq({a}) /\ Len(reading) = 1 /\ reading[1] = a
  BY <1>6
<1>8. Chained(reading, Costs, kept)
  BY <1>5, <1>6, <1>7 DEF Chained, Since
<1> QED
  BY <1>4, <1>5, <1>7, <1>8 DEF GasInv

LEMMA SnapshotIsWritten ==
  ASSUME NEW s \in Snapshots \cup {<<>>, NoFile} PROVE GasInv /\ Gas!WriteSnapshot(s) => GasInv'
<1> SUFFICES ASSUME GasInv, Gas!WriteSnapshot(s) PROVE GasInv'
  OBVIOUS
<1>1. form' = [lines |-> s, reported |-> s # NoFile \/ form.reported] /\ UNCHANGED <<kept, reading, saved>>
  BY DEF Gas!WriteSnapshot
<1>2. form' = [lines |-> form'.lines, reported |-> form'.reported] /\ form'.lines \in Read \cup {NoFile}
  BY <1>1 DEF Read
<1> QED
  BY <1>1, <1>2 DEF GasInv, Costs

LEMMA WatcherRefreshes == GasInv /\ Gas!WatcherFires => GasInv'
<1> SUFFICES ASSUME GasInv, Gas!WatcherFires PROVE GasInv'
  OBVIOUS
<1>1. form' = [form EXCEPT !.reported = FALSE] /\ Gas!Refreshed(reading) /\ saved' = saved
  BY DEF Gas!WatcherFires
<1>2. form' = [lines |-> form'.lines, reported |-> form'.reported] /\ form'.lines \in Read \cup {NoFile}
  BY <1>1 DEF GasInv
<1>3. PICK S : reading \in Seq(S)
  BY DEF GasInv
<1>4. Chained(reading', Costs, kept') /\ \E T : reading' \in Seq(T)
  BY <1>1, <1>3, RefreshBegins DEF GasInv
<1> QED
  BY <1>1, <1>2, <1>4 DEF GasInv, Costs

LEMMA HistoryIsCleared == GasInv /\ Gas!ClearHistory => GasInv'
<1> SUFFICES ASSUME GasInv, Gas!ClearHistory PROVE GasInv'
  OBVIOUS
<1> DEFINE a == [kind |-> "clear"]
<1>1. kept' = <<>> /\ reading' = Append(reading, a) /\ UNCHANGED <<form, saved>>
  BY DEF Gas!ClearHistory
<1>2. Compares(a, kept) /\ Left(a) = <<>>
  BY DEF Compares, Left
<1> HIDE DEF a
<1>3. PICK S : reading \in Seq(S)
  BY DEF GasInv
<1>4. Chained(reading', Costs, kept') /\ \E T : reading' \in Seq(T)
  BY <1>1, <1>2, <1>3, UpdateQueued DEF GasInv
<1> QED
  BY <1>1, <1>4 DEF GasInv, Costs

LEMMA UpdateIsStored == GasInv /\ Gas!Stored => GasInv'
<1> SUFFICES ASSUME GasInv, Gas!Stored PROVE GasInv'
  OBVIOUS
<1> DEFINE a == Head(reading)
<1>1. reading # <<>> /\ form' = form
  BY DEF Gas!Stored
<1>2. PICK S : reading \in Seq(S)
  BY DEF GasInv
<1>3. Compares(a, Costs) /\ Chained(Tail(reading), Left(a), kept) /\ Tail(reading) \in Seq(S)
  BY <1>1, <1>2, UpdateTaken DEF GasInv
<1>4. CASE a.kind = "clear"
  <2>1. Gas!Refreshed(Tail(reading)) /\ saved' = <<>>
    BY <1>4, Zenon DEF Gas!Stored
  <2>2. DOMAIN saved' = {} /\ Costs' = <<>> /\ Left(a) = <<>>
    BY <1>4, <2>1 DEF Costs, Left
  <2>3. Chained(reading', Costs', kept') /\ \E T : reading' \in Seq(T)
    BY <1>3, <2>1, <2>2, RefreshBegins
  <2> QED
    BY <1>1, <2>2, <2>3 DEF GasInv
<1>5. CASE a.kind = "refresh"
  <2>1. /\ saved' = [k \in DOMAIN a.flat |-> Gas!Telling(a.tree, k, a.flat[k])]
        /\ reading' = Tail(reading) /\ kept' = kept
    BY <1>5, Zenon DEF Gas!Stored
  <2>2. PICK lines \in Read : a = Gas!Refresh(lines, Costs)
    BY <1>3, <1>5 DEF Compares
  <2>3. Left(a) = a.flat /\ a.flat = [k \in DOMAIN a.flat |-> a.flat[k]]
    BY <1>5, <2>2, ReadIsLeft DEF Left
  <2> HIDE DEF a
  <2>4. \A k \in DOMAIN saved' : /\ saved'[k] = [first |-> saved'[k].first, changes |-> saved'[k].changes, now |-> saved'[k].now]
                                 /\ saved'[k].now = a.flat[k]
    <3> SUFFICES ASSUME NEW k \in DOMAIN saved'
                 PROVE  /\ saved'[k] = [first |-> saved'[k].first, changes |-> saved'[k].changes, now |-> saved'[k].now]
                        /\ saved'[k].now = a.flat[k]
      OBVIOUS
    <3>1. saved'[k] = Gas!Telling(a.tree, k, a.flat[k])
      BY <2>1
    <3> QED
      BY <3>1, TellingFits
  <2>5. Costs' = Left(a)
    <3>1. DOMAIN saved' = DOMAIN a.flat
      BY <2>1
    <3> QED
      BY <2>3, <2>4, <3>1 DEF Costs
  <2> QED
    BY <1>1, <1>3, <2>1, <2>4, <2>5 DEF GasInv
<1> QED
  BY <1>3, <1>4, <1>5, ReadIsLeft DEF Compares

LEMMA GasNext == GasInv /\ [Gas!GasNext]_(Gas!gasVars) => GasInv'
<1> SUFFICES ASSUME GasInv, [Gas!GasNext]_(Gas!gasVars) PROVE GasInv'
  OBVIOUS
<1>1. CASE UNCHANGED <<form, reading, kept, saved>>
  BY <1>1 DEF GasInv, Costs
<1>2. CASE Gas!GasNext
  <2>1. (\E f \in DOMAIN Editors : Gas!ActivateEditor(f)) => UNCHANGED <<form, reading, kept, saved>>
    BY DEF Gas!ActivateEditor
  <2> QED
    BY <1>1, <1>2, <2>1, SnapshotIsWritten, WatcherRefreshes, HistoryIsCleared, UpdateIsStored DEF Gas!GasNext
<1> QED
  BY <1>1, <1>2 DEF Gas!gasVars

LEMMA ShownIsCompared == GasInv => Gas!ChangesAreSinceShown
<1> SUFFICES ASSUME GasInv, reading # <<>>, Head(reading).kind = "refresh"
             PROVE  \E lines \in Read : Head(reading) = Gas!Refresh(lines, Costs)
  BY DEF Gas!ChangesAreSinceShown, Read, Costs
<1>1. PICK S : reading \in Seq(S)
  BY DEF GasInv
<1>2. Compares(Head(reading), Costs)
  BY <1>1, UpdateTaken DEF GasInv
<1> QED
  BY <1>2 DEF Compares

(* Each update that is awaited compares with what the one before it left,  *)
(* the first with the costs that are shown (refresh, gasClearHistory).     *)
THEOREM CostsAreChained == PartsSpec => [](part = "gas" => GasInv)
<1> DEFINE J == part = "gas" => GasInv
<1>1. PartsInit => J
  BY GasInit
<1>2. J /\ [PartsNext]_allVars => J'
  <2> SUFFICES ASSUME J, [PartsNext]_allVars, part' = "gas" PROVE GasInv'
    OBVIOUS
  <2>1. part = "gas" /\ [Gas!GasNext]_(Gas!gasVars)
    BY DEF PartsNext, allVars, viewVars, Gas!gasVars
  <2> QED
    BY <2>1, GasNext
<1> QED
  BY <1>1, <1>2, PTL DEF PartsSpec

(* However refreshes, clears and reports overlap, the next refresh to be   *)
(* shown compares with the costs that are shown (GasProfilerProvider).     *)
THEOREM ChangesAreChained == PartsSpec => [](part = "gas" => Gas!ChangesAreSinceShown)
<1>1. (part = "gas" => GasInv) => (part = "gas" => Gas!ChangesAreSinceShown)
  BY ShownIsCompared
<1> QED
  BY <1>1, CostsAreChained, PTL
-----------------------------------------------------------------------------
(***************************************************************************)
(* The gas profiler's tree.                                                *)
(***************************************************************************)
CostLines == [contract : STRING, fn : STRING, params : STRING, gas : Nat]

LEMMA GasFlattenSeq == ASSUME NEW p PROVE Gas!FlattenSeq(p) = FlattenSeq(p)
BY Zenon DEF FlattenSeq, Gas!FlattenSeq, FoldFunctionOnSet, Gas!FoldFunctionOnSet, FoldFunction, Gas!FoldFunction,
             MapThenFoldSet, Gas!MapThenFoldSet
LEMMA GasSum == ASSUME NEW f, NEW S PROVE Gas!SumFunctionOnSet(f, S) = SumOf(f, S)
BY DEF Gas!SumFunctionOnSet, Gas!FoldFunctionOnSet, Gas!MapThenFoldSet, SumOf, MapThenSumSet, MapThenFoldSet
LEMMA GasCardinality == ASSUME NEW S PROVE Gas!Cardinality(S) = Cardinality(S)
BY Zenon DEF Cardinality, Gas!Cardinality
LEMMA GasMax == ASSUME NEW S PROVE Gas!Max(S) = CHOOSE x \in S : \A y \in S : x >= y
BY DEF Gas!Max
LEMMA GasMin == ASSUME NEW S PROVE Gas!Min(S) = CHOOSE x \in S : \A y \in S : x <= y
BY DEF Gas!Min


(* The totals order the contracts of a snapshot.                           *)
LEMMA TotalType == ASSUME NEW L \in Seq(CostLines), NEW i \in DOMAIN L PROVE Gas!Total(L, i) \in Int
<1> DEFINE S == Gas!OfContract(L, i)
           f == [j \in DOMAIN L |-> L[j].gas]
<1>1. IsFiniteSet(S)
  <2>1. DOMAIN L = 1 .. Len(L) /\ Len(L) \in Nat
    BY LenProperties
  <2>2. IsFiniteSet(1 .. Len(L)) /\ S \in SUBSET (1 .. Len(L))
    BY <2>1, FS_Interval DEF Gas!OfContract
  <2> QED
    BY <2>2, FS_Subset
<1>2. \A x \in S : f[x] \in Int
  <2>1. \A j \in DOMAIN L : L[j] \in CostLines
    BY LenProperties
  <2>2. S \subseteq DOMAIN L
    BY DEF Gas!OfContract
  <2> QED
    BY <2>1, <2>2 DEF CostLines
<1> HIDE DEF S, f
<1>3. SumOf(f, S) \in Int
  BY <1>1, <1>2, SumType
<1> QED
  BY <1>3, GasSum DEF Gas!Total, S, f

LEMMA RankingIs ==
  ASSUME NEW L \in Seq(CostLines)
  PROVE  LET r == Gas!Ranking(L)
             c == Cardinality(Gas!Firsts(L))
         IN  /\ c \in Nat /\ r \in [1 .. c -> Gas!Firsts(L)]
             /\ \A i \in Gas!Firsts(L) : \E n \in 1 .. c : r[n] = i
             /\ \A m, n \in 1 .. c : m # n => r[m] # r[n]
<1> DEFINE F == Gas!Firsts(L)
           c == Cardinality(F)
           R == {p \in F \X F : Gas!CostsMore(L, p[1], p[2])}
<1>1. DOMAIN L = 1 .. Len(L) /\ Len(L) \in Nat
  BY LenProperties
<1>2. IsFiniteSet(F) /\ F \subseteq 1 .. Len(L)
  <2>1. IsFiniteSet(1 .. Len(L)) /\ F \in SUBSET (1 .. Len(L))
    BY <1>1, FS_Interval DEF Gas!Firsts
  <2> QED
    BY <2>1, FS_Subset
<1>3. c \in Nat
  BY <1>2, FS_CardinalityType
<1>4. \A i \in F : i \in Int /\ Gas!Total(L, i) \in Int
  BY <1>1, <1>2, TotalType
<1>5. \A i, j \in F : <<i, j>> \in R <=> Gas!CostsMore(L, i, j)
  OBVIOUS
<1> HIDE DEF R
<1>6. Orders(R, F)
  <2>1. ASSUME NEW x \in F, NEW y \in F PROVE x = y \/ <<x, y>> \in R \/ <<y, x>> \in R
    BY <1>4, <1>5 DEF Gas!CostsMore
  <2>2. ASSUME NEW x \in F, NEW y \in F, NEW z \in F, <<x, y>> \in R, <<y, z>> \in R PROVE <<x, z>> \in R
    BY <1>4, <1>5, <2>2 DEF Gas!CostsMore
  <2> QED
    BY <2>1, <2>2 DEF Orders
<1>7. PICK q : Sorted(q, R, F, c)
  BY <1>2, <1>6, Sorts
<1> DEFINE Ranks(r) == /\ \A i \in F : \E n \in DOMAIN r : r[n] = i
                       /\ \A m, n \in DOMAIN r : m < n => Gas!CostsMore(L, r[m], r[n])
<1>8. q \in [1 .. c -> F] /\ Ranks(q)
  BY <1>5, <1>7 DEF Sorted
<1>9. Gas!Ranking(L) = CHOOSE r \in [1 .. c -> F] : Ranks(r)
  BY GasCardinality, Zenon DEF Gas!Ranking
<1> HIDE DEF F, Ranks
<1>10. Gas!Ranking(L) \in [1 .. c -> F] /\ Ranks(Gas!Ranking(L))
  BY <1>8, <1>9, Zenon
<1> DEFINE r == Gas!Ranking(L)
<1>11. /\ r \in [1 .. c -> F]
       /\ \A i \in F : \E n \in 1 .. c : r[n] = i
       /\ \A m, n \in 1 .. c : m < n => Gas!CostsMore(L, r[m], r[n])
  BY <1>10 DEF Ranks
<1> HIDE DEF r
<1>12. \A i \in F : ~Gas!CostsMore(L, i, i)
  BY <1>4 DEF Gas!CostsMore
<1>13. \A m, n \in 1 .. c : m # n => r[m] # r[n]
  <2> SUFFICES ASSUME NEW m \in 1 .. c, NEW n \in 1 .. c, m # n, r[m] = r[n] PROVE FALSE
    OBVIOUS
  <2>1. m < n \/ n < m
    BY <1>3
  <2>2. Gas!CostsMore(L, r[m], r[m])
    BY <1>11, <2>1
  <2> QED
    BY <1>11, <1>12, <2>2
<1> QED
  BY <1>3, <1>11, <1>13 DEF r, F

(* The tree: one contract for each that the snapshot names, with a child   *)
(* for each of its lines, in their order.                                  *)
ChangeOf(L, P, i) == IF Gas!Key(L[i]) \in DOMAIN P THEN L[i].gas - P[Gas!Key(L[i])] ELSE NoFile
RowOf(L, P, i) == [fn |-> L[i].fn, params |-> L[i].params, gas |-> L[i].gas, delta |-> ChangeOf(L, P, i)]
OwnLines(L, i) == Listed(Gas!OfContract(L, i), Len(L))
TreeOf(L, P) == Gas!WithDeltas(Gas!ParseSnapshot(L), P)

LEMMA TreeIs ==
  ASSUME NEW L \in Seq(CostLines), NEW P
  PROVE  LET r == Gas!Ranking(L)
             t == TreeOf(L, P)
         IN  /\ DOMAIN t = DOMAIN r
             /\ \A m \in DOMAIN r : LET own == OwnLines(L, r[m])
                                    IN  /\ t[m].label = L[r[m]].contract /\ DOMAIN t[m].children = DOMAIN own
                                        /\ \A j \in DOMAIN own : t[m].children[j] = RowOf(L, P, own[j])
<1> DEFINE r == Gas!Ranking(L)
           s == Gas!ParseSnapshot(L)
           t == TreeOf(L, P)
<1>1. s = [n \in DOMAIN r |-> Gas!ContractOf(L, r[n])]
  BY Zenon DEF Gas!ParseSnapshot
<1>2. t = [n \in DOMAIN s |-> Gas!Compared(P, s[n])]
  BY Zenon DEF Gas!WithDeltas, TreeOf
<1>3. \A m \in DOMAIN r : r[m] \in 1 .. Len(L)
  BY RankingIs, LenProperties DEF Gas!Firsts
<1> HIDE DEF r, s, t
<1>4. DOMAIN t = DOMAIN r /\ \A m \in DOMAIN r : t[m] = Gas!Compared(P, Gas!ContractOf(L, r[m]))
  BY <1>1, <1>2
<1>5. ASSUME NEW m \in DOMAIN r
      PROVE  LET own == OwnLines(L, r[m])
             IN  /\ t[m].label = L[r[m]].contract /\ DOMAIN t[m].children = DOMAIN own
                 /\ \A j \in DOMAIN own : t[m].children[j] = RowOf(L, P, own[j])
  <2> DEFINE i == r[m]
             own == OwnLines(L, i)
             e == Gas!ContractOf(L, i)
             Bare(j) == [fn |-> L[own[j]].fn, params |-> L[own[j]].params, gas |-> L[own[j]].gas, delta |-> NoFile]
  <2>1. own = Gas!InOrder(Gas!OfContract(L, i), Len(L))
    BY GasFlattenSeq, Zenon DEF OwnLines, Listed, Gas!InOrder
  <2>2. IsListed(own, Gas!OfContract(L, i), Len(L))
    BY LenProperties, ListedInOrder DEF OwnLines
  <2> HIDE DEF own, i
  <2>3. e.label = L[i].contract /\ e.children = [j \in DOMAIN own |-> Bare(j)]
    BY <2>1 DEF Gas!ContractOf
  <2>4. ASSUME NEW j \in DOMAIN own PROVE L[own[j]].contract = L[i].contract
    <3>1. own[j] \in 1 .. Len(L) /\ HasElement(own, own[j])
      BY <2>2 DEF IsListed, HasElement
    <3>2. own[j] \in Gas!OfContract(L, i)
      BY <2>2, <3>1 DEF IsListed
    <3> QED
      BY <3>2 DEF Gas!OfContract
  <2> HIDE DEF e
  <2>5. t[m] = Gas!Compared(P, e)
    BY <1>4 DEF e, i
  <2>6. t[m].label = e.label /\ t[m].children = [j \in DOMAIN e.children |-> [e.children[j] EXCEPT !.delta = Gas!Changed(P, e.label, e.children[j])]]
    BY <2>5 DEF Gas!Compared
  <2>7. ASSUME NEW j \in DOMAIN own PROVE t[m].children[j] = RowOf(L, P, own[j])
    <3>1. t[m].children[j] = [Bare(j) EXCEPT !.delta = Gas!Changed(P, L[i].contract, Bare(j))]
      BY <2>3, <2>6
    <3>2. Gas!Changed(P, L[i].contract, Bare(j)) = ChangeOf(L, P, own[j])
      BY <2>4 DEF Gas!Changed, ChangeOf, Gas!Key
    <3> QED
      BY <3>1, <3>2 DEF RowOf
  <2>8. DOMAIN t[m].children = DOMAIN own
    BY <2>3, <2>6
  <2> QED
    BY <2>3, <2>6, <2>7, <2>8 DEF own, i
<1> QED
  BY <1>4, <1>5 DEF r, t


(* Each contract of the snapshot is in the tree once.                      *)
LEMMA LabelsAre ==
  ASSUME NEW L \in Seq(CostLines), NEW P
  PROVE  LET t == TreeOf(L, P)
         IN  /\ \A i \in 1 .. Len(L) : \E m \in DOMAIN t : t[m].label = L[i].contract
             /\ \A m, n \in DOMAIN t : t[m].label = t[n].label => m = n
             /\ \E c \in Nat : DOMAIN t = 1 .. c
<1> DEFINE t == TreeOf(L, P)
           r == Gas!Ranking(L)
           F == Gas!Firsts(L)
           c == Cardinality(F)
<1>1. /\ c \in Nat /\ r \in [1 .. c -> F] /\ \A i \in F : \E n \in 1 .. c : r[n] = i
      /\ \A m, n \in 1 .. c : m # n => r[m] # r[n]
  BY RankingIs
<1>2. DOMAIN t = DOMAIN r /\ \A m \in DOMAIN r : t[m].label = L[r[m]].contract
  BY TreeIs
<1>3. DOMAIN L = 1 .. Len(L) /\ Len(L) \in Nat
  BY LenProperties
<1> HIDE DEF t, r, c
<1>4. ASSUME NEW i \in 1 .. Len(L) PROVE \E m \in DOMAIN t : t[m].label = L[i].contract
  <2> DEFINE O == {j \in Nat : j \in 1 .. Len(L) /\ L[j].contract = L[i].contract}
  <2>1. i \in O
    OBVIOUS
  <2>2. PICK k \in O : \A j \in O : k <= j
    BY <2>1, LeastNumber
  <2>3. k \in F /\ L[k].contract = L[i].contract
    BY <1>3, <2>2 DEF Gas!Firsts, Gas!OfContract
  <2>4. PICK n \in 1 .. c : r[n] = k
    BY <1>1, <2>3
  <2>5. n \in DOMAIN t /\ t[n].label = L[i].contract
    BY <1>1, <1>2, <2>3, <2>4
  <2> QED
    BY <2>5
<1>5. ASSUME NEW m \in DOMAIN t, NEW n \in DOMAIN t, t[m].label = t[n].label PROVE m = n
  <2>1. r[m] \in F /\ r[n] \in F /\ L[r[m]].contract = L[r[n]].contract
    BY <1>1, <1>2, <1>5
  <2>2. r[m] \in 1 .. Len(L) /\ r[n] \in 1 .. Len(L) /\ r[m] <= r[n] /\ r[n] <= r[m]
    BY <1>3, <2>1 DEF Gas!Firsts, Gas!OfContract
  <2>3. r[m] = r[n]
    BY <2>2
  <2> QED
    BY <1>1, <1>2, <2>3
<1> QED
  BY <1>1, <1>2, <1>4, <1>5 DEF t

(* The children of a contract are its lines, in their order.               *)
Children(L, P, m, s) ==
  LET e == TreeOf(L, P)[m]
  IN  /\ s \in Seq(1 .. Len(L)) /\ Len(s) \in Nat /\ DOMAIN e.children = 1 .. Len(s)
      /\ \A i \in 1 .. Len(L) : L[i].contract = e.label <=> HasElement(s, i)
      /\ \A i, j \in 1 .. Len(s) : i < j => s[i] < s[j]
      /\ \A j \in 1 .. Len(s) : e.children[j] = RowOf(L, P, s[j])

LEMMA ChildrenAre ==
  ASSUME NEW L \in Seq(CostLines), NEW P, NEW m \in DOMAIN TreeOf(L, P)
  PROVE  \E s : Children(L, P, m, s)
<1> DEFINE t == TreeOf(L, P)
           r == Gas!Ranking(L)
           i == r[m]
           s == OwnLines(L, i)
<1>1. DOMAIN t = DOMAIN r
  BY TreeIs
<1>2. t[m].label = L[i].contract /\ DOMAIN t[m].children = DOMAIN s /\ \A j \in DOMAIN s : t[m].children[j] = RowOf(L, P, s[j])
  BY <1>1, TreeIs
<1>3. IsListed(s, Gas!OfContract(L, i), Len(L))
  BY LenProperties, ListedInOrder DEF OwnLines
<1> HIDE DEF i, s
<1>4. DOMAIN L = 1 .. Len(L) /\ DOMAIN s = 1 .. Len(s)
  BY <1>3, LenProperties DEF IsListed
<1>5. \A j \in 1 .. Len(L) : L[j].contract = t[m].label <=> HasElement(s, j)
  BY <1>2, <1>3, <1>4 DEF IsListed, Gas!OfContract
<1>6. Children(L, P, m, s)
  <2>1. \A j \in 1 .. Len(L) : L[j].contract = TreeOf(L, P)[m].label <=> HasElement(s, j)
    BY <1>5, Zenon
  <2> HIDE DEF t
  <2>2. /\ DOMAIN TreeOf(L, P)[m].children = 1 .. Len(s)
        /\ \A j \in 1 .. Len(s) : TreeOf(L, P)[m].children[j] = RowOf(L, P, s[j])
    BY <1>2, <1>4 DEF t
  <2> QED
    BY <1>3, <2>1, <2>2 DEF Children, IsListed
<1> QED
  BY <1>6

(* What the tree tells of a key is of its last line.                       *)
LastLine(L, k, i) == i \in 1 .. Len(L) /\ Gas!Key(L[i]) = k /\ \A j \in 1 .. Len(L) : Gas!Key(L[j]) = k => j <= i

LEMMA KeysHaveLastLines ==
  ASSUME NEW L \in Seq(CostLines), NEW k
  PROVE  /\ k \in DOMAIN Gas!FlatMap(L) <=> \E i \in 1 .. Len(L) : Gas!Key(L[i]) = k
         /\ k \in DOMAIN Gas!FlatMap(L) => \E i : LastLine(L, k, i) /\ Gas!FlatMap(L)[k] = L[i].gas
<1> DEFINE S == {i \in DOMAIN L : Gas!Key(L[i]) = k}
<1>1. DOMAIN L = 1 .. Len(L) /\ Len(L) \in Nat
  BY LenProperties
<1>2. Gas!FlatMap(L) = [n \in {Gas!Key(L[i]) : i \in DOMAIN L} |-> L[Gas!Max({i \in DOMAIN L : Gas!Key(L[i]) = n})].gas]
  BY Zenon DEF Gas!FlatMap
<1>3. k \in DOMAIN Gas!FlatMap(L) <=> \E i \in 1 .. Len(L) : Gas!Key(L[i]) = k
  BY <1>1, <1>2
<1>4. ASSUME k \in DOMAIN Gas!FlatMap(L) PROVE \E i : LastLine(L, k, i) /\ Gas!FlatMap(L)[k] = L[i].gas
  <2>1. Gas!FlatMap(L)[k] = L[Gas!Max(S)].gas
    BY <1>2, <1>4
  <2>2. S \in SUBSET (1 .. Len(L)) /\ S # {}
    BY <1>1, <1>3, <1>4
  <2>3. \E i \in S : \A j \in S : j <= i
    BY <1>1, <2>2, GreatestNumber
  <2>4. \A i, j \in S : j <= i <=> i >= j
    BY <2>2
  <2> HIDE DEF S
  <2>5. \E i \in S : \A j \in S : i >= j
    BY <2>3, <2>4
  <2>6. Gas!Max(S) \in S /\ \A j \in S : Gas!Max(S) >= j
    BY <2>5, GasMax
  <2>7. LastLine(L, k, Gas!Max(S))
    BY <1>1, <2>2, <2>6 DEF LastLine, S
  <2> QED
    BY <2>1, <2>7
<1> QED
  BY <1>3, <1>4

LEMMA LookedUp ==
  ASSUME NEW L \in Seq(CostLines), NEW P, NEW m \in DOMAIN TreeOf(L, P), NEW fn, NEW i, LastLine(L, <<TreeOf(L, P)[m].label, fn>>, i)
  PROVE  Gas!GasLookup(TreeOf(L, P)[m], fn) = RowOf(L, P, i)
<1> DEFINE e == TreeOf(L, P)[m]
<1>1. PICK s : Children(L, P, m, s)
  BY ChildrenAre
<1>2. /\ s \in Seq(1 .. Len(L)) /\ Len(s) \in Nat /\ DOMAIN e.children = 1 .. Len(s)
      /\ \A j \in 1 .. Len(L) : L[j].contract = e.label <=> HasElement(s, j)
      /\ \A j, n \in 1 .. Len(s) : j < n => s[j] < s[n]
      /\ \A j \in 1 .. Len(s) : e.children[j] = RowOf(L, P, s[j])
  BY <1>1 DEF Children
<1>3. i \in 1 .. Len(L) /\ Gas!Key(L[i]) = <<e.label, fn>> /\ \A j \in 1 .. Len(L) : Gas!Key(L[j]) = <<e.label, fn>> => j <= i
  BY DEF LastLine
<1> HIDE DEF e
<1>4. \A j \in 1 .. Len(L) : Gas!Key(L[j]) = <<e.label, fn>> <=> L[j].contract = e.label /\ L[j].fn = fn
  BY DEF Gas!Key
<1>5. PICK n \in 1 .. Len(s) : s[n] = i
  BY <1>2, <1>3, <1>4 DEF HasElement
<1> DEFINE js == {j \in DOMAIN e.children : e.children[j].fn = fn}
<1>6. \A j \in 1 .. Len(s) : s[j] \in 1 .. Len(L) /\ L[s[j]].contract = e.label /\ e.children[j].fn = L[s[j]].fn
  <2> SUFFICES ASSUME NEW j \in 1 .. Len(s) PROVE s[j] \in 1 .. Len(L) /\ L[s[j]].contract = e.label /\ e.children[j].fn = L[s[j]].fn
    OBVIOUS
  <2>1. s[j] \in 1 .. Len(L) /\ HasElement(s, s[j])
    BY <1>2 DEF HasElement
  <2>2. L[s[j]].contract = e.label /\ e.children[j] = RowOf(L, P, s[j])
    BY <1>2, <2>1
  <2>3. RowOf(L, P, s[j]).fn = L[s[j]].fn
    BY DEF RowOf
  <2> QED
    BY <2>1, <2>2, <2>3
<1>7. n \in js
  BY <1>2, <1>3, <1>4, <1>5, <1>6
<1>8. \A j \in js : n >= j
  <2> SUFFICES ASSUME NEW j \in js, ~(n >= j) PROVE FALSE
    OBVIOUS
  <2>1. j \in 1 .. Len(s) /\ n < j
    BY <1>2
  <2>2. s[n] < s[j] /\ s[j] \in 1 .. Len(L)
    BY <1>2, <1>6, <2>1
  <2>3. Gas!Key(L[s[j]]) = <<e.label, fn>>
    BY <1>4, <1>6, <2>1
  <2>4. s[j] <= i
    BY <1>3, <2>2, <2>3
  <2> QED
    <3>1. i \in Int /\ s[j] \in Int /\ i < s[j] /\ s[j] <= i
      BY <1>3, <1>5, <2>2, <2>4
    <3> QED
      BY <3>1
<1>9. Gas!Max(js) = n
  <2>1. js \subseteq Int
    BY <1>2
  <2> HIDE DEF js
  <2>2. Gas!Max(js) \in js /\ \A j \in js : Gas!Max(js) >= j
    BY <1>7, <1>8, GasMax
  <2>3. Gas!Max(js) \in Int /\ n \in Int /\ Gas!Max(js) >= n /\ n >= Gas!Max(js)
    BY <1>7, <1>8, <2>1, <2>2
  <2> QED
    BY <2>3
<1>10. Gas!GasLookup(e, fn) = e.children[n]
  BY <1>9 DEF Gas!GasLookup
<1> QED
  BY <1>2, <1>5, <1>10 DEF e


(* The tree has the lines of the snapshot.                                 *)
RowsShown(t) ==
  UNION {{<<t[i].label, t[i].children[j].fn, t[i].children[j].params, t[i].children[j].gas>> : j \in DOMAIN t[i].children} : i \in DOMAIN t}

LEMMA RowsAre ==
  ASSUME NEW L \in Seq(CostLines), NEW P
  PROVE  RowsShown(TreeOf(L, P)) = {<<l.contract, l.fn, l.params, l.gas>> : l \in Gas!ToSet(L)}
<1> DEFINE t == TreeOf(L, P)
           Row(i, j) == <<t[i].label, t[i].children[j].fn, t[i].children[j].params, t[i].children[j].gas>>
           Line(i) == <<L[i].contract, L[i].fn, L[i].params, L[i].gas>>
           A == RowsShown(t)
           B == {<<l.contract, l.fn, l.params, l.gas>> : l \in Gas!ToSet(L)}
<1>1. \A x : x \in A <=> \E i \in DOMAIN t : \E j \in DOMAIN t[i].children : x = Row(i, j)
  BY DEF RowsShown
<1>2. \A x : x \in B <=> \E i \in 1 .. Len(L) : x = Line(i)
  BY LenProperties DEF Gas!ToSet
<1>3. ASSUME NEW m \in DOMAIN t
      PROVE  /\ \A j \in DOMAIN t[m].children : \E i \in 1 .. Len(L) : Row(m, j) = Line(i)
             /\ \A i \in 1 .. Len(L) : L[i].contract = t[m].label => \E j \in DOMAIN t[m].children : Row(m, j) = Line(i)
  <2>1. PICK s : Children(L, P, m, s)
    BY ChildrenAre
  <2>2. /\ s \in Seq(1 .. Len(L)) /\ DOMAIN t[m].children = 1 .. Len(s)
        /\ \A i \in 1 .. Len(L) : L[i].contract = t[m].label <=> HasElement(s, i)
        /\ \A j \in 1 .. Len(s) : t[m].children[j] = RowOf(L, P, s[j])
    BY <2>1 DEF Children
  <2> HIDE DEF t
  <2>3. ASSUME NEW j \in 1 .. Len(s) PROVE s[j] \in 1 .. Len(L) /\ Row(m, j) = Line(s[j])
    <3>1. s[j] \in 1 .. Len(L) /\ HasElement(s, s[j])
      BY <2>2 DEF HasElement
    <3>2. t[m].label = L[s[j]].contract /\ t[m].children[j] = RowOf(L, P, s[j])
      BY <2>2, <3>1
    <3> QED
      BY <3>1, <3>2 DEF RowOf
  <2>4. ASSUME NEW i \in 1 .. Len(L), L[i].contract = t[m].label PROVE \E j \in 1 .. Len(s) : Row(m, j) = Line(i)
    <3>1. PICK j \in 1 .. Len(s) : s[j] = i
      BY <2>2, <2>4 DEF HasElement
    <3> HIDE DEF Row, Line
    <3>2. Row(m, j) = Line(i)
      BY <2>3, <3>1
    <3> QED
      BY <3>2
  <2> HIDE DEF Row, Line
  <2> QED
    BY <2>2, <2>3, <2>4
<1>4. \A i \in 1 .. Len(L) : \E m \in DOMAIN t : t[m].label = L[i].contract
  BY LabelsAre
<1> HIDE DEF t, Row, Line
<1>5. A \subseteq B
  BY <1>1, <1>2, <1>3
<1>6. B \subseteq A
  <2> SUFFICES ASSUME NEW x, NEW i \in 1 .. Len(L), x = Line(i) PROVE x \in A
    BY <1>2
  <2>1. PICK m \in DOMAIN t : t[m].label = L[i].contract
    BY <1>4
  <2>2. PICK j \in DOMAIN t[m].children : Row(m, j) = Line(i)
    BY <1>3, <2>1
  <2> QED
    BY <1>1, <2>2
<1> QED
  BY <1>5, <1>6 DEF t

(* What is told of a key.                                                  *)
Teller(t, k) == CHOOSE i \in DOMAIN t : t[i].label = k[1]
KeyTold(L, P, k) ==
  LET t == TreeOf(L, P)
      c == Teller(t, k)
      g == Gas!FlatMap(L)[k]
      e == Gas!GasLookup(t[c], k[2])
  IN  /\ c \in DOMAIN t /\ t[c].label = k[1] /\ g \in Nat /\ e.gas = g
      /\ e.delta = IF k \in DOMAIN P THEN g - P[k] ELSE NoFile
      /\ k = <<k[1], k[2]>>

LEMMA KeyIsTold == ASSUME NEW L \in Seq(CostLines), NEW P, NEW k \in DOMAIN Gas!FlatMap(L) PROVE KeyTold(L, P, k)
<1> DEFINE t == TreeOf(L, P)
           c == Teller(t, k)
           g == Gas!FlatMap(L)[k]
<1>1. PICK i : LastLine(L, k, i) /\ g = L[i].gas
  BY KeysHaveLastLines
<1>2. i \in 1 .. Len(L) /\ k = <<L[i].contract, L[i].fn>> /\ k = Gas!Key(L[i])
  BY <1>1 DEF LastLine, Gas!Key
<1>3. k = <<k[1], k[2]>> /\ k[1] = L[i].contract
  BY <1>2
<1>4. g \in Nat
  <2>1. L[i] \in CostLines
    BY <1>2, LenProperties
  <2> QED
    BY <1>1, <2>1 DEF CostLines
<1>5. \E m \in DOMAIN t : t[m].label = k[1]
  BY <1>2, <1>3, LabelsAre
<1> HIDE DEF t, g
<1>6. c \in DOMAIN t /\ t[c].label = k[1]
  BY <1>5 DEF Teller
<1> HIDE DEF c
<1>7. LastLine(L, <<t[c].label, k[2]>>, i)
  BY <1>1, <1>3, <1>6
<1>8. Gas!GasLookup(t[c], k[2]) = RowOf(L, P, i)
  BY <1>6, <1>7, LookedUp DEF t
<1>9. RowOf(L, P, i).gas = g /\ RowOf(L, P, i).delta = IF k \in DOMAIN P THEN g - P[k] ELSE NoFile
  BY <1>1, <1>2 DEF RowOf, ChangeOf
<1> QED
  BY <1>3, <1>4, <1>6, <1>8, <1>9 DEF t, c, g, KeyTold

(* What is decorated at a test that no other contract has a name of.       *)
LEMMA DecoratedAs ==
  ASSUME NEW L \in Seq(CostLines), NEW P, NEW f, NEW k \in DOMAIN Gas!FlatMap(L), k[2] \in Editors[f],
         \A o \in DOMAIN Gas!FlatMap(L) : o[2] = k[2] => o = k
  PROVE  LET decorated == Gas!Decorations(TreeOf(L, P), f)
         IN  k[2] \in DOMAIN decorated /\ decorated[k[2]].gas = Gas!FlatMap(L)[k]
<1> DEFINE t == TreeOf(L, P)
           having(fn) == {i \in DOMAIN t : \E j \in DOMAIN t[i].children : t[i].children[j].fn = fn}
           info(fn) == Gas!GasLookup(t[Gas!Min(having(fn))], fn)
           c == Teller(t, k)
           g == Gas!FlatMap(L)[k]
           decorated == Gas!Decorations(t, f)
<1>1. /\ c \in DOMAIN t /\ t[c].label = k[1] /\ Gas!GasLookup(t[c], k[2]).gas = g /\ k = <<k[1], k[2]>>
  BY KeyIsTold DEF KeyTold
<1>2. decorated = [fn \in {fn \in Editors[f] : having(fn) # {}} |->
                 [gas |-> info(fn).gas, delta |-> IF info(fn).delta = 0 THEN NoFile ELSE info(fn).delta]]
  BY Zenon DEF Gas!Decorations
<1> HIDE DEF c, g, decorated
<1>3. PICK i : LastLine(L, k, i)
  BY KeysHaveLastLines
<1>4. i \in 1 .. Len(L) /\ L[i].contract = k[1] /\ L[i].fn = k[2]
  BY <1>3 DEF LastLine, Gas!Key
<1>5. c \in having(k[2])
  <2>1. PICK s : Children(L, P, c, s)
    BY <1>1, ChildrenAre
  <2>2. HasElement(s, i) /\ DOMAIN t[c].children = 1 .. Len(s) /\ \A j \in 1 .. Len(s) : t[c].children[j] = RowOf(L, P, s[j])
    BY <1>1, <1>4, <2>1 DEF Children
  <2> HIDE DEF t
  <2>3. PICK j \in 1 .. Len(s) : s[j] = i
    BY <2>2 DEF HasElement
  <2>4. t[c].children[j] = RowOf(L, P, i)
    BY <2>2, <2>3
  <2>5. t[c].children[j].fn = k[2]
    BY <1>4, <2>4 DEF RowOf
  <2> QED
    BY <1>1, <2>2, <2>5
<1>6. ASSUME NEW m \in having(k[2]) PROVE m = c
  <2>1. m \in DOMAIN t
    OBVIOUS
  <2>2. PICK s : Children(L, P, m, s)
    BY <2>1, ChildrenAre
  <2>3. /\ DOMAIN t[m].children = 1 .. Len(s) /\ \A j \in 1 .. Len(s) : t[m].children[j] = RowOf(L, P, s[j])
        /\ s \in Seq(1 .. Len(L)) /\ \A n \in 1 .. Len(L) : L[n].contract = t[m].label <=> HasElement(s, n)
    BY <2>2 DEF Children
  <2>4. PICK j \in DOMAIN t[m].children : t[m].children[j].fn = k[2]
    OBVIOUS
  <2> HIDE DEF t
  <2>5. t[m].children[j] = RowOf(L, P, s[j]) /\ s[j] \in 1 .. Len(L) /\ HasElement(s, s[j])
    BY <2>3 DEF HasElement
  <2>6. L[s[j]].fn = k[2] /\ L[s[j]].contract = t[m].label
    BY <2>3, <2>4, <2>5 DEF RowOf
  <2>7. Gas!Key(L[s[j]]) = <<t[m].label, k[2]>>
    BY <2>6 DEF Gas!Key
  <2>8. <<t[m].label, k[2]>> \in DOMAIN Gas!FlatMap(L)
    BY <2>5, <2>7, KeysHaveLastLines
  <2>9. <<t[m].label, k[2]>> = k
    BY <2>8
  <2>10. t[m].label = t[c].label
    BY <1>1, <2>9
  <2> QED
    BY <1>1, <2>1, <2>10, LabelsAre DEF t
<1> HIDE DEF having
<1>7. having(k[2]) = {c}
  BY <1>5, <1>6
<1>8. Gas!Min(having(k[2])) = c
  <2>1. c \in Int
    <3>1. PICK n \in Nat : DOMAIN t = 1 .. n
      BY LabelsAre
    <3> QED
      BY <1>1, <3>1
  <2>2. c <= c
    BY <2>1
  <2> QED
    BY <1>7, <2>2, GasMin
<1>9. k[2] \in {fn \in Editors[f] : having(fn) # {}}
  BY <1>7
<1>10. decorated[k[2]].gas = info(k[2]).gas
  BY <1>2, <1>9
<1> QED
  BY <1>1, <1>2, <1>8, <1>9, <1>10 DEF decorated, g


(* What a refresh tells of a key adds up.                                  *)
CostFits(r) ==
  /\ r = [first |-> r.first, changes |-> r.changes, now |-> r.now]
  /\ r.first \in Int /\ r.changes \in Int /\ r.now \in Int /\ r.now - r.first = r.changes

LEMMA TellingAddsUp ==
  ASSUME NEW L \in Seq(CostLines), NEW k \in DOMAIN Gas!FlatMap(L), k \in DOMAIN saved => CostFits(saved[k])
  PROVE  CostFits(Gas!Telling(TreeOf(L, Costs), k, Gas!FlatMap(L)[k]))
<1> DEFINE t == TreeOf(L, Costs)
           c == Teller(t, k)
           g == Gas!FlatMap(L)[k]
           delta == Gas!GasLookup(t[c], k[2]).delta
           change == IF delta = NoFile THEN 0 ELSE delta
           r == Gas!Telling(t, k, g)
<1>1. g \in Nat /\ delta = IF k \in DOMAIN saved THEN g - saved[k].now ELSE NoFile
  <2>1. g \in Nat /\ delta = IF k \in DOMAIN Costs THEN g - Costs[k] ELSE NoFile
    BY KeyIsTold DEF KeyTold
  <2>2. DOMAIN Costs = DOMAIN saved /\ (k \in DOMAIN saved => Costs[k] = saved[k].now)
    BY DEF Costs
  <2> HIDE DEF delta, g
  <2> QED
    BY <2>1, <2>2
<1>2. r = IF k \in DOMAIN saved THEN ToldAgain(saved[k], change, g) ELSE [first |-> g, changes |-> change, now |-> g]
  BY Zenon DEF Gas!Telling, ToldAgain, Teller
<1> HIDE DEF t, c, g, delta
<1>3. CASE k \in DOMAIN saved
  <2>1. g - saved[k].now \in Int /\ CostFits(saved[k])
    BY <1>1, <1>3 DEF CostFits
  <2>2. change = g - saved[k].now
    <3>1. delta # NoFile
      BY <1>1, <1>3, <2>1, GasAssumption
    <3> QED
      BY <1>1, <1>3, <3>1
  <2> HIDE DEF change
  <2> DEFINE old == saved[k]
             q == [first |-> old.first, changes |-> old.changes + change, now |-> g]
  <2>3. ToldAgain(old, change, g) = q
    <3>1. old = [first |-> old.first, changes |-> old.changes, now |-> old.now]
      BY <2>1 DEF CostFits
    <3> HIDE DEF old
    <3> DEFINE A == [old EXCEPT !.changes = old.changes + change]
    <3>2. A = [first |-> old.first, changes |-> old.changes + change, now |-> old.now]
      BY <3>1
    <3> HIDE DEF A
    <3>3. [A EXCEPT !.now = g] = q
      BY <3>2
    <3>4. ToldAgain(old, change, g) = [A EXCEPT !.now = g]
      BY Zenon DEF ToldAgain, A
    <3> QED
      BY <3>3, <3>4
  <2>4. r = q
    BY <1>2, <1>3, <2>3
  <2>5. CostFits(q)
    <3>1. /\ q = [first |-> q.first, changes |-> q.changes, now |-> q.now]
          /\ q.first = old.first /\ q.changes = old.changes + change /\ q.now = g
      OBVIOUS
    <3>2. old.first \in Int /\ old.changes \in Int /\ old.now \in Int /\ old.now - old.first = old.changes
      BY <2>1 DEF CostFits
    <3>3. change = g - old.now /\ g \in Int
      BY <1>1, <2>2
    <3> HIDE DEF q, old
    <3>4. q.first \in Int /\ q.changes \in Int /\ q.now \in Int /\ q.now - q.first = q.changes
      BY <3>1, <3>2, <3>3
    <3> QED
      BY <3>1, <3>4 DEF CostFits
  <2> QED
    BY <2>4, <2>5 DEF r, t, g
<1>4. CASE k \notin DOMAIN saved
  <2>1. r = [first |-> g, changes |-> 0, now |-> g]
    BY <1>1, <1>2, <1>4
  <2>2. CostFits(r)
    BY <1>1, <2>1 DEF CostFits
  <2> QED
    BY <2>2 DEF r, t, g
<1> QED
  BY <1>3, <1>4

(* The last update that is awaited, or the tree if none is, is of what the *)
(* file has; and the tree, what is told of it and what the editor shows    *)
(* are of one snapshot.                                                    *)
IsOf(a, lines) == a.kind = "clear" \/ \E P : a = Gas!Refresh(lines, P)
QueueShows(sn, q, t) ==
  ~sn.reported /\ sn.lines # NoFile =>
    IF q = <<>> THEN \E P : t = TreeOf(sn.lines, P) ELSE IsOf(q[Len(q)], sn.lines)
TreeShows(t, s) ==
  \/ t = <<>> \/ DOMAIN s = {}
  \/ \E L \in Read : \E P : t = TreeOf(L, P) /\ DOMAIN s = DOMAIN Gas!FlatMap(L) /\ \A k \in DOMAIN s : s[k].now = Gas!FlatMap(L)[k]
EditorShows(e, t) ==
  /\ e = [file |-> e.file, shown |-> e.shown]
  /\ e.file # NoFile => e.shown = Gas!Decorations(t, e.file)
SumsInv ==
  /\ \A k \in DOMAIN saved : CostFits(saved[k])
  /\ QueueShows(form, reading, ran) /\ TreeShows(ran, saved) /\ EditorShows(command, ran)

LEMMA ReadIsLines == \A L \in Read : L \in Seq(CostLines)
<1>1. \A L \in Snapshots : L \in Seq(CostLines)
  BY GasAssumption DEF CostLines
<1>2. <<>> \in Seq(CostLines)
  BY EmptySeq
<1> QED
  BY <1>1, <1>2 DEF Read

LEMMA RefreshIs ==
  ASSUME NEW L, NEW P PROVE LET a == Gas!Refresh(L, P) IN a.kind = "refresh" /\ a.tree = TreeOf(L, P) /\ a.flat = Gas!FlatMap(L)
BY DEF Gas!Refresh, TreeOf

LEMMA LastAdded == ASSUME NEW S, NEW q \in Seq(S), NEW a PROVE Append(q, a) # <<>> /\ Append(q, a)[Len(Append(q, a))] = a
<1> DEFINE T == S \cup {a}
<1>1. q \in Seq(T) /\ a \in T
  OBVIOUS
<1> HIDE DEF T
<1> QED
  BY <1>1, AppendProperties, LenProperties

LEMMA LastLeft ==
  ASSUME NEW S, NEW q \in Seq(S), q # <<>>
  PROVE  IF Tail(q) = <<>> THEN q[Len(q)] = Head(q) ELSE Tail(q)[Len(Tail(q))] = q[Len(q)]
<1> DEFINE r == Tail(q)
<1>1. /\ r \in Seq(S) /\ Len(q) \in Nat \ {0} /\ Len(r) = Len(q) - 1 /\ Head(q) = q[1]
      /\ \A i \in 1 .. Len(r) : r[i] = q[i + 1]
  BY HeadTailProperties, LenProperties, EmptySeq
<1> HIDE DEF r
<1>2. CASE r = <<>>
  <2>1. Len(r) = 0
    BY <1>2, EmptySeq
  <2>2. Len(q) = 1
    BY <1>1, <2>1
  <2> QED
    BY <1>1, <1>2, <2>2 DEF r
<1>3. CASE r # <<>>
  <2>1. Len(r) # 0 /\ Len(r) \in Nat
    BY <1>1, <1>3, EmptySeq, LenProperties
  <2>2. Len(r) \in 1 .. Len(r) /\ Len(r) + 1 = Len(q)
    BY <1>1, <2>1
  <2>3. r[Len(r)] = q[Len(q)]
    BY <1>1, <2>2
  <2> QED
    BY <1>3, <2>3 DEF r
<1> QED
  BY <1>2, <1>3

LEMMA RefreshIsQueued ==
  ASSUME NEW S, NEW q \in Seq(S), GasInv, Gas!Refreshed(q), NEW sn, sn.lines = form.lines, NEW t
  PROVE  QueueShows(sn, reading', t)
<1> SUFFICES ASSUME sn.lines # NoFile PROVE reading' # <<>> /\ IsOf(reading'[Len(reading')], sn.lines)
  BY DEF QueueShows
<1>1. reading' = Append(q, Gas!Refresh(form.lines, kept))
  BY DEF Gas!Refreshed, Gas!LoadSnapshot
<1>2. reading' # <<>> /\ reading'[Len(reading')] = Gas!Refresh(form.lines, kept)
  BY <1>1, LastAdded
<1> QED
  BY <1>2 DEF IsOf


LEMMA SumsBegin == ASSUME Gas!GasInit PROVE SumsInv
<1>1. PICK s \in Snapshots \cup {NoFile}, P \in {Gas!FlatMap(o) : o \in Snapshots \cup {<<>>}} :
        /\ form = [lines |-> s, reported |-> FALSE]
        /\ kept = Gas!NewBaseline(P, Gas!LoadSnapshot(s)) /\ reading = <<Gas!Refresh(Gas!LoadSnapshot(s), P)>>
        /\ ran = <<>> /\ command = [file |-> NoFile, shown |-> <<>>]
        /\ saved = [k \in DOMAIN P |-> [first |-> P[k], changes |-> 0, now |-> P[k]]]
  BY Zenon DEF Gas!GasInit
<1>2. ASSUME NEW k \in DOMAIN saved PROVE CostFits(saved[k])
  <2>1. PICK o \in Read : P = Gas!FlatMap(o)
    BY DEF Read
  <2>2. k \in DOMAIN P /\ saved[k] = [first |-> P[k], changes |-> 0, now |-> P[k]]
    BY <1>1
  <2>3. P[k] \in Nat
    BY <2>1, <2>2, ReadIsLines, KeyIsTold DEF KeyTold
  <2>4. /\ saved[k] = [first |-> saved[k].first, changes |-> saved[k].changes, now |-> saved[k].now]
        /\ saved[k].first = P[k] /\ saved[k].changes = 0 /\ saved[k].now = P[k]
    BY <2>2
  <2> QED
    BY <2>3, <2>4 DEF CostFits
<1>3. QueueShows(form, reading, ran)
  <2> SUFFICES ASSUME s # NoFile PROVE IsOf(reading[Len(reading)], s) /\ reading # <<>>
    BY <1>1 DEF QueueShows
  <2> DEFINE a == Gas!Refresh(s, P)
  <2>1. reading = <<a>>
    BY <1>1 DEF Gas!LoadSnapshot
  <2>2. IsOf(a, s)
    BY DEF IsOf
  <2> HIDE DEF a
  <2> QED
    BY <2>1, <2>2
<1>4. TreeShows(ran, saved)
  BY <1>1 DEF TreeShows
<1>5. EditorShows(command, ran)
  BY <1>1 DEF EditorShows
<1> QED
  BY <1>2, <1>3, <1>4, <1>5 DEF SumsInv

LEMMA SumsStored == ASSUME GasInv, SumsInv, Gas!Stored PROVE SumsInv'
<1> DEFINE a == Head(reading)
<1>1. reading # <<>> /\ form' = form
  BY DEF Gas!Stored
<1>2. PICK S : reading \in Seq(S)
  BY DEF GasInv
<1>3. Compares(a, Costs) /\ Tail(reading) \in Seq(S)
  BY <1>1, <1>2, UpdateTaken DEF GasInv
<1>4. CASE a.kind = "clear"
  <2>1. Gas!Refreshed(Tail(reading)) /\ saved' = <<>> /\ ran' = ran /\ command' = command
    BY <1>4, Zenon DEF Gas!Stored
  <2>2. QueueShows(form', reading', ran')
    BY <1>1, <1>3, <2>1, RefreshIsQueued
  <2>3. TreeShows(ran', saved')
    BY <2>1 DEF TreeShows
  <2>4. \A k \in DOMAIN saved' : CostFits(saved'[k])
    BY <2>1
  <2> QED
    BY <2>1, <2>2, <2>3, <2>4 DEF SumsInv
<1>5. CASE a.kind = "refresh"
  <2>1. /\ saved' = [k \in DOMAIN a.flat |-> Gas!Telling(a.tree, k, a.flat[k])]
        /\ reading' = Tail(reading) /\ ran' = a.tree
        /\ command' = IF command.file = NoFile THEN command ELSE [command EXCEPT !.shown = Gas!Decorations(a.tree, command.file)]
    BY <1>5, Zenon DEF Gas!Stored
  <2>2. PICK lines \in Read : a = Gas!Refresh(lines, Costs)
    BY <1>3, <1>5 DEF Compares
  <2>3. a.tree = TreeOf(lines, Costs) /\ a.flat = Gas!FlatMap(lines)
    BY <2>2, RefreshIs
  <2>4. lines \in Seq(CostLines)
    BY ReadIsLines
  <2>5. ASSUME NEW k \in DOMAIN saved'
        PROVE  CostFits(saved'[k]) /\ saved'[k].now = Gas!FlatMap(lines)[k] /\ k \in DOMAIN Gas!FlatMap(lines)
    <3> HIDE DEF a
    <3>1. k \in DOMAIN Gas!FlatMap(lines) /\ saved'[k] = Gas!Telling(TreeOf(lines, Costs), k, Gas!FlatMap(lines)[k])
      BY <2>1, <2>3
    <3>2. k \in DOMAIN saved => CostFits(saved[k])
      BY DEF SumsInv
    <3>3. CostFits(saved'[k])
      BY <2>4, <3>1, <3>2, TellingAddsUp
    <3>4. saved'[k].now = Gas!FlatMap(lines)[k]
      BY <3>1, TellingFits
    <3> QED
      BY <3>1, <3>3, <3>4
  <2>6. TreeShows(ran', saved')
    <3>1. DOMAIN saved' = DOMAIN Gas!FlatMap(lines)
      BY <2>1, <2>3
    <3> QED
      BY <2>1, <2>3, <2>5, <3>1 DEF TreeShows
  <2>7. EditorShows(command', ran')
    <3> HIDE DEF a
    <3>1. EditorShows(command, ran) /\ command = [file |-> command.file, shown |-> command.shown]
      BY DEF SumsInv, EditorShows
    <3>2. CASE command.file = NoFile
      BY <2>1, <3>1, <3>2 DEF EditorShows
    <3>3. CASE command.file # NoFile
      <4> DEFINE e == [command EXCEPT !.shown = Gas!Decorations(a.tree, command.file)]
      <4>1. e = [file |-> command.file, shown |-> Gas!Decorations(a.tree, command.file)]
        BY <3>1
      <4>2. command' = e
        BY <2>1, <3>3
      <4> HIDE DEF e
      <4> QED
        BY <2>1, <4>1, <4>2 DEF EditorShows
    <3> QED
      BY <3>2, <3>3
  <2>8. QueueShows(form', reading', ran')
    <3> SUFFICES ASSUME ~form.reported, form.lines # NoFile
                 PROVE  IF reading' = <<>> THEN \E P : ran' = TreeOf(form.lines, P) ELSE IsOf(reading'[Len(reading')], form.lines)
      BY <1>1 DEF QueueShows
    <3>1. IsOf(reading[Len(reading)], form.lines)
      BY <1>1 DEF SumsInv, QueueShows
    <3>2. IF Tail(reading) = <<>> THEN reading[Len(reading)] = Head(reading) ELSE Tail(reading)[Len(Tail(reading))] = reading[Len(reading)]
      BY <1>1, <1>2, LastLeft
    <3>3. CASE reading' = <<>>
      <4>1. IsOf(a, form.lines)
        BY <2>1, <3>1, <3>2, <3>3
      <4>2. PICK P : a = Gas!Refresh(form.lines, P)
        BY <1>5, <4>1 DEF IsOf
      <4>3. a.tree = TreeOf(form.lines, P)
        BY <4>2, RefreshIs
      <4> QED
        BY <2>1, <3>3, <4>3
    <3>4. CASE reading' # <<>>
      BY <2>1, <3>1, <3>2, <3>4
    <3> QED
      BY <3>3, <3>4
  <2> QED
    BY <2>5, <2>6, <2>7, <2>8 DEF SumsInv
<1> QED
  BY <1>3, <1>4, <1>5, ReadIsLeft DEF Compares

LEMMA SumsNext == ASSUME GasInv, SumsInv, [Gas!GasNext]_(Gas!gasVars) PROVE SumsInv'
<1>0. PICK S : reading \in Seq(S)
  BY DEF GasInv
<1>1. CASE UNCHANGED Gas!gasVars
  BY <1>1 DEF SumsInv, Gas!gasVars
<1>2. ASSUME NEW s \in Snapshots \cup {<<>>, NoFile}, Gas!WriteSnapshot(s) PROVE SumsInv'
  <2>1. /\ form' = [lines |-> s, reported |-> s # NoFile \/ form.reported]
        /\ reading' = reading /\ ran' = ran /\ command' = command /\ saved' = saved
    BY <1>2, Zenon DEF Gas!WriteSnapshot
  <2>2. form'.lines # NoFile => form'.reported
    BY <2>1
  <2>3. QueueShows(form', reading', ran')
    BY <2>2 DEF QueueShows
  <2> QED
    BY <2>1, <2>3 DEF SumsInv
<1>3. CASE Gas!WatcherFires
  <2>1. form' = [form EXCEPT !.reported = FALSE] /\ Gas!Refreshed(reading) /\ ran' = ran /\ command' = command /\ saved' = saved
    BY <1>3, Zenon DEF Gas!WatcherFires
  <2>2. form'.lines = form.lines
    BY <2>1 DEF GasInv
  <2>3. QueueShows(form', reading', ran')
    BY <1>0, <2>1, <2>2, RefreshIsQueued
  <2> QED
    BY <2>1, <2>3 DEF SumsInv
<1>4. CASE Gas!ClearHistory
  <2> DEFINE a == [kind |-> "clear"]
  <2>1. form' = form /\ reading' = Append(reading, a) /\ ran' = ran /\ command' = command /\ saved' = saved
    BY <1>4, Zenon DEF Gas!ClearHistory
  <2>2. IsOf(a, form.lines)
    BY DEF IsOf
  <2> HIDE DEF a
  <2>3. reading' # <<>> /\ reading'[Len(reading')] = a
    BY <1>0, <2>1, LastAdded
  <2>4. QueueShows(form', reading', ran')
    BY <2>1, <2>2, <2>3 DEF QueueShows
  <2> QED
    BY <2>1, <2>4 DEF SumsInv
<1>5. ASSUME NEW f \in DOMAIN Editors, Gas!ActivateEditor(f) PROVE SumsInv'
  <2>1. /\ command' = [file |-> f, shown |-> Gas!Decorations(ran, f)]
        /\ form' = form /\ reading' = reading /\ ran' = ran /\ saved' = saved
    BY <1>5, Zenon DEF Gas!ActivateEditor
  <2>2. EditorShows(command', ran')
    BY <2>1 DEF EditorShows
  <2> QED
    BY <2>1, <2>2 DEF SumsInv
<1> QED
  BY <1>1, <1>2, <1>3, <1>4, <1>5, SumsStored DEF Gas!GasNext

LEMMA SumsShown == ASSUME GasInv, SumsInv PROVE Gas!ChangesAddUp
<1>1. Gas!ChangesAreSinceShown
  BY ShownIsCompared
<1>2. \A k \in DOMAIN saved : saved[k].now - saved[k].first = saved[k].changes
  BY DEF SumsInv, CostFits
<1>3. ASSUME reading = <<>>, ~form.reported, form.lines # NoFile
      PROVE  RowsShown(ran) = {<<l.contract, l.fn, l.params, l.gas>> : l \in Gas!ToSet(form.lines)}
  <2>1. PICK P : ran = TreeOf(form.lines, P)
    BY <1>3 DEF SumsInv, QueueShows
  <2>2. form.lines \in Seq(CostLines)
    BY <1>3, ReadIsLines DEF GasInv
  <2> QED
    BY <2>1, <2>2, RowsAre
<1>4. ASSUME command.file # NoFile
      PROVE  LET keys == {k \in DOMAIN saved : \E i \in DOMAIN ran : ran[i].label = k[1]}
             IN  \A k \in keys : k[2] \in Editors[command.file] /\ (\A o \in keys : o[2] = k[2] => o = k) =>
                   k[2] \in DOMAIN command.shown /\ command.shown[k[2]].gas = saved[k].now
  <2> DEFINE keys == {k \in DOMAIN saved : \E i \in DOMAIN ran : ran[i].label = k[1]}
  <2>1. command.shown = Gas!Decorations(ran, command.file)
    BY <1>4 DEF SumsInv, EditorShows
  <2> SUFFICES ASSUME NEW k \in keys, k[2] \in Editors[command.file], \A o \in keys : o[2] = k[2] => o = k
               PROVE  k[2] \in DOMAIN command.shown /\ command.shown[k[2]].gas = saved[k].now
    OBVIOUS
  <2>2. ran # <<>> /\ DOMAIN saved # {}
    OBVIOUS
  <2> DEFINE Suits(L, P) == ran = TreeOf(L, P) /\ DOMAIN saved = DOMAIN Gas!FlatMap(L) /\ \A n \in DOMAIN saved : saved[n].now = Gas!FlatMap(L)[n]
  <2>8. PICK L \in Read : \E P : Suits(L, P)
    BY <2>2 DEF SumsInv, TreeShows
  <2>9. PICK P : Suits(L, P)
    BY <2>8
  <2>3. ran = TreeOf(L, P) /\ DOMAIN saved = DOMAIN Gas!FlatMap(L) /\ \A n \in DOMAIN saved : saved[n].now = Gas!FlatMap(L)[n]
    BY <2>9
  <2> HIDE DEF Suits
  <2>4. L \in Seq(CostLines)
    BY ReadIsLines
  <2>5. \A o \in DOMAIN Gas!FlatMap(L) : o \in keys
    <3> SUFFICES ASSUME NEW o \in DOMAIN Gas!FlatMap(L) PROVE o \in keys
      OBVIOUS
    <3>1. Teller(TreeOf(L, P), o) \in DOMAIN TreeOf(L, P) /\ TreeOf(L, P)[Teller(TreeOf(L, P), o)].label = o[1]
      BY <2>4, KeyIsTold DEF KeyTold
    <3> QED
      BY <2>3, <3>1
  <2> HIDE DEF keys
  <2>6. k \in DOMAIN Gas!FlatMap(L) /\ saved[k].now = Gas!FlatMap(L)[k]
    BY <2>3 DEF keys
  <2>7. k[2] \in DOMAIN Gas!Decorations(TreeOf(L, P), command.file) /\ Gas!Decorations(TreeOf(L, P), command.file)[k[2]].gas = Gas!FlatMap(L)[k]
    BY <2>4, <2>5, <2>6, DecoratedAs
  <2> QED
    BY <2>1, <2>3, <2>6, <2>7
<1> QED
  BY <1>1, <1>2, <1>3, <1>4, Zenon DEF Gas!ChangesAddUp, RowsShown

(* However refreshes, clears and reports overlap, the changes told of a    *)
(* test add up, for snapshots of any tests; at rest the tree has the costs *)
(* of the file, and the editor shows those of the tree                     *)
(* (GasProfilerProvider).                                                  *)
THEOREM CostsAddUp == PartsSpec => []ChangesAddUp
<1> DEFINE J == part = "gas" => SumsInv
<1>1. PartsInit => J
  <2> SUFFICES ASSUME PartsInit, part = "gas" PROVE SumsInv
    OBVIOUS
  <2>1. Gas!GasInit
    BY Zenon DEF PartsInit
  <2> QED
    BY <2>1, SumsBegin
<1>2. (part = "gas" => GasInv) /\ J /\ [PartsNext]_allVars => J'
  <2> SUFFICES ASSUME part = "gas" => GasInv, J, [PartsNext]_allVars, part' = "gas" PROVE SumsInv'
    OBVIOUS
  <2>1. part = "gas" /\ [Gas!GasNext]_(Gas!gasVars)
    BY DEF PartsNext, allVars, viewVars, Gas!gasVars
  <2> QED
    BY <2>1, SumsNext
<1>3. (part = "gas" => GasInv) /\ J => ChangesAddUp
  BY SumsShown DEF ChangesAddUp
<1>4. PartsSpec => [](part = "gas" => GasInv)
  BY CostsAreChained
<1> QED
  BY <1>1, <1>2, <1>3, <1>4, PTL DEF PartsSpec
-----------------------------------------------------------------------------
(***************************************************************************)
(* The external analysers.                                                 *)
(***************************************************************************)
States == {"running", "clean", "found", "log", "error"}
IsRun(r) ==
  /\ r = [tool |-> r.tool, target |-> r.target, seen |-> r.seen, during |-> r.during, state |-> r.state]
  /\ r.tool \in Scan!Tools /\ r.state \in States
Runs(rs) == (\E S : rs \in Seq(S)) /\ \A i \in 1 .. Len(rs) : IsRun(rs[i])

(* The runs that tool t puts on the file f, and the last of them.          *)
Of(rs, t, f, i) == rs[i].tool = t /\ (t = "mythril" => rs[i].target = f)
IsLast(rs, t, f, n) == n \in 1 .. Len(rs) /\ Of(rs, t, f, n) /\ \A i \in 1 .. Len(rs) : Of(rs, t, f, i) => i <= n

(* What is shown is of the last run, or of one it met; runs that may still *)
(* end are the last, or were met by it.                                    *)
ToolFits(rs, s, t, f) ==
  /\ s.run \in 0 .. Len(rs)
  /\ s.diagnostics = IF s.run = 0 THEN {} ELSE Scan!BuildDiagnostics(rs[s.run], f)
  /\ \A n : IsLast(rs, t, f, n) =>
       /\ s.run \in {0, n} \cup rs[n].during
       /\ \A i \in 1 .. Len(rs) : Of(rs, t, f, i) /\ rs[i].state = "running" /\ i # n => i \in rs[n].during
       /\ rs[n].during = {} => s.diagnostics = IF rs[n].state = "found" THEN Scan!BuildDiagnostics(rs[n], f) ELSE {}
ToolsFit(rs, sh) ==
  /\ Runs(rs)
  /\ sh = [t \in Scan!Tools |-> [f \in ScannedFiles |-> sh[t][f]]]
  /\ \A t \in Scan!Tools, f \in ScannedFiles : ToolFits(rs, sh[t][f], t, f)
MythrilFits(rs, fl) ==
  /\ fl \in (1 .. Len(rs)) \cup {NoFile}
  /\ \A i \in 1 .. Len(rs) : rs[i].tool = "mythril" /\ rs[i].state = "running" <=> i = fl
ScanInv == ToolsFit(reading, ran) /\ MythrilFits(reading, command)

(* A run more.                                                             *)
LEMMA RunBegun ==
  ASSUME NEW rs, Runs(rs), NEW t \in Scan!Tools, NEW target, NEW x, NEW q, q = Scan!Begun(rs, t, target, x)
  PROVE  /\ Runs(q) /\ Len(rs) \in Nat /\ Len(q) = Len(rs) + 1 /\ \A i \in 1 .. Len(rs) : q[i] = rs[i]
         /\ q[Len(q)].tool = t /\ q[Len(q)].target = target /\ q[Len(q)].state = "running"
         /\ q[Len(q)].during = {i \in 1 .. Len(rs) : rs[i].tool = t /\ rs[i].state = "running"}
<1> DEFINE r == [tool |-> t, target |-> target, seen |-> x, during |-> Scan!Running(rs, t), state |-> "running"]
<1>1. PICK S : rs \in Seq(S)
  BY DEF Runs
<1>2. q = Append(rs, r)
  BY DEF Scan!Begun
<1>3. /\ r = [tool |-> r.tool, target |-> r.target, seen |-> r.seen, during |-> r.during, state |-> r.state]
      /\ r.tool = t /\ r.target = target /\ r.state = "running" /\ r.during = Scan!Running(rs, t)
  OBVIOUS
<1>4. DOMAIN rs = 1 .. Len(rs) /\ Len(rs) \in Nat
  BY <1>1, LenProperties
<1>5. r.during = {i \in 1 .. Len(rs) : rs[i].tool = t /\ rs[i].state = "running"}
  BY <1>3, <1>4 DEF Scan!Running
<1> HIDE DEF r
<1> DEFINE T == S \cup {r}
<1>6. rs \in Seq(T)
  BY <1>1
<1>7. q \in Seq(T) /\ Len(q) = Len(rs) + 1 /\ (\A i \in 1 .. Len(rs) : q[i] = rs[i]) /\ q[Len(rs) + 1] = r
  BY <1>2, <1>4, <1>6, AppendProperties
<1> HIDE DEF T
<1>8. IsRun(r)
  BY <1>3 DEF IsRun, States
<1>9. \A i \in 1 .. Len(q) : IsRun(q[i])
  <2> SUFFICES ASSUME NEW i \in 1 .. Len(q) PROVE IsRun(q[i])
    OBVIOUS
  <2>1. CASE i \in 1 .. Len(rs)
    BY <1>7, <2>1 DEF Runs
  <2>2. CASE i = Len(rs) + 1
    BY <1>7, <1>8, <2>2
  <2> QED
    BY <1>4, <1>7, <2>1, <2>2
<1> QED
  BY <1>3, <1>4, <1>5, <1>7, <1>9 DEF Runs

(* A run starts, and what its tool showed is dropped.                      *)
LEMMA ToolStarts ==
  ASSUME NEW rs, NEW sh, ToolsFit(rs, sh), NEW t \in Scan!Tools, NEW target \in ScannedFiles, NEW x,
         NEW q, q = Scan!Begun(rs, t, target, x), NEW sh2, sh2 = Scan!Cleared(sh, t, target)
  PROVE  ToolsFit(q, sh2)
<1>1. /\ Runs(q) /\ Len(rs) \in Nat /\ Len(q) = Len(rs) + 1 /\ \A i \in 1 .. Len(rs) : q[i] = rs[i]
      /\ q[Len(q)].tool = t /\ q[Len(q)].target = target /\ q[Len(q)].state = "running"
      /\ q[Len(q)].during = {i \in 1 .. Len(rs) : rs[i].tool = t /\ rs[i].state = "running"}
  BY RunBegun DEF ToolsFit
<1>2. sh2 = [u \in Scan!Tools |-> [f \in ScannedFiles |-> IF u = t /\ (t = "mythril" => f = target) THEN Scan!Nothing ELSE sh[u][f]]]
  BY DEF ToolsFit, Scan!Cleared
<1>3. ASSUME NEW u \in Scan!Tools, NEW f \in ScannedFiles PROVE ToolFits(q, sh2[u][f], u, f)
  <2> DEFINE s == sh2[u][f]
  <2>1. CASE u = t /\ (t = "mythril" => f = target)
    <3>1. s.run = 0 /\ s.diagnostics = {}
      BY <1>2, <2>1 DEF Scan!Nothing
    <3>2. \A n : IsLast(q, u, f, n) => n = Len(q)
      BY <1>1, <2>1 DEF IsLast, Of
    <3>3. \A i \in 1 .. Len(q) : Of(q, u, f, i) /\ q[i].state = "running" /\ i # Len(q) => i \in q[Len(q)].during
      <4> SUFFICES ASSUME NEW i \in 1 .. Len(q), Of(q, u, f, i), q[i].state = "running", i # Len(q)
                   PROVE  i \in q[Len(q)].during
        OBVIOUS
      <4>1. i \in 1 .. Len(rs) /\ q[i] = rs[i]
        BY <1>1
      <4> QED
        BY <1>1, <2>1, <4>1 DEF Of
    <3> HIDE DEF s
    <3>4. ToolFits(q, s, u, f)
      BY <1>1, <3>1, <3>2, <3>3 DEF ToolFits
    <3> QED
      BY <3>4 DEF s
  <2>2. CASE ~(u = t /\ (t = "mythril" => f = target))
    <3>1. s = sh[u][f] /\ ToolFits(rs, s, u, f)
      BY <1>2, <2>2 DEF ToolsFit
    <3> HIDE DEF s
    <3>2. ~Of(q, u, f, Len(q)) /\ \A i \in 1 .. Len(rs) : Of(q, u, f, i) <=> Of(rs, u, f, i)
      BY <1>1, <2>2 DEF Of
    <3>3. \A i \in 1 .. Len(q) : Of(q, u, f, i) => i \in 1 .. Len(rs)
      BY <1>1, <3>2
    <3>4. \A n : IsLast(q, u, f, n) => IsLast(rs, u, f, n)
      BY <1>1, <3>2, <3>3 DEF IsLast
    <3>5. s.run \in 0 .. Len(q) /\ s.diagnostics = (IF s.run = 0 THEN {} ELSE Scan!BuildDiagnostics(q[s.run], f))
      BY <1>1, <3>1 DEF ToolFits
    <3>6. ASSUME NEW n, IsLast(q, u, f, n)
          PROVE  /\ s.run \in {0, n} \cup q[n].during
                 /\ \A i \in 1 .. Len(q) : Of(q, u, f, i) /\ q[i].state = "running" /\ i # n => i \in q[n].during
                 /\ q[n].during = {} => s.diagnostics = IF q[n].state = "found" THEN Scan!BuildDiagnostics(q[n], f) ELSE {}
      <4>1. IsLast(rs, u, f, n) /\ q[n] = rs[n]
        BY <1>1, <3>4, <3>6 DEF IsLast
      <4>2. \A i \in 1 .. Len(q) : Of(q, u, f, i) => i \in 1 .. Len(rs) /\ q[i] = rs[i] /\ Of(rs, u, f, i)
        BY <1>1, <3>2, <3>3
      <4> QED
        BY <3>1, <4>1, <4>2 DEF ToolFits
    <3>7. ToolFits(q, s, u, f)
      BY <3>5, <3>6 DEF ToolFits
    <3> QED
      BY <3>7 DEF s
  <2> QED
    BY <2>1, <2>2
<1>4. sh2 = [u \in Scan!Tools |-> [f \in ScannedFiles |-> sh2[u][f]]]
  BY <1>2
<1> QED
  BY <1>1, <1>3, <1>4 DEF ToolsFit

LEMMA MythrilStarts ==
  ASSUME NEW rs, Runs(rs), NEW fl, MythrilFits(rs, fl), NEW t \in Scan!Tools, t = "mythril" => fl = NoFile, NEW target, NEW x,
         NEW q, q = Scan!Begun(rs, t, target, x)
  PROVE  MythrilFits(q, IF t = "mythril" THEN Len(q) ELSE fl)
<1>1. /\ Len(rs) \in Nat /\ Len(q) = Len(rs) + 1 /\ \A i \in 1 .. Len(rs) : q[i] = rs[i]
      /\ q[Len(q)].tool = t /\ q[Len(q)].state = "running"
  BY RunBegun
<1>2. NoFile \notin Nat
  BY ScanAssumption
<1>3. CASE t = "mythril"
  <2>1. \A i \in 1 .. Len(rs) : ~(q[i].tool = "mythril" /\ q[i].state = "running")
    BY <1>1, <1>2, <1>3 DEF MythrilFits
  <2>2. \A i \in 1 .. Len(q) : i = Len(q) \/ i \in 1 .. Len(rs)
    BY <1>1
  <2>3. Len(q) \in 1 .. Len(q) /\ \A i \in 1 .. Len(rs) : i # Len(q)
    BY <1>1
  <2> QED
    BY <1>1, <1>3, <2>1, <2>2, <2>3 DEF MythrilFits
<1>4. CASE t # "mythril"
  <2>1. fl # Len(q) /\ fl \in (1 .. Len(q)) \cup {NoFile}
    BY <1>1, <1>2 DEF MythrilFits
  <2>2. \A i \in 1 .. Len(q) : i = Len(q) \/ i \in 1 .. Len(rs)
    BY <1>1
  <2> QED
    BY <1>1, <1>4, <2>1, <2>2 DEF MythrilFits
<1> QED
  BY <1>3, <1>4

(* Whether a run has ended does not change what it found, and Mythril finds *)
(* nothing elsewhere than on its file.                                     *)
LEMMA FoundIsKept ==
  ASSUME NEW r, NEW p, r.tool = p.tool, r.target = p.target, r.seen = p.seen, NEW f
  PROVE  Scan!BuildDiagnostics(r, f) = Scan!BuildDiagnostics(p, f)
BY Zenon DEF Scan!BuildDiagnostics
LEMMA MythrilFindsOnItsFile ==
  ASSUME NEW r, r.tool = "mythril", NEW f, f # r.target PROVE Scan!BuildDiagnostics(r, f) = {}
<1>1. "mythril" # "slither" /\ "mythril" # "aderyn" /\ "mythril" # "wake"
  OBVIOUS
<1>2. r.tool # "slither" /\ r.tool # "aderyn" /\ r.tool # "wake"
  BY <1>1
<1> QED
  BY <1>2, Zenon DEF Scan!BuildDiagnostics

(* A run ends, and what it found is put on the files that have some of it. *)
StateSetTo(rs, i, state) == [rs EXCEPT ![i].state = state]
Put(sh, rs, i, state) ==
  [t \in Scan!Tools |-> [f \in ScannedFiles |->
     IF state # "found" \/ t # rs[i].tool \/ Scan!BuildDiagnostics(rs[i], f) = {} THEN sh[t][f]
     ELSE [run |-> i, diagnostics |-> Scan!BuildDiagnostics(rs[i], f)]]]

LEMMA StateSet ==
  ASSUME NEW rs, Runs(rs), NEW i \in 1 .. Len(rs), NEW state \in States, NEW q, q = StateSetTo(rs, i, state)
  PROVE  /\ Runs(q) /\ Len(rs) \in Nat /\ Len(q) = Len(rs)
         /\ \A j \in 1 .. Len(rs) : /\ q[j].tool = rs[j].tool /\ q[j].target = rs[j].target
                                    /\ q[j].seen = rs[j].seen /\ q[j].during = rs[j].during
                                    /\ q[j].state = IF j = i THEN state ELSE rs[j].state
<1> DEFINE r == [rs[i] EXCEPT !.state = state]
<1>1. PICK S : rs \in Seq(S)
  BY DEF Runs
<1>2. IsRun(rs[i])
  BY DEF Runs
<1>3. /\ IsRun(r) /\ r.tool = rs[i].tool /\ r.target = rs[i].target /\ r.seen = rs[i].seen /\ r.during = rs[i].during /\ r.state = state
  BY <1>2 DEF IsRun
<1>4. q = [rs EXCEPT ![i] = r]
  BY Zenon DEF StateSetTo
<1> HIDE DEF r
<1> DEFINE T == S \cup {r}
<1>5. rs \in Seq(T) /\ i \in 1 .. Len(rs) /\ r \in T
  BY <1>1
<1> HIDE DEF T
<1>6. q \in Seq(T) /\ Len(q) = Len(rs) /\ Len(rs) \in Nat
  BY <1>4, <1>5
<1>7. \A j \in 1 .. Len(rs) : q[j] = IF j = i THEN r ELSE rs[j]
  BY <1>4, <1>5
<1>8. \A j \in 1 .. Len(q) : IsRun(q[j])
  BY <1>3, <1>6, <1>7 DEF Runs
<1> QED
  BY <1>3, <1>6, <1>7, <1>8 DEF Runs

LEMMA ToolEnds ==
  ASSUME NEW rs, NEW sh, ToolsFit(rs, sh), NEW i \in 1 .. Len(rs), rs[i].state = "running", NEW state \in States, state # "running",
         NEW q, q = StateSetTo(rs, i, state), NEW sh2, sh2 = Put(sh, rs, i, state)
  PROVE  ToolsFit(q, sh2)
<1>1. /\ Runs(q) /\ Len(rs) \in Nat /\ Len(q) = Len(rs)
      /\ \A j \in 1 .. Len(rs) : /\ q[j].tool = rs[j].tool /\ q[j].target = rs[j].target
                                 /\ q[j].seen = rs[j].seen /\ q[j].during = rs[j].during
                                 /\ q[j].state = IF j = i THEN state ELSE rs[j].state
  <2>1. Runs(rs)
    BY DEF ToolsFit
  <2> QED
    BY <2>1, StateSet
<1>2. ASSUME NEW t \in Scan!Tools, NEW f \in ScannedFiles PROVE ToolFits(q, sh2[t][f], t, f)
  <2> DEFINE s == sh2[t][f]
             old == sh[t][f]
             ds == Scan!BuildDiagnostics(rs[i], f)
  <2>1. /\ ToolFits(rs, old, t, f)
        /\ s = IF state # "found" \/ t # rs[i].tool \/ ds = {} THEN old ELSE [run |-> i, diagnostics |-> ds]
    BY DEF ToolsFit, Put
  <2>2. \A j \in 1 .. Len(rs) : Scan!BuildDiagnostics(q[j], f) = Scan!BuildDiagnostics(rs[j], f)
    <3> SUFFICES ASSUME NEW j \in 1 .. Len(rs) PROVE Scan!BuildDiagnostics(q[j], f) = Scan!BuildDiagnostics(rs[j], f)
      OBVIOUS
    <3>1. q[j].tool = rs[j].tool /\ q[j].target = rs[j].target /\ q[j].seen = rs[j].seen
      BY <1>1
    <3> QED
      BY <3>1, FoundIsKept
  <2>3. ds # {} /\ t = rs[i].tool => Of(rs, t, f, i)
    BY MythrilFindsOnItsFile DEF Of
  <2>4. /\ \A n : IsLast(q, t, f, n) => IsLast(rs, t, f, n)
        /\ \A j \in 1 .. Len(rs) : Of(q, t, f, j) <=> Of(rs, t, f, j)
    BY <1>1 DEF IsLast, Of
  <2> HIDE DEF s, old, ds
  <2>5. ds = Scan!BuildDiagnostics(q[i], f)
    BY <2>2 DEF ds
  <2>6. /\ s.run \in 0 .. Len(q) /\ s.diagnostics = (IF s.run = 0 THEN {} ELSE Scan!BuildDiagnostics(q[s.run], f))
    <3>1. CASE s = old
      BY <1>1, <2>1, <2>2, <3>1 DEF ToolFits
    <3>2. CASE s = [run |-> i, diagnostics |-> ds]
      BY <1>1, <2>5, <3>2
    <3> QED
      BY <2>1, <3>1, <3>2
  <2>7. ASSUME NEW n, IsLast(q, t, f, n)
        PROVE  /\ s.run \in {0, n} \cup q[n].during
               /\ \A j \in 1 .. Len(q) : Of(q, t, f, j) /\ q[j].state = "running" /\ j # n => j \in q[n].during
               /\ q[n].during = {} => s.diagnostics = IF q[n].state = "found" THEN Scan!BuildDiagnostics(q[n], f) ELSE {}
    <3>1. IsLast(rs, t, f, n) /\ n \in 1 .. Len(rs) /\ q[n].during = rs[n].during
      BY <1>1, <2>4, <2>7 DEF IsLast
    <3>2. /\ old.run \in {0, n} \cup rs[n].during
          /\ \A j \in 1 .. Len(rs) : Of(rs, t, f, j) /\ rs[j].state = "running" /\ j # n => j \in rs[n].during
          /\ rs[n].during = {} => old.diagnostics = IF rs[n].state = "found" THEN Scan!BuildDiagnostics(rs[n], f) ELSE {}
      BY <2>1, <3>1 DEF ToolFits
    <3>3. Of(rs, t, f, i) => i = n \/ i \in rs[n].during
      BY <3>2
    <3>4. s.run \in {0, n} \cup q[n].during
      BY <2>1, <2>3, <3>1, <3>2, <3>3
    <3>5. \A j \in 1 .. Len(q) : Of(q, t, f, j) /\ q[j].state = "running" /\ j # n => j \in q[n].during
      <4> SUFFICES ASSUME NEW j \in 1 .. Len(q), Of(q, t, f, j), q[j].state = "running", j # n PROVE j \in q[n].during
        OBVIOUS
      <4>1. j \in 1 .. Len(rs) /\ rs[j].state = "running" /\ Of(rs, t, f, j)
        BY <1>1, <2>4
      <4> QED
        BY <3>1, <3>2, <4>1
    <3>6. ASSUME q[n].during = {} PROVE s.diagnostics = IF q[n].state = "found" THEN Scan!BuildDiagnostics(q[n], f) ELSE {}
      <4>1. rs[n].during = {} /\ (Of(rs, t, f, i) => i = n)
        BY <3>1, <3>3, <3>6
      <4>2. CASE i = n
        <5>1. old.diagnostics = {} /\ q[n].state = state /\ t = rs[i].tool
          BY <1>1, <3>1, <3>2, <4>1, <4>2 DEF IsLast, Of
        <5>2. CASE state = "found" /\ ds # {}
          <6>1. s.diagnostics = ds
            BY <2>1, <5>1, <5>2
          <6> QED
            BY <2>5, <4>2, <5>1, <5>2, <6>1
        <5>3. CASE ~(state = "found" /\ ds # {})
          <6>1. s = old
            BY <2>1, <5>3
          <6> QED
            BY <2>5, <4>2, <5>1, <5>3, <6>1
        <5> QED
          BY <5>2, <5>3
      <4>3. CASE i # n
        <5>1. s = old /\ q[n].state = rs[n].state
          BY <1>1, <2>1, <2>3, <3>1, <4>1, <4>3
        <5> QED
          BY <2>2, <3>1, <3>2, <4>1, <5>1
      <4> QED
        BY <4>2, <4>3
    <3> QED
      BY <3>4, <3>5, <3>6
  <2>8. ToolFits(q, s, t, f)
    BY <2>6, <2>7 DEF ToolFits
  <2> QED
    BY <2>8 DEF s
<1>3. sh2 = [t \in Scan!Tools |-> [f \in ScannedFiles |-> sh2[t][f]]]
  BY DEF Put
<1> QED
  BY <1>1, <1>2, <1>3 DEF ToolsFit

LEMMA MythrilEnds ==
  ASSUME NEW rs, Runs(rs), NEW fl, MythrilFits(rs, fl), NEW i \in 1 .. Len(rs), rs[i].state = "running", NEW state \in States,
         state # "running", NEW q, q = StateSetTo(rs, i, state)
  PROVE  MythrilFits(q, IF fl = i THEN NoFile ELSE fl)
<1>1. /\ Len(rs) \in Nat /\ Len(q) = Len(rs)
      /\ \A j \in 1 .. Len(rs) : q[j].tool = rs[j].tool /\ q[j].state = IF j = i THEN state ELSE rs[j].state
  BY StateSet
<1>2. \A j \in 1 .. Len(rs) : j # NoFile
  BY <1>1, ScanAssumption
<1>3. \A j \in 1 .. Len(q) : q[j].tool = "mythril" /\ q[j].state = "running" <=> j = IF fl = i THEN NoFile ELSE fl
  BY <1>1, <1>2 DEF MythrilFits
<1> QED
  BY <1>1, <1>3 DEF MythrilFits

LEMMA ScanInit == PartsInit /\ part = "scan" => ScanInv
<1> SUFFICES ASSUME PartsInit, part = "scan" PROVE ScanInv
  OBVIOUS
<1>1. reading = <<>> /\ command = NoFile /\ ran = [t \in Scan!Tools |-> [f \in ScannedFiles |-> Scan!Nothing]]
  BY Zenon DEF PartsInit, Scan!AnalyzersInit
<1>2. Len(reading) = 0 /\ reading \in Seq({})
  BY <1>1, EmptySeq
<1>3. \A t \in Scan!Tools, f \in ScannedFiles : ToolFits(reading, ran[t][f], t, f)
  BY <1>1, <1>2 DEF ToolFits, IsLast, Scan!Nothing
<1> QED
  BY <1>1, <1>2, <1>3 DEF ScanInv, ToolsFit, Runs, MythrilFits

LEMMA AllStart ==
  ASSUME NEW ts, NEW target \in ScannedFiles, NEW x PROVE ScanInv /\ Scan!Starts(ts, target, x) => ScanInv'
<1> SUFFICES ASSUME ScanInv, Scan!Starts(ts, target, x) PROVE ScanInv'
  OBVIOUS
<1> DEFINE begin == {t \in ts \cap form : t = "mythril" => command = NoFile}
           Begin(rs, t) == IF t \in begin THEN Scan!Begun(rs, t, target, x) ELSE rs
           Clear(s, t) == IF t \in begin THEN Scan!Cleared(s, t, target) ELSE s
           rs1 == Begin(reading, "slither")
           rs2 == Begin(rs1, "aderyn")
           rs3 == Begin(rs2, "wake")
           sh1 == Clear(ran, "slither")
           sh2 == Clear(sh1, "aderyn")
           sh3 == Clear(sh2, "wake")
<1>1. /\ reading' = Begin(rs3, "mythril") /\ ran' = Clear(sh3, "mythril")
      /\ command' = IF "mythril" \in begin THEN Len(reading') ELSE command
  BY Zenon DEF Scan!Starts
<1>2. "mythril" \in begin => command = NoFile
  OBVIOUS
<1> HIDE DEF begin
<1>3. {"slither", "aderyn", "wake", "mythril"} = Scan!Tools
  BY DEF Scan!Tools
<1>4. ASSUME NEW t \in Scan!Tools, NEW rs, NEW sh, ToolsFit(rs, sh) PROVE ToolsFit(Begin(rs, t), Clear(sh, t))
  BY <1>4, ToolStarts
<1>5. ASSUME NEW t \in Scan!Tools \ {"mythril"}, NEW rs, Runs(rs), MythrilFits(rs, command) PROVE MythrilFits(Begin(rs, t), command)
  BY <1>5, MythrilStarts
<1>6. ToolsFit(rs1, sh1) /\ MythrilFits(rs1, command)
  <2>1. ToolsFit(rs1, sh1)
    BY <1>3, <1>4 DEF ScanInv
  <2>2. MythrilFits(rs1, command)
    BY <1>3, <1>5 DEF ScanInv, ToolsFit
  <2> QED
    BY <2>1, <2>2
<1> HIDE DEF rs1, sh1
<1>7. ToolsFit(rs2, sh2) /\ MythrilFits(rs2, command)
  <2>1. ToolsFit(rs2, sh2)
    BY <1>3, <1>4, <1>6
  <2>2. MythrilFits(rs2, command)
    BY <1>3, <1>5, <1>6 DEF ToolsFit
  <2> QED
    BY <2>1, <2>2
<1> HIDE DEF rs2, sh2
<1>8. ToolsFit(rs3, sh3) /\ MythrilFits(rs3, command)
  <2>1. ToolsFit(rs3, sh3)
    BY <1>3, <1>4, <1>7
  <2>2. MythrilFits(rs3, command)
    BY <1>3, <1>5, <1>7 DEF ToolsFit
  <2> QED
    BY <2>1, <2>2
<1> HIDE DEF rs3, sh3
<1>9. ToolsFit(reading', ran')
  BY <1>1, <1>3, <1>4, <1>8
<1>10. MythrilFits(reading', command')
  <2>1. CASE "mythril" \in begin
    <3>1. reading' = Scan!Begun(rs3, "mythril", target, x) /\ command' = Len(reading') /\ command = NoFile
      BY <1>1, <1>2, <2>1
    <3>2. Runs(rs3) /\ MythrilFits(rs3, command) /\ "mythril" \in Scan!Tools
      BY <1>3, <1>8 DEF ToolsFit
    <3> QED
      BY <3>1, <3>2, MythrilStarts
  <2>2. CASE "mythril" \notin begin
    BY <1>1, <1>8, <2>2
  <2> QED
    BY <2>1, <2>2
<1> QED
  BY <1>9, <1>10 DEF ScanInv

LEMMA OneEnds ==
  ASSUME NEW i \in DOMAIN reading, NEW state \in States \ {"running"} PROVE ScanInv /\ Scan!Ended(i, state) => ScanInv'
<1> SUFFICES ASSUME ScanInv, Scan!Ended(i, state) PROVE ScanInv'
  OBVIOUS
<1> DEFINE r == reading[i]
           ds(f) == Scan!BuildDiagnostics(r, f)
<1>1. Runs(reading) /\ i \in 1 .. Len(reading) /\ r.tool \in Scan!Tools
  <2>1. PICK S : reading \in Seq(S)
    BY DEF ScanInv, ToolsFit, Runs
  <2>2. i \in 1 .. Len(reading) /\ Runs(reading)
    BY <2>1, LenProperties DEF ScanInv, ToolsFit
  <2> QED
    BY <2>2 DEF Runs, IsRun
<1>2. /\ r.state = "running" /\ reading' = StateSetTo(reading, i, state)
      /\ command' = IF command = i THEN NoFile ELSE command
      /\ ran' = IF state # "found" THEN ran
                ELSE [ran EXCEPT ![r.tool] = [f \in ScannedFiles |-> IF ds(f) = {} THEN @[f] ELSE [run |-> i, diagnostics |-> ds(f)]]]
  BY Zenon DEF Scan!Ended, StateSetTo
<1>3. ran = [t \in Scan!Tools |-> [f \in ScannedFiles |-> ran[t][f]]]
  BY DEF ScanInv, ToolsFit
<1>4. ran' = [t \in Scan!Tools |-> [f \in ScannedFiles |->
               IF state # "found" \/ t # r.tool \/ ds(f) = {} THEN ran[t][f] ELSE [run |-> i, diagnostics |-> ds(f)]]]
  <2> HIDE DEF r, ds
  <2>1. CASE state # "found"
    BY <1>2, <1>3, <2>1
  <2>2. CASE state = "found"
    BY <1>1, <1>2, <1>3, <2>2
  <2> QED
    BY <2>1, <2>2
<1>5. ToolsFit(reading', ran')
  <2>1. ran' = Put(ran, reading, i, state)
    BY <1>4, Zenon DEF Put
  <2>2. ToolsFit(reading, ran) /\ reading[i].state = "running" /\ state \in States /\ state # "running"
    BY <1>2 DEF ScanInv
  <2> HIDE DEF r, ds
  <2> QED
    BY <1>1, <1>2, <2>1, <2>2, ToolEnds
<1>6. MythrilFits(reading', command')
  BY <1>1, <1>2, MythrilEnds DEF ScanInv
<1> QED
  BY <1>5, <1>6 DEF ScanInv

LEMMA ScanNext == ScanInv /\ [Scan!AnalyzersNext]_(Scan!analyzerVars) => ScanInv'
<1> SUFFICES ASSUME ScanInv, [Scan!AnalyzersNext]_(Scan!analyzerVars) PROVE ScanInv'
  OBVIOUS
<1>1. CASE UNCHANGED Scan!analyzerVars
  BY <1>1 DEF ScanInv, Scan!analyzerVars
<1>2. ASSUME NEW f \in ScannedFiles, Scan!Save(f) PROVE ScanInv'
  BY <1>2, AllStart DEF Scan!Save
<1>3. ASSUME NEW f \in ScannedFiles, NEW t \in Scan!Tools, Scan!Analyze(t, f) PROVE ScanInv'
  BY <1>3, AllStart DEF Scan!Analyze
<1>4. ASSUME NEW i \in DOMAIN reading, NEW output \in Scan!Outputs,
             Scan!SlitherEnds(i, output) \/ Scan!AderynEnds(i, output) \/ Scan!WakeEnds(i, output) \/ Scan!MythrilEnds(i, output)
      PROVE  ScanInv'
  <2>1. "clean" \in States \ {"running"} /\ "found" \in States \ {"running"} /\ "log" \in States \ {"running"} /\ "error" \in States \ {"running"}
    BY DEF States
  <2>2. Scan!Ended(i, "clean") \/ Scan!Ended(i, "found") \/ Scan!Ended(i, "log") \/ Scan!Ended(i, "error")
    BY <1>4, Zenon DEF Scan!SlitherEnds, Scan!AderynEnds, Scan!WakeEnds, Scan!MythrilEnds, Scan!Reports, Scan!Outputs
  <2> QED
    BY <2>1, <2>2, OneEnds
<1> QED
  BY <1>1, <1>2, <1>3, <1>4 DEF Scan!AnalyzersNext

LEMMA ShownIsOfOneRun == ScanInv => Scan!ShowsOneRun
<1> SUFFICES ASSUME ScanInv PROVE Scan!ShowsOneRun
  OBVIOUS
<1>1. PICK S : reading \in Seq(S)
  BY DEF ScanInv, ToolsFit, Runs
<1>2. DOMAIN reading = 1 .. Len(reading)
  BY <1>1, LenProperties
<1>3. \A i \in DOMAIN reading : i \in Scan!Running(reading, "mythril") <=> i = command
  BY <1>2 DEF ScanInv, MythrilFits, Scan!Running
<1>4. ASSUME NEW t \in Scan!Tools, NEW f \in ScannedFiles, NEW n \in Scan!RunsOf(t, f), \A i \in Scan!RunsOf(t, f) : i <= n
      PROVE  LET s == ran[t][f]
             IN  /\ s.run \in {0, n} \cup reading[n].during
                 /\ s.diagnostics = IF s.run = 0 THEN {} ELSE Scan!BuildDiagnostics(reading[s.run], f)
                 /\ reading[n].during = {} => s.diagnostics = IF reading[n].state = "found" THEN Scan!BuildDiagnostics(reading[n], f) ELSE {}
  <2>1. IsLast(reading, t, f, n)
    BY <1>2, <1>4 DEF IsLast, Of, Scan!RunsOf
  <2>2. ToolFits(reading, ran[t][f], t, f)
    BY DEF ScanInv, ToolsFit
  <2> QED
    BY <2>1, <2>2 DEF ToolFits
<1> QED
  BY <1>3, <1>4 DEF Scan!ShowsOneRun

(* What the analysers show is of a run that the last one met, or of it     *)
(* (analyze).                                                              *)
THEOREM RunsAreMet == PartsSpec => [](part = "scan" => ScanInv)
<1> DEFINE J == part = "scan" => ScanInv
<1>1. PartsInit => J
  BY ScanInit
<1>2. J /\ [PartsNext]_allVars => J'
  <2> SUFFICES ASSUME J, [PartsNext]_allVars, part' = "scan" PROVE ScanInv'
    OBVIOUS
  <2>1. part = "scan" /\ [Scan!AnalyzersNext]_(Scan!analyzerVars)
    BY DEF PartsNext, allVars, viewVars, Scan!analyzerVars
  <2> QED
    BY <2>1, ScanNext
<1> QED
  BY <1>1, <1>2, PTL DEF PartsSpec

(* However saves, commands and reports of the analysers overlap, what a     *)
(* tool shows on a file is all that one run found there: the last, or one   *)
(* that the last met (analyze).                                             *)
THEOREM OneRunIsShown == PartsSpec => [](part = "scan" => Scan!ShowsOneRun)
<1>1. (part = "scan" => ScanInv) => (part = "scan" => Scan!ShowsOneRun)
  BY ShownIsOfOneRun
<1> QED
  BY <1>1, RunsAreMet, PTL
-----------------------------------------------------------------------------
(***************************************************************************)
(* The reports of the external analysers.                                  *)
(***************************************************************************)
-----------------------------------------------------------------------------
(***************************************************************************)
(* What the analysers' parsers make of a report.                           *)
(***************************************************************************)
LEMMA ScanFlattenSeq == ASSUME NEW p PROVE Scan!FlattenSeq(p) = FlattenSeq(p)
BY Zenon DEF Scan!FlattenSeq, FlattenSeq

FindPlaces == [file : ScannedFiles \cup {NoFile}, line : Nat]
FindEntries == [detector : STRING \cup {NoFile}, impact : Scan!Impacts, instances : Seq(FindPlaces)]

(* That the entries es name the instance y for d, with the impact i.       *)
Tells(es, d, i, y) == \E e \in FindEntries : HasElement(es, e) /\ e.detector = d /\ e.impact = i /\ HasElement(e.instances, y)

LEMMA ScanPushes ==
  ASSUME NEW n \in Nat, NEW P, NEW e
  PROVE  Scan!FlattenSeq([k \in 1 .. n |-> Scan!When(P[k], e[k])]) = Pushes(n, P, e)
BY ScanFlattenSeq, Zenon DEF Pushes, Scan!When

LEMMA CompleteAre ==
  ASSUME NEW is \in Seq(FindPlaces)
  PROVE  /\ Scan!CompleteOf(is) \in Seq(FindPlaces)
         /\ \A y : HasElement(Scan!CompleteOf(is), y) <=> HasElement(is, y) /\ Scan!Complete(y)
<1> DEFINE n == Len(is)
           P == [k \in 1 .. n |-> Scan!Complete(is[k])]
<1>1. n \in Nat /\ is \in [1 .. n -> FindPlaces] /\ DOMAIN is = 1 .. n
  BY LenProperties
<1>2. Scan!CompleteOf(is) = Pushes(n, P, is)
  <2>1. [k \in DOMAIN is |-> Scan!When(Scan!Complete(is[k]), is[k])] = [k \in 1 .. n |-> Scan!When(P[k], is[k])]
    BY <1>1, Zenon
  <2> QED
    BY <1>1, <2>1, ScanPushes, Zenon DEF Scan!CompleteOf
<1>3. \A k \in 1 .. n : P[k] <=> Scan!Complete(is[k])
  OBVIOUS
<1>4. \A k \in 1 .. n : P[k] => is[k] \in FindPlaces
  BY <1>1
<1> HIDE DEF P
<1>5. /\ Pushes(n, P, is) \in Seq(FindPlaces)
      /\ \A y : HasElement(Pushes(n, P, is), y) <=> \E k \in 1 .. n : P[k] /\ is[k] = y
  BY <1>1, <1>4, PushedElements
<1>6. ASSUME NEW y PROVE HasElement(Scan!CompleteOf(is), y) <=> HasElement(is, y) /\ Scan!Complete(y)
  <2>1. HasElement(Scan!CompleteOf(is), y) <=> \E k \in 1 .. n : P[k] /\ is[k] = y
    BY <1>2, <1>5, Zenon
  <2>2. HasElement(is, y) <=> \E k \in 1 .. n : is[k] = y
    BY DEF HasElement
  <2> QED
    BY <1>3, <2>1, <2>2
<1> QED
  BY <1>2, <1>5, <1>6

LEMMA RatedAre ==
  ASSUME NEW es \in Seq(FindEntries), NEW S
  PROVE  /\ Scan!OfImpacts(es, S) \in Seq(FindEntries)
         /\ \A e : HasElement(Scan!OfImpacts(es, S), e) <=> HasElement(es, e) /\ e.impact \in S
<1> DEFINE n == Len(es)
           P == [k \in 1 .. n |-> es[k].impact \in S]
<1>1. n \in Nat /\ es \in [1 .. n -> FindEntries] /\ DOMAIN es = 1 .. n
  BY LenProperties
<1>2. Scan!OfImpacts(es, S) = Pushes(n, P, es)
  <2>1. [k \in DOMAIN es |-> Scan!When(es[k].impact \in S, es[k])] = [k \in 1 .. n |-> Scan!When(P[k], es[k])]
    BY <1>1, Zenon
  <2> QED
    BY <1>1, <2>1, ScanPushes, Zenon DEF Scan!OfImpacts
<1>3. \A k \in 1 .. n : P[k] <=> es[k].impact \in S
  OBVIOUS
<1>4. \A k \in 1 .. n : P[k] => es[k] \in FindEntries
  BY <1>1
<1> HIDE DEF P
<1>5. /\ Pushes(n, P, es) \in Seq(FindEntries)
      /\ \A e : HasElement(Pushes(n, P, es), e) <=> \E k \in 1 .. n : P[k] /\ es[k] = e
  BY <1>1, <1>4, PushedElements
<1>6. ASSUME NEW e PROVE HasElement(Scan!OfImpacts(es, S), e) <=> HasElement(es, e) /\ e.impact \in S
  BY <1>2, <1>3, <1>5, Zenon DEF HasElement
<1> QED
  BY <1>2, <1>5, <1>6

LEMMA EntryIs ==
  ASSUME NEW e \in FindEntries, NEW i \in Scan!Impacts, NEW is \in Seq(FindPlaces)
  PROVE  /\ Scan!Entry(e, i, is) \in FindEntries
         /\ Scan!Entry(e, i, is).detector = e.detector /\ Scan!Entry(e, i, is).impact = i
         /\ Scan!Entry(e, i, is).instances = is
BY DEF FindEntries, Scan!Entry

LEMMA HasSome ==
  ASSUME NEW X, NEW s \in Seq(X) PROVE s # <<>> <=> \E y : HasElement(s, y)
<1>1. Len(s) \in Nat
  BY LenProperties
<1>2. ASSUME s # <<>> PROVE \E y : HasElement(s, y)
  <2>1. 1 \in 1 .. Len(s)
    BY <1>1, <1>2, EmptySeq
  <2> QED
    BY <2>1 DEF HasElement
<1>3. ASSUME s = <<>>, NEW y, HasElement(s, y) PROVE FALSE
  <2>1. Len(s) = 0
    BY <1>3
  <2> QED
    BY <1>3, <2>1 DEF HasElement
<1> QED
  BY <1>2, <1>3

(* An entry is kept with the instances that are complete.                  *)
LEMMA UsableAre ==
  ASSUME NEW es \in Seq(FindEntries)
  PROVE  /\ Scan!Usable(es) \in Seq(FindEntries)
         /\ \A x : HasElement(Scan!Usable(es), x) <=>
              \E e \in FindEntries :
                /\ HasElement(es, e) /\ e.detector # NoFile /\ Scan!CompleteOf(e.instances) # <<>>
                /\ x = Scan!Entry(e, e.impact, Scan!CompleteOf(e.instances))
<1> DEFINE n == Len(es)
           found == [k \in 1 .. n |-> Scan!Entry(es[k], es[k].impact, Scan!CompleteOf(es[k].instances))]
           P == [k \in 1 .. n |-> es[k].detector # NoFile /\ found[k].instances # <<>>]
<1>1. n \in Nat /\ es \in [1 .. n -> FindEntries] /\ DOMAIN es = 1 .. n
  BY LenProperties
<1>2. Scan!Usable(es) = Pushes(n, P, found)
  <2>1. [k \in DOMAIN es |-> Scan!Entry(es[k], es[k].impact, Scan!CompleteOf(es[k].instances))] = found
    BY <1>1, Zenon
  <2> HIDE DEF found
  <2>2. [k \in DOMAIN es |-> Scan!When(es[k].detector # NoFile /\ found[k].instances # <<>>, found[k])]
         = [k \in 1 .. n |-> Scan!When(P[k], found[k])]
    BY <1>1, Zenon
  <2>3. Scan!Usable(es) = Scan!FlattenSeq([k \in DOMAIN es |-> Scan!When(es[k].detector # NoFile /\ found[k].instances # <<>>, found[k])])
    BY <2>1, Zenon DEF Scan!Usable
  <2> HIDE DEF P
  <2> QED
    BY <1>1, <2>2, <2>3, ScanPushes, Zenon
<1>3. ASSUME NEW k \in 1 .. n
      PROVE  /\ es[k] \in FindEntries /\ found[k] = Scan!Entry(es[k], es[k].impact, Scan!CompleteOf(es[k].instances))
             /\ found[k] \in FindEntries
             /\ P[k] <=> es[k].detector # NoFile /\ Scan!CompleteOf(es[k].instances) # <<>>
  <2>1. es[k] \in FindEntries /\ es[k].impact \in Scan!Impacts /\ es[k].instances \in Seq(FindPlaces)
    BY <1>1 DEF FindEntries
  <2>2. Scan!CompleteOf(es[k].instances) \in Seq(FindPlaces)
    BY <2>1, CompleteAre
  <2>3. found[k] = Scan!Entry(es[k], es[k].impact, Scan!CompleteOf(es[k].instances))
    OBVIOUS
  <2>4. P[k] <=> es[k].detector # NoFile /\ found[k].instances # <<>>
    OBVIOUS
  <2> HIDE DEF P, found
  <2> QED
    BY <2>1, <2>2, <2>3, <2>4, EntryIs
<1> HIDE DEF P, found
<1>5. /\ Pushes(n, P, found) \in Seq(FindEntries)
      /\ \A x : HasElement(Pushes(n, P, found), x) <=> \E k \in 1 .. n : P[k] /\ found[k] = x
  BY <1>1, <1>3, PushedElements
<1>6. ASSUME NEW x
      PROVE  HasElement(Scan!Usable(es), x) <=>
               \E e \in FindEntries :
                 /\ HasElement(es, e) /\ e.detector # NoFile /\ Scan!CompleteOf(e.instances) # <<>>
                 /\ x = Scan!Entry(e, e.impact, Scan!CompleteOf(e.instances))
  <2>1. HasElement(Scan!Usable(es), x) <=> \E k \in 1 .. n : P[k] /\ found[k] = x
    BY <1>2, <1>5, Zenon
  <2> QED
    BY <1>3, <2>1, Zenon DEF HasElement
<1> QED
  BY <1>2, <1>5, <1>6

LEMMA UsableGives ==
  ASSUME NEW es \in Seq(FindEntries), NEW d, NEW i, NEW y
  PROVE  Tells(Scan!Usable(es), d, i, y) <=> Tells(es, d, i, y) /\ d # NoFile /\ Scan!Complete(y)
<1>1. ASSUME NEW e \in FindEntries
      PROVE  LET x == Scan!Entry(e, e.impact, Scan!CompleteOf(e.instances))
             IN  /\ x \in FindEntries /\ x.detector = e.detector /\ x.impact = e.impact
                 /\ \A z : HasElement(x.instances, z) <=> HasElement(e.instances, z) /\ Scan!Complete(z)
                 /\ Scan!CompleteOf(e.instances) # <<>> <=> \E z : HasElement(x.instances, z)
  <2>1. e.impact \in Scan!Impacts /\ e.instances \in Seq(FindPlaces)
    BY DEF FindEntries
  <2>2. /\ Scan!CompleteOf(e.instances) \in Seq(FindPlaces)
        /\ \A z : HasElement(Scan!CompleteOf(e.instances), z) <=> HasElement(e.instances, z) /\ Scan!Complete(z)
    BY <2>1, CompleteAre, Zenon
  <2>3. Scan!CompleteOf(e.instances) # <<>> <=> \E z : HasElement(Scan!CompleteOf(e.instances), z)
    BY <2>2, HasSome
  <2> DEFINE x == Scan!Entry(e, e.impact, Scan!CompleteOf(e.instances))
  <2>4. x \in FindEntries /\ x.detector = e.detector /\ x.impact = e.impact /\ x.instances = Scan!CompleteOf(e.instances)
    BY <2>1, <2>2, EntryIs
  <2> HIDE DEF x
  <2>5. /\ x \in FindEntries /\ x.detector = e.detector /\ x.impact = e.impact
        /\ \A z : HasElement(x.instances, z) <=> HasElement(e.instances, z) /\ Scan!Complete(z)
        /\ Scan!CompleteOf(e.instances) # <<>> <=> \E z : HasElement(x.instances, z)
    BY <2>2, <2>3, <2>4, Zenon
  <2> QED
    BY <2>5 DEF x
<1>2. \A x : HasElement(Scan!Usable(es), x) <=>
              \E e \in FindEntries :
                /\ HasElement(es, e) /\ e.detector # NoFile /\ Scan!CompleteOf(e.instances) # <<>>
                /\ x = Scan!Entry(e, e.impact, Scan!CompleteOf(e.instances))
  BY UsableAre, Zenon
<1>3. ASSUME Tells(Scan!Usable(es), d, i, y) PROVE Tells(es, d, i, y) /\ d # NoFile /\ Scan!Complete(y)
  <2>1. PICK x \in FindEntries : HasElement(Scan!Usable(es), x) /\ x.detector = d /\ x.impact = i /\ HasElement(x.instances, y)
    BY <1>3 DEF Tells
  <2>2. PICK e \in FindEntries : /\ HasElement(es, e) /\ e.detector # NoFile
                                /\ x = Scan!Entry(e, e.impact, Scan!CompleteOf(e.instances))
    BY <1>2, <2>1
  <2>3. e.detector = d /\ e.impact = i /\ HasElement(e.instances, y) /\ Scan!Complete(y)
    BY <1>1, <2>1, <2>2
  <2> QED
    BY <2>2, <2>3 DEF Tells
<1>4. ASSUME Tells(es, d, i, y), d # NoFile, Scan!Complete(y) PROVE Tells(Scan!Usable(es), d, i, y)
  <2>1. PICK e \in FindEntries : HasElement(es, e) /\ e.detector = d /\ e.impact = i /\ HasElement(e.instances, y)
    BY <1>4 DEF Tells
  <2>2. PICK x \in FindEntries : x = Scan!Entry(e, e.impact, Scan!CompleteOf(e.instances))
    BY <1>1
  <2>3. x.detector = d /\ x.impact = i /\ HasElement(x.instances, y) /\ Scan!CompleteOf(e.instances) # <<>>
    BY <1>1, <1>4, <2>1, <2>2
  <2>4. HasElement(Scan!Usable(es), x)
    BY <1>2, <1>4, <2>1, <2>2, <2>3
  <2> QED
    BY <2>3, <2>4 DEF Tells
<1> QED
  BY <1>3, <1>4

LEMMA RatedTells ==
  ASSUME NEW es \in Seq(FindEntries), NEW S, NEW d, NEW i, NEW y
  PROVE  Tells(Scan!OfImpacts(es, S), d, i, y) <=> Tells(es, d, i, y) /\ i \in S
<1>1. \A e : HasElement(Scan!OfImpacts(es, S), e) <=> HasElement(es, e) /\ e.impact \in S
  BY RatedAre
<1> QED
  BY <1>1 DEF Tells

(* Aderyn's lists, one for each severity, give what the report gives.      *)
LEMMA AderynTells ==
  ASSUME NEW es \in Seq(FindEntries), NEW d, NEW i, NEW y
  PROVE  /\ Scan!ParseAderynReport(es) \in Seq(FindEntries)
         /\ Tells(Scan!ParseAderynReport(es), d, i, y) <=>
              Tells(es, d, i, y) /\ i \in {"high", "low", "nc"} /\ d # NoFile /\ Scan!Complete(y)
<1> DEFINE kinds == <<"high", "low", "nc">>
           p == [b \in 1 .. 3 |-> Scan!Usable(Scan!OfImpacts(es, {kinds[b]}))]
<1>1. ASSUME NEW b \in 1 .. 3
      PROVE  /\ p[b] \in Seq(FindEntries)
             /\ Tells(p[b], d, i, y) <=> Tells(es, d, i, y) /\ i = kinds[b] /\ d # NoFile /\ Scan!Complete(y)
  <2>1. p[b] = Scan!Usable(Scan!OfImpacts(es, {kinds[b]}))
    OBVIOUS
  <2> HIDE DEF p, kinds
  <2>2. /\ Scan!OfImpacts(es, {kinds[b]}) \in Seq(FindEntries)
        /\ Tells(Scan!OfImpacts(es, {kinds[b]}), d, i, y) <=> Tells(es, d, i, y) /\ i \in {kinds[b]}
    BY RatedAre, RatedTells, Zenon
  <2>3. /\ p[b] \in Seq(FindEntries)
        /\ Tells(p[b], d, i, y) <=> Tells(Scan!OfImpacts(es, {kinds[b]}), d, i, y) /\ d # NoFile /\ Scan!Complete(y)
    BY <2>1, <2>2, UsableAre, UsableGives, Zenon
  <2> QED
    BY <2>2, <2>3
<1>2. p \in Seq(Seq(FindEntries)) /\ Len(p) = 3 /\ Scan!ParseAderynReport(es) = FlattenSeq(p)
  <2>1. DOMAIN p = 1 .. 3 /\ p \in [1 .. 3 -> Seq(FindEntries)]
    BY <1>1
  <2>2. Scan!ParseAderynReport(es) = FlattenSeq(p)
    BY ScanFlattenSeq, Zenon DEF Scan!ParseAderynReport
  <2> HIDE DEF p
  <2>3. p \in Seq(Seq(FindEntries)) /\ Len(p) = 3
    BY <2>1, 3 \in Nat, ListIs
  <2> QED
    BY <2>2, <2>3
<1>3. kinds[1] = "high" /\ kinds[2] = "low" /\ kinds[3] = "nc"
  OBVIOUS
<1> HIDE DEF p, kinds
<1>4. ASSUME NEW x
      PROVE  /\ FlattenSeq(p) \in Seq(FindEntries)
             /\ HasElement(FlattenSeq(p), x) <=> \E b \in 1 .. 3 : HasElement(p[b], x)
  <2>1. /\ FlattenSeq(p) \in Seq(FindEntries)
        /\ HasElement(FlattenSeq(p), x) <=> \E b \in 1 .. Len(p) : HasElement(p[b], x)
    BY <1>2, FlattenElements
  <2> QED
    BY <1>2, <2>1
<1>5. Tells(FlattenSeq(p), d, i, y) <=> \E b \in 1 .. 3 : Tells(p[b], d, i, y)
  BY <1>4, Zenon DEF Tells
<1>6. (\E b \in 1 .. 3 : i = kinds[b]) <=> i \in {"high", "low", "nc"}
  BY <1>3
<1> QED
  BY <1>1, <1>2, <1>4, <1>5, <1>6

(* An instance that is given twice is still given.                         *)
LEMMA CollectedAre ==
  ASSUME NEW is \in Seq(FindPlaces)
  PROVE  /\ Scan!CollectInstances(is) \in Seq(FindPlaces)
         /\ \A y : HasElement(Scan!CollectInstances(is), y) <=> HasElement(is, y)
<1> DEFINE n == Len(is)
           P == [k \in 1 .. n |-> \A j \in 1 .. k - 1 : is[j] # is[k]]
<1>1. n \in Nat /\ is \in [1 .. n -> FindPlaces] /\ DOMAIN is = 1 .. n
  BY LenProperties
<1>2. Scan!CollectInstances(is) = Pushes(n, P, is)
  <2>1. [k \in DOMAIN is |-> Scan!When(\A j \in 1 .. k - 1 : is[j] # is[k], is[k])] = [k \in 1 .. n |-> Scan!When(P[k], is[k])]
    BY <1>1, Zenon
  <2> QED
    BY <1>1, <2>1, ScanPushes, Zenon DEF Scan!CollectInstances
<1>3. \A k \in 1 .. n : P[k] <=> \A j \in 1 .. k - 1 : is[j] # is[k]
  OBVIOUS
<1>4. \A k \in 1 .. n : P[k] => is[k] \in FindPlaces
  BY <1>1
<1> HIDE DEF P
<1>5. /\ Pushes(n, P, is) \in Seq(FindPlaces)
      /\ \A y : HasElement(Pushes(n, P, is), y) <=> \E k \in 1 .. n : P[k] /\ is[k] = y
  BY <1>1, <1>4, PushedElements
<1>6. ASSUME NEW y PROVE HasElement(Scan!CollectInstances(is), y) <=> HasElement(is, y)
  <2>1. HasElement(Scan!CollectInstances(is), y) <=> \E k \in 1 .. n : P[k] /\ is[k] = y
    BY <1>2, <1>5, Zenon
  <2>2. HasElement(is, y) <=> \E k \in 1 .. n : is[k] = y
    BY DEF HasElement
  <2>3. ASSUME NEW k \in 1 .. n, is[k] = y PROVE \E j \in 1 .. n : P[j] /\ is[j] = y
    <3> DEFINE T == {j \in 1 .. n : is[j] = y}
    <3>1. T \subseteq Nat /\ T # {}
      BY <1>1, <2>3
    <3>2. PICK j \in T : \A h \in T : j <= h
      BY <3>1, LeastNumber
    <3>3. \A h \in 1 .. j - 1 : h \in 1 .. n /\ ~(j <= h)
      BY <1>1, <3>2
    <3>4. \A h \in 1 .. j - 1 : is[h] # is[j]
      BY <3>2, <3>3
    <3> QED
      BY <1>3, <3>2, <3>4
  <2> QED
    BY <2>1, <2>2, <2>3
<1> QED
  BY <1>2, <1>5, <1>6

LEMMA WakeTells ==
  ASSUME NEW es \in Seq(FindEntries), NEW d, NEW y
  PROVE  /\ Scan!ParseWakeReport(es) \in Seq(FindEntries)
         /\ (\E i : Tells(Scan!ParseWakeReport(es), d, i, y)) <=>
              \E i \in Scan!Impacts \ {"nc", "unknown"} : Tells(es, d, i, y) /\ d # NoFile /\ Scan!Complete(y)
<1> DEFINE S == {i \in Scan!Impacts : Scan!NormalizeImpact(i) # NoFile}
           u == Scan!Usable(Scan!OfImpacts(es, S))
           n == Len(u)
           w == [k \in 1 .. n |-> Scan!Entry(u[k], Scan!NormalizeImpact(u[k].impact), Scan!CollectInstances(u[k].instances))]
<1>1. S = Scan!Impacts \ {"nc", "unknown"} /\ \A i \in S : Scan!NormalizeImpact(i) \in Scan!Impacts
  BY FindsAssumption DEF Scan!NormalizeImpact, Scan!Impacts
<1> HIDE DEF S
<1>2. /\ u \in Seq(FindEntries)
      /\ \A i : Tells(u, d, i, y) <=> Tells(es, d, i, y) /\ i \in S /\ d # NoFile /\ Scan!Complete(y)
  <2>1. /\ Scan!OfImpacts(es, S) \in Seq(FindEntries)
        /\ \A i : Tells(Scan!OfImpacts(es, S), d, i, y) <=> Tells(es, d, i, y) /\ i \in S
    BY RatedAre, RatedTells, Zenon
  <2> QED
    BY <2>1, UsableAre, UsableGives, Zenon
<1>3. \A e \in FindEntries : HasElement(u, e) => e.impact \in S
  <2>1. Scan!OfImpacts(es, S) \in Seq(FindEntries) /\ \A e : HasElement(Scan!OfImpacts(es, S), e) => e.impact \in S
    BY RatedAre, Zenon
  <2>2. ASSUME NEW x, HasElement(u, x)
        PROVE  \E e \in FindEntries : HasElement(Scan!OfImpacts(es, S), e) /\ x = Scan!Entry(e, e.impact, Scan!CompleteOf(e.instances))
    BY <2>1, <2>2, UsableAre, Zenon
  <2>3. ASSUME NEW x, NEW e \in FindEntries, x = Scan!Entry(e, e.impact, Scan!CompleteOf(e.instances)) PROVE x.impact = e.impact
    BY <2>3 DEF Scan!Entry
  <2> QED
    BY <2>1, <2>2, <2>3
<1>4. Scan!ParseWakeReport(es) = [k \in DOMAIN u |-> Scan!Entry(u[k], Scan!NormalizeImpact(u[k].impact), Scan!CollectInstances(u[k].instances))]
  BY Zenon DEF Scan!ParseWakeReport, S
<1> HIDE DEF u
<1>5. n \in Nat /\ u \in [1 .. n -> FindEntries] /\ DOMAIN u = 1 .. n
  BY <1>2, LenProperties
<1>6. Scan!ParseWakeReport(es) = w
  BY <1>4, <1>5, Zenon
<1>7. ASSUME NEW k \in 1 .. n
      PROVE  /\ w[k] \in FindEntries /\ w[k].detector = u[k].detector /\ u[k] \in FindEntries
             /\ \A z : HasElement(w[k].instances, z) <=> HasElement(u[k].instances, z)
  <2>1. u[k] \in FindEntries /\ HasElement(u, u[k])
    BY <1>5 DEF HasElement
  <2>2. Scan!NormalizeImpact(u[k].impact) \in Scan!Impacts /\ u[k].instances \in Seq(FindPlaces)
    BY <1>1, <1>3, <2>1 DEF FindEntries
  <2>3. /\ Scan!CollectInstances(u[k].instances) \in Seq(FindPlaces)
        /\ \A z : HasElement(Scan!CollectInstances(u[k].instances), z) <=> HasElement(u[k].instances, z)
    BY <2>2, CollectedAre
  <2>4. w[k] = Scan!Entry(u[k], Scan!NormalizeImpact(u[k].impact), Scan!CollectInstances(u[k].instances))
    OBVIOUS
  <2> HIDE DEF w
  <2>5. w[k] \in FindEntries /\ w[k].detector = u[k].detector /\ w[k].instances = Scan!CollectInstances(u[k].instances)
    BY <2>1, <2>2, <2>3, <2>4, EntryIs
  <2> QED
    BY <2>1, <2>3, <2>5, Zenon
<1>8. DOMAIN w = 1 .. n /\ w \in [1 .. n -> FindEntries]
  BY <1>7
<1> HIDE DEF w
<1>9. w \in Seq(FindEntries) /\ Len(w) = n
  BY <1>5, <1>8
<1>10. ASSUME NEW k \in 1 .. n, w[k].detector = d, HasElement(w[k].instances, y) PROVE Tells(u, d, u[k].impact, y)
  <2>1. HasElement(u, u[k]) /\ u[k].detector = d /\ HasElement(u[k].instances, y) /\ u[k] \in FindEntries
    BY <1>7, <1>10 DEF HasElement
  <2> QED
    BY <2>1 DEF Tells
<1>11. ASSUME NEW i, Tells(u, d, i, y) PROVE \E j : Tells(w, d, j, y)
  <2>1. PICK e \in FindEntries : HasElement(u, e) /\ e.detector = d /\ HasElement(e.instances, y)
    BY <1>11 DEF Tells
  <2>2. PICK k \in 1 .. n : u[k] = e
    BY <2>1 DEF HasElement
  <2>3. w[k].detector = d /\ HasElement(w[k].instances, y) /\ w[k] \in FindEntries /\ HasElement(w, w[k])
    BY <1>7, <1>9, <2>1, <2>2 DEF HasElement
  <2>4. Tells(w, d, w[k].impact, y)
    BY <2>3 DEF Tells
  <2> QED
    BY <2>4
<1>12. ASSUME NEW j, Tells(w, d, j, y) PROVE \E i : Tells(u, d, i, y)
  <2>1. PICK e \in FindEntries : HasElement(w, e) /\ e.detector = d /\ HasElement(e.instances, y)
    BY <1>12 DEF Tells
  <2>2. PICK k \in 1 .. n : w[k] = e
    BY <1>9, <2>1 DEF HasElement
  <2> QED
    BY <1>10, <2>1, <2>2
<1>13. (\E j : Tells(w, d, j, y)) <=> \E i \in S : Tells(es, d, i, y) /\ d # NoFile /\ Scan!Complete(y)
  BY <1>2, <1>11, <1>12
<1> QED
  BY <1>1, <1>6, <1>9, <1>13

LEMMA FirstIs ==
  ASSUME NEW is \in Seq(FindPlaces)
  PROVE  /\ Scan!FirstOf(is) \in Seq(FindPlaces)
         /\ \A y : HasElement(Scan!FirstOf(is), y) <=> is # <<>> /\ y = is[1]
<1>1. CASE is = <<>>
  <2>1. Scan!FirstOf(is) = <<>>
    BY <1>1 DEF Scan!FirstOf
  <2>2. Scan!FirstOf(is) \in Seq(FindPlaces) /\ Len(Scan!FirstOf(is)) = 0
    BY <2>1
  <2> QED
    BY <1>1, <2>2 DEF HasElement
<1>2. CASE is # <<>>
  <2>1. Scan!FirstOf(is) = <<is[1]>>
    BY <1>2 DEF Scan!FirstOf
  <2>2. is[1] \in FindPlaces
    BY <1>2, EmptySeq, LenProperties
  <2>3. <<is[1]>> \in Seq(FindPlaces) /\ Len(<<is[1]>>) = 1 /\ <<is[1]>>[1] = is[1] /\ 1 \in 1 .. 1 /\ \A j \in 1 .. 1 : j = 1
    BY <2>2
  <2> QED
    BY <1>2, <2>1, <2>3 DEF HasElement
<1> QED
  BY <1>1, <1>2

(* An issue of Mythril is put at its first place, if that is complete.     *)
IssueOn(found, c, l) == \E x \in FindEntries : HasElement(found, x) /\ x.detector = c /\ Scan!Clamped(x.instances[1].line) = l
TellsIssue(es, c, l) ==
  \E q \in FindEntries : /\ HasElement(es, q) /\ q.impact \in Scan!Impacts \ {"nc", "unknown", "warning"}
                         /\ q.detector = c /\ c # NoFile /\ q.instances # <<>> /\ Scan!Complete(q.instances[1])
                         /\ Scan!Clamped(q.instances[1].line) = l

LEMMA MythrilTells ==
  ASSUME NEW es \in Seq(FindEntries), NEW c, NEW l
  PROVE  /\ Scan!ParseMythrilReport(es) \in Seq(FindEntries)
         /\ IssueOn(Scan!ParseMythrilReport(es), c, l) <=> TellsIssue(es, c, l)
<1> DEFINE S == {i \in Scan!Impacts : Scan!NormalizeSeverity(i) # NoFile}
           u == Scan!OfImpacts(es, S)
           n == Len(u)
           Issue(q) == Scan!Entry(q, Scan!NormalizeSeverity(q.impact), Scan!FirstOf(q.instances))
           w == [k \in 1 .. n |-> Issue(u[k])]
           Given(q) == Scan!Entry(Issue(q), Issue(q).impact, Scan!CompleteOf(Issue(q).instances))
<1>1. S = Scan!Impacts \ {"nc", "unknown", "warning"} /\ \A i \in S : Scan!NormalizeSeverity(i) \in Scan!Impacts
  BY FindsAssumption DEF Scan!NormalizeSeverity, Scan!Impacts
<1> HIDE DEF S
<1>2. u \in Seq(FindEntries) /\ \A q : HasElement(u, q) <=> HasElement(es, q) /\ q.impact \in S
  BY RatedAre
<1>3. Scan!ParseMythrilReport(es)
       = Scan!Usable([k \in DOMAIN u |-> Scan!Entry(u[k], Scan!NormalizeSeverity(u[k].impact), Scan!FirstOf(u[k].instances))])
  BY Zenon DEF Scan!ParseMythrilReport, S
<1> HIDE DEF u
<1>4. n \in Nat /\ u \in [1 .. n -> FindEntries] /\ DOMAIN u = 1 .. n
  BY <1>2, LenProperties
<1>5. Scan!ParseMythrilReport(es) = Scan!Usable(w)
  BY <1>3, <1>4, Zenon
<1>6. ASSUME NEW q \in FindEntries, q.impact \in S
      PROVE  /\ Issue(q) \in FindEntries /\ Issue(q).detector = q.detector
             /\ Issue(q).instances = Scan!FirstOf(q.instances) /\ q.instances \in Seq(FindPlaces)
             /\ Scan!FirstOf(q.instances) \in Seq(FindPlaces)
             /\ Issue(q).impact \in Scan!Impacts
  <2>1. Scan!NormalizeSeverity(q.impact) \in Scan!Impacts /\ q.instances \in Seq(FindPlaces)
    BY <1>1, <1>6 DEF FindEntries
  <2>2. Scan!FirstOf(q.instances) \in Seq(FindPlaces)
    BY <2>1, FirstIs
  <2> QED
    BY <2>1, <2>2, EntryIs
<1>7. ASSUME NEW k \in 1 .. n PROVE u[k] \in FindEntries /\ u[k].impact \in S /\ HasElement(u, u[k]) /\ w[k] = Issue(u[k])
  BY <1>2, <1>4 DEF HasElement
<1>8. DOMAIN w = 1 .. n /\ w \in [1 .. n -> FindEntries]
  <2>1. ASSUME NEW k \in 1 .. n PROVE w[k] \in FindEntries
    BY <1>6, <1>7
  <2> QED
    BY <2>1
<1> HIDE DEF w
<1>9. w \in Seq(FindEntries) /\ Len(w) = n
  BY <1>4, <1>8, ListIs
<1>10. \A e : HasElement(w, e) <=> \E q \in FindEntries : HasElement(u, q) /\ e = Issue(q)
  <2>1. ASSUME NEW e, HasElement(w, e) PROVE \E q \in FindEntries : HasElement(u, q) /\ e = Issue(q)
    <3>1. PICK k \in 1 .. n : w[k] = e
      BY <1>9, <2>1 DEF HasElement
    <3> HIDE DEF Issue
    <3> QED
      BY <1>7, <3>1
  <2>2. ASSUME NEW q \in FindEntries, HasElement(u, q) PROVE HasElement(w, Issue(q))
    <3>1. PICK k \in 1 .. n : u[k] = q
      BY <2>2 DEF HasElement
    <3> HIDE DEF Issue
    <3> QED
      BY <1>7, <1>9, <3>1 DEF HasElement
  <2> HIDE DEF Issue
  <2> QED
    BY <2>1, <2>2
<1>11. ASSUME NEW q \in FindEntries, q.impact \in S
       PROVE  /\ Given(q) \in FindEntries /\ Given(q).detector = q.detector
              /\ Scan!CompleteOf(Issue(q).instances) # <<>> <=> q.instances # <<>> /\ Scan!Complete(q.instances[1])
              /\ Scan!CompleteOf(Issue(q).instances) # <<>> => Given(q).instances[1] = q.instances[1]
  <2> DEFINE all == Scan!CompleteOf(Issue(q).instances)
  <2>1. all \in Seq(FindPlaces) /\ \A y : HasElement(all, y) <=> HasElement(Scan!FirstOf(q.instances), y) /\ Scan!Complete(y)
    <3> HIDE DEF Issue
    <3> QED
      BY <1>6, <1>11, CompleteAre
  <2>2. \A y : HasElement(all, y) <=> q.instances # <<>> /\ y = q.instances[1] /\ Scan!Complete(y)
    <3> HIDE DEF Issue, all
    <3> QED
      BY <1>6, <1>11, <2>1, FirstIs
  <2>3. Given(q) = Scan!Entry(Issue(q), Issue(q).impact, all)
    OBVIOUS
  <2>4. Issue(q) \in FindEntries /\ Issue(q).impact \in Scan!Impacts /\ Issue(q).detector = q.detector
    BY <1>6, <1>11
  <2> HIDE DEF all, Found, Issue
  <2>5. Given(q) \in FindEntries /\ Given(q).detector = q.detector /\ Given(q).instances = all
    BY <2>1, <2>3, <2>4, EntryIs
  <2>6. all # <<>> <=> \E y : HasElement(all, y)
    BY <2>1, HasSome
  <2>7. ASSUME all # <<>> PROVE all[1] = q.instances[1]
    <3>1. 1 \in 1 .. Len(all)
      BY <2>1, <2>7, EmptySeq, LenProperties
    <3>2. HasElement(all, all[1])
      BY <3>1 DEF HasElement
    <3> QED
      BY <2>2, <3>2
  <2>8. /\ Given(q) \in FindEntries /\ Given(q).detector = q.detector
        /\ all # <<>> <=> q.instances # <<>> /\ Scan!Complete(q.instances[1])
        /\ all # <<>> => Given(q).instances[1] = q.instances[1]
    BY <2>2, <2>5, <2>6, <2>7
  <2> QED
    BY <2>8 DEF all
<1>12. \A x : HasElement(Scan!Usable(w), x) <=>
              \E q \in FindEntries :
                /\ HasElement(es, q) /\ q.impact \in S /\ q.detector # NoFile /\ q.instances # <<>> /\ Scan!Complete(q.instances[1])
                /\ x = Given(q)
  <2>1. ASSUME NEW x
        PROVE  HasElement(Scan!Usable(w), x) <=>
                 \E e \in FindEntries : /\ HasElement(w, e) /\ e.detector # NoFile /\ Scan!CompleteOf(e.instances) # <<>>
                                      /\ x = Scan!Entry(e, e.impact, Scan!CompleteOf(e.instances))
    BY <1>9, UsableAre, Zenon
  <2>2. ASSUME NEW x, HasElement(Scan!Usable(w), x)
        PROVE  \E q \in FindEntries :
                /\ HasElement(es, q) /\ q.impact \in S /\ q.detector # NoFile /\ q.instances # <<>> /\ Scan!Complete(q.instances[1])
                /\ x = Given(q)
    <3>1. PICK e \in FindEntries : /\ HasElement(w, e) /\ e.detector # NoFile /\ Scan!CompleteOf(e.instances) # <<>>
                                 /\ x = Scan!Entry(e, e.impact, Scan!CompleteOf(e.instances))
      BY <2>1, <2>2
    <3>2. PICK q \in FindEntries : HasElement(u, q) /\ e = Issue(q)
      BY <1>10, <3>1
    <3>3. HasElement(es, q) /\ q.impact \in S /\ x = Given(q)
      BY <1>2, <3>1, <3>2
    <3>4. q.detector # NoFile
      BY <1>6, <3>1, <3>2, <3>3
    <3> HIDE DEF Found, Issue
    <3> QED
      BY <1>11, <3>1, <3>2, <3>3, <3>4
  <2>3. ASSUME NEW q \in FindEntries, HasElement(es, q), q.impact \in S, q.detector # NoFile, q.instances # <<>>, Scan!Complete(q.instances[1])
        PROVE  HasElement(Scan!Usable(w), Given(q))
    <3>1. Issue(q) \in FindEntries /\ Issue(q).detector = q.detector
      BY <1>6, <2>3
    <3>2. Given(q) = Scan!Entry(Issue(q), Issue(q).impact, Scan!CompleteOf(Issue(q).instances))
      OBVIOUS
    <3>3. HasElement(u, q)
      BY <1>2, <2>3
    <3> HIDE DEF Found, Issue
    <3>4. HasElement(w, Issue(q)) /\ Scan!CompleteOf(Issue(q).instances) # <<>>
      BY <1>10, <1>11, <2>3, <3>3
    <3> QED
      BY <2>1, <2>3, <3>1, <3>2, <3>4
  <2> HIDE DEF Found
  <2> QED
    BY <2>2, <2>3
<1> HIDE DEF Found, Issue
<1>13. (\E x \in FindEntries : HasElement(Scan!Usable(w), x) /\ x.detector = c /\ Scan!Clamped(x.instances[1].line) = l)
        <=> \E q \in FindEntries : /\ HasElement(es, q) /\ q.impact \in S
                                 /\ q.detector = c /\ c # NoFile /\ q.instances # <<>> /\ Scan!Complete(q.instances[1])
                                 /\ Scan!Clamped(q.instances[1].line) = l
  BY <1>11, <1>12
<1>14. Scan!Usable(w) \in Seq(FindEntries)
  BY <1>9, UsableAre
<1> QED
  BY <1>1, <1>5, <1>13, <1>14 DEF IssueOn, TellsIssue

(* Where diagnostics are put: at the lines of the places in the file.      *)
OnLine(D, c, l) == \E x \in D : x.code = c /\ x.line = l
TellsOn(es, f, c, l) == \E i, y : Tells(es, c, i, y) /\ y.file = f /\ l = Scan!Clamped(y.line)

LEMMA PutOnLines ==
  ASSUME NEW es \in Seq(FindEntries), NEW f, NEW severity, NEW c, NEW l
  PROVE  OnLine(Scan!DiagnosticsOn(es, f, severity), c, l) <=> TellsOn(es, f, c, l)
<1> DEFINE On(k, i) == [code |-> es[k].detector, line |-> Scan!Clamped(es[k].instances[i].line),
                        severity |-> severity[es[k].impact], related |-> Scan!Related(es[k], i)]
<1>1. /\ Len(es) \in Nat /\ DOMAIN es = 1 .. Len(es)
      /\ \A k \in 1 .. Len(es) : es[k] \in FindEntries /\ DOMAIN es[k].instances = 1 .. Len(es[k].instances)
  <2>1. Len(es) \in Nat /\ DOMAIN es = 1 .. Len(es) /\ \A k \in 1 .. Len(es) : es[k] \in FindEntries
    BY LenProperties
  <2>2. \A e \in FindEntries : e.instances \in Seq(FindPlaces)
    BY DEF FindEntries
  <2>3. \A is \in Seq(FindPlaces) : DOMAIN is = 1 .. Len(is)
    BY LenProperties
  <2> QED
    BY <2>1, <2>2, <2>3
<1>2. Scan!DiagnosticsOn(es, f, severity)
       = UNION {{On(k, i) : i \in {i \in DOMAIN es[k].instances : es[k].instances[i].file = f}} : k \in DOMAIN es}
  BY DEF Scan!DiagnosticsOn
<1>3. \A k, i : On(k, i).code = es[k].detector /\ On(k, i).line = Scan!Clamped(es[k].instances[i].line)
  OBVIOUS
<1> HIDE DEF On
<1>4. ASSUME NEW x \in Scan!DiagnosticsOn(es, f, severity), x.code = c, x.line = l
      PROVE  \E i, y : Tells(es, c, i, y) /\ y.file = f /\ l = Scan!Clamped(y.line)
  <2>0. PICK k \in DOMAIN es : \E i \in DOMAIN es[k].instances : es[k].instances[i].file = f /\ x = On(k, i)
    BY <1>2, <1>4
  <2>1. PICK i \in DOMAIN es[k].instances : es[k].instances[i].file = f /\ x = On(k, i)
    BY <2>0
  <2> DEFINE y == es[k].instances[i]
  <2>2. HasElement(es, es[k]) /\ es[k] \in FindEntries /\ HasElement(es[k].instances, y)
    BY <1>1, <2>1 DEF HasElement
  <2>3. Tells(es, c, es[k].impact, y) /\ l = Scan!Clamped(y.line) /\ y.file = f
    BY <1>3, <1>4, <2>1, <2>2 DEF Tells
  <2> QED
    BY <2>3
<1>5. ASSUME NEW i, NEW y, Tells(es, c, i, y), y.file = f, l = Scan!Clamped(y.line)
      PROVE  \E x \in Scan!DiagnosticsOn(es, f, severity) : x.code = c /\ x.line = l
  <2>1. PICK e \in FindEntries : HasElement(es, e) /\ e.detector = c /\ HasElement(e.instances, y)
    BY <1>5 DEF Tells
  <2>2. PICK k \in 1 .. Len(es) : es[k] = e
    BY <2>1 DEF HasElement
  <2>3. PICK j \in 1 .. Len(es[k].instances) : es[k].instances[j] = y
    BY <2>1, <2>2 DEF HasElement
  <2>4. On(k, j) \in Scan!DiagnosticsOn(es, f, severity)
    BY <1>1, <1>2, <1>5, <2>3
  <2>5. On(k, j).code = c /\ On(k, j).line = l
    BY <1>3, <1>5, <2>1, <2>2, <2>3
  <2> QED
    BY <2>4, <2>5
<1> QED
  BY <1>4, <1>5 DEF OnLine, TellsOn

(* The lines that a run's report gives.                                    *)
Stands(run, f, c, l) ==
  \E e \in FindEntries, y \in FindPlaces :
    /\ HasElement(Finds[run.tool][run.seen], e) /\ e.impact \in Scan!Rated(run.tool) /\ e.detector = c
    /\ IF run.tool = "mythril" THEN e.instances # <<>> /\ y = e.instances[1] ELSE HasElement(e.instances, y)
    /\ run.tool # "slither" => c # NoFile /\ Scan!Complete(y)
    /\ IF run.tool = "mythril" THEN run.target = f ELSE y.file = f
    /\ l = Scan!Clamped(y.line)

LEMMA LinesStand ==
  ASSUME NEW run, Finds[run.tool][run.seen] \in Seq(FindEntries), NEW f
  PROVE  Scan!LinesFound(run, f) = {z \in {<<c, l>> : c \in STRING \cup {NoFile}, l \in Nat} : Stands(run, f, z[1], z[2])}
<1> DEFINE es == Finds[run.tool][run.seen]
           places(k) == IF run.tool = "mythril" THEN {1} \cap DOMAIN es[k].instances ELSE DOMAIN es[k].instances
           Used(k, i) == /\ es[k].impact \in Scan!Rated(run.tool)
                         /\ run.tool # "slither" => es[k].detector # NoFile /\ Scan!Complete(es[k].instances[i])
                         /\ IF run.tool = "mythril" THEN run.target = f ELSE es[k].instances[i].file = f
           Line(k, i) == <<es[k].detector, Scan!Clamped(es[k].instances[i].line)>>
           L == UNION {{Line(k, i) : i \in {i \in places(k) : Used(k, i)}} : k \in DOMAIN es}
           R == {z \in {<<c, l>> : c \in STRING \cup {NoFile}, l \in Nat} : Stands(run, f, z[1], z[2])}
<1>1. Scan!LinesFound(run, f) = L
  BY Zenon DEF Scan!LinesFound
<1>2. es \in Seq(FindEntries)
  OBVIOUS
<1> HIDE DEF es
<1>3. /\ Len(es) \in Nat /\ DOMAIN es = 1 .. Len(es)
      /\ \A k \in 1 .. Len(es) :
           /\ es[k] \in FindEntries /\ es[k].detector \in STRING \cup {NoFile}
           /\ es[k].instances \in Seq(FindPlaces) /\ DOMAIN es[k].instances = 1 .. Len(es[k].instances)
           /\ \A i \in 1 .. Len(es[k].instances) : es[k].instances[i] \in FindPlaces
           /\ Len(es[k].instances) \in Nat /\ (es[k].instances # <<>> => 1 \in 1 .. Len(es[k].instances))
  <2>1. Len(es) \in Nat /\ DOMAIN es = 1 .. Len(es) /\ \A k \in 1 .. Len(es) : es[k] \in FindEntries
    BY <1>2, LenProperties
  <2>2. ASSUME NEW k \in 1 .. Len(es)
        PROVE  /\ es[k].detector \in STRING \cup {NoFile} /\ es[k].instances \in Seq(FindPlaces)
    BY <2>1 DEF FindEntries
  <2>3. ASSUME NEW is \in Seq(FindPlaces)
        PROVE  /\ DOMAIN is = 1 .. Len(is) /\ \A i \in 1 .. Len(is) : is[i] \in FindPlaces
               /\ Len(is) \in Nat /\ (is # <<>> => 1 \in 1 .. Len(is))
    BY EmptySeq, LenProperties
  <2> QED
    BY <2>1, <2>2, <2>3
<1>4. \A y \in FindPlaces : Scan!Clamped(y.line) \in Nat
  BY DEF FindPlaces, Scan!Clamped
<1>5. ASSUME NEW k \in DOMAIN es, NEW i \in places(k), Used(k, i) PROVE Line(k, i) \in R
  <2> DEFINE y == es[k].instances[i]
             l == Scan!Clamped(y.line)
  <2>1. i \in 1 .. Len(es[k].instances) /\ (run.tool = "mythril" => i = 1 /\ es[k].instances # <<>>)
    <3>1. CASE run.tool = "mythril"
      <4>1. i = 1 /\ 1 \in 1 .. Len(es[k].instances)
        BY <1>3, <1>5, <3>1
      <4>2. es[k].instances # <<>>
        <5>1. ASSUME es[k].instances = <<>> PROVE FALSE
          BY <4>1, <5>1
        <5> QED
          BY <5>1
      <4> QED
        BY <4>1, <4>2
    <3>2. CASE run.tool # "mythril"
      BY <1>3, <1>5, <3>2
    <3> QED
      BY <3>1, <3>2
  <2>2. es[k] \in FindEntries /\ HasElement(es, es[k]) /\ y \in FindPlaces /\ HasElement(es[k].instances, y)
    BY <1>3, <2>1 DEF HasElement
  <2>3. es[k].detector \in STRING \cup {NoFile} /\ l \in Nat
    BY <1>3, <1>4, <2>2
  <2>4. Stands(run, f, es[k].detector, l)
    BY <1>5, <2>1, <2>2 DEF Stands, es
  <2> DEFINE c == es[k].detector
  <2>5. Line(k, i) = <<c, l>>
    OBVIOUS
  <2>6. c \in STRING \cup {NoFile} /\ l \in Nat /\ Stands(run, f, c, l)
    BY <2>3, <2>4
  <2> HIDE DEF c, l, Line
  <2>7. <<c, l>> \in R
    BY <2>6
  <2> QED
    BY <2>5, <2>7
<1>6. ASSUME NEW c, NEW l, Stands(run, f, c, l) PROVE <<c, l>> \in L
  <2>1. PICK e \in FindEntries, y \in FindPlaces :
          /\ HasElement(es, e) /\ e.impact \in Scan!Rated(run.tool) /\ e.detector = c
          /\ IF run.tool = "mythril" THEN e.instances # <<>> /\ y = e.instances[1] ELSE HasElement(e.instances, y)
          /\ run.tool # "slither" => c # NoFile /\ Scan!Complete(y)
          /\ IF run.tool = "mythril" THEN run.target = f ELSE y.file = f
          /\ l = Scan!Clamped(y.line)
    BY <1>6 DEF Stands, es
  <2>2. PICK k \in 1 .. Len(es) : es[k] = e
    BY <2>1 DEF HasElement
  <2>3. PICK i \in places(k) : es[k].instances[i] = y
    <3>1. CASE run.tool = "mythril"
      <4>1. 1 \in places(k) /\ es[k].instances[1] = y
        BY <1>3, <2>1, <2>2, <3>1
      <4> QED
        BY <4>1
    <3>2. CASE run.tool # "mythril"
      <4>1. PICK i \in 1 .. Len(es[k].instances) : es[k].instances[i] = y
        BY <2>1, <2>2, <3>2 DEF HasElement
      <4>2. i \in places(k)
        BY <1>3, <3>2, <4>1
      <4> QED
        BY <4>1, <4>2
    <3> QED
      BY <3>1, <3>2
  <2>4. Used(k, i) /\ Line(k, i) = <<c, l>>
    BY <2>1, <2>2, <2>3
  <2>5. k \in DOMAIN es
    BY <1>3
  <2> HIDE DEF Used, places, Line
  <2> QED
    BY <2>3, <2>4, <2>5
<1>7. L \subseteq R
  <2> HIDE DEF R, Used, places, Line
  <2> QED
    BY <1>5
<1>8. R \subseteq L
  <2> SUFFICES ASSUME NEW z \in R PROVE z \in L
    OBVIOUS
  <2>1. PICK c \in STRING \cup {NoFile}, l \in Nat : z = <<c, l>>
    OBVIOUS
  <2>2. Stands(run, f, c, l)
    BY <2>1
  <2> HIDE DEF L, R
  <2> QED
    BY <1>6, <2>1, <2>2
<1> HIDE DEF L, R
<1>9. L = R
  BY <1>7, <1>8
<1> QED
  BY <1>1, <1>9 DEF R

LEMMA TellsOf ==
  ASSUME NEW es, NEW c, NEW i, NEW y, Tells(es, c, i, y)
  PROVE  c \in STRING \cup {NoFile} /\ i \in Scan!Impacts /\ y \in FindPlaces
<1>1. PICK e \in FindEntries : e.detector = c /\ e.impact = i /\ HasElement(e.instances, y)
  BY DEF Tells
<1>2. e.detector \in STRING \cup {NoFile} /\ e.impact \in Scan!Impacts /\ e.instances \in Seq(FindPlaces)
  BY DEF FindEntries
<1>3. y \in FindPlaces
  BY <1>1, <1>2, LenProperties DEF HasElement
<1> QED
  BY <1>1, <1>2, <1>3

TellsRated(tool, es, f, c, l) ==
  \E i, y : /\ Tells(es, c, i, y) /\ i \in Scan!Rated(tool)
            /\ tool # "slither" => c # NoFile /\ Scan!Complete(y)
            /\ y.file = f /\ l = Scan!Clamped(y.line)

LEMMA StandsOf ==
  ASSUME NEW run, run.tool # "mythril", NEW f, NEW c, NEW l
  PROVE  Stands(run, f, c, l) <=> TellsRated(run.tool, Finds[run.tool][run.seen], f, c, l)
<1> DEFINE es == Finds[run.tool][run.seen]
<1> HIDE DEF es
<1>1. ASSUME Stands(run, f, c, l)
      PROVE  \E i, y : /\ Tells(es, c, i, y) /\ i \in Scan!Rated(run.tool)
                       /\ run.tool # "slither" => c # NoFile /\ Scan!Complete(y)
                       /\ y.file = f /\ l = Scan!Clamped(y.line)
  <2>1. PICK e \in FindEntries, y \in FindPlaces :
          /\ HasElement(es, e) /\ e.impact \in Scan!Rated(run.tool) /\ e.detector = c /\ HasElement(e.instances, y)
          /\ run.tool # "slither" => c # NoFile /\ Scan!Complete(y)
          /\ y.file = f /\ l = Scan!Clamped(y.line)
    BY <1>1 DEF Stands, es
  <2>2. Tells(es, c, e.impact, y)
    BY <2>1 DEF Tells
  <2> QED
    BY <2>1, <2>2
<1>2. ASSUME NEW i, NEW y, Tells(es, c, i, y), i \in Scan!Rated(run.tool), run.tool # "slither" => c # NoFile /\ Scan!Complete(y),
             y.file = f, l = Scan!Clamped(y.line)
      PROVE  Stands(run, f, c, l)
  <2>1. y \in FindPlaces
    BY <1>2, TellsOf
  <2>2. PICK e \in FindEntries : HasElement(es, e) /\ e.detector = c /\ e.impact = i /\ HasElement(e.instances, y)
    BY <1>2 DEF Tells
  <2> QED
    BY <1>2, <2>1, <2>2 DEF Stands, es
<1>3. Stands(run, f, c, l) <=>
        \E i, y : /\ Tells(es, c, i, y) /\ i \in Scan!Rated(run.tool)
                  /\ run.tool # "slither" => c # NoFile /\ Scan!Complete(y)
                  /\ y.file = f /\ l = Scan!Clamped(y.line)
  BY <1>1, <1>2
<1> QED
  BY <1>3 DEF es, TellsRated

(* What is put on a file is at the lines that the report gives.            *)
LEMMA BuiltStands ==
  ASSUME NEW run, run.tool \in Scan!Tools, Finds[run.tool][run.seen] \in Seq(FindEntries), NEW f, NEW c, NEW l
  PROVE  OnLine(Scan!BuildDiagnostics(run, f), c, l) <=> Stands(run, f, c, l)
<1> DEFINE es == Finds[run.tool][run.seen]
           B == Scan!BuildDiagnostics(run, f)
<1>0. es \in Seq(FindEntries)
  OBVIOUS
<1>1. CASE run.tool = "slither"
  <2>1. B = Scan!DiagnosticsOn(es, f, Scan!SlitherDiagnosticSeverity)
    BY <1>1, Zenon DEF Scan!BuildDiagnostics, Scan!BuildSlitherDiagnostics
  <2> HIDE DEF es, B
  <2>2. OnLine(B, c, l) <=> TellsOn(es, f, c, l)
    BY <1>0, <2>1, PutOnLines
  <2>3. Scan!Rated(run.tool) = Scan!Impacts
    BY <1>1, Zenon DEF Scan!Rated
  <2>4. Stands(run, f, c, l) <=> TellsRated(run.tool, es, f, c, l)
    BY <1>1, StandsOf DEF es
  <2> QED
    BY <1>1, <2>2, <2>3, <2>4, TellsOf DEF B, TellsOn, TellsRated
<1>2. CASE run.tool = "aderyn"
  <2>1. B = Scan!DiagnosticsOn(Scan!ParseAderynReport(es), f, Scan!AderynDiagnosticSeverity)
    BY <1>2, Zenon DEF Scan!BuildDiagnostics, Scan!BuildAderynDiagnostics
  <2> HIDE DEF es, B
  <2>2. Scan!ParseAderynReport(es) \in Seq(FindEntries)
    BY <1>0, AderynTells
  <2>3. OnLine(B, c, l) <=> TellsOn(Scan!ParseAderynReport(es), f, c, l)
    BY <2>1, <2>2, PutOnLines
  <2>4. Scan!Rated(run.tool) = {"high", "low", "nc"}
    BY <1>2, Zenon DEF Scan!Rated
  <2>5. \A i, y : Tells(Scan!ParseAderynReport(es), c, i, y) <=>
                    Tells(es, c, i, y) /\ i \in {"high", "low", "nc"} /\ c # NoFile /\ Scan!Complete(y)
    BY <1>0, AderynTells
  <2>6. Stands(run, f, c, l) <=> TellsRated(run.tool, es, f, c, l)
    BY <1>2, StandsOf DEF es
  <2> QED
    BY <1>2, <2>3, <2>4, <2>5, <2>6 DEF B, TellsOn, TellsRated
<1>3. CASE run.tool = "wake"
  <2>1. B = Scan!DiagnosticsOn(Scan!ParseWakeReport(es), f, Scan!WakeDiagnosticSeverity)
    BY <1>3, Zenon DEF Scan!BuildDiagnostics, Scan!BuildWakeDiagnostics
  <2> HIDE DEF es, B
  <2>2. Scan!ParseWakeReport(es) \in Seq(FindEntries)
    BY <1>0, WakeTells
  <2>3. OnLine(B, c, l) <=> TellsOn(Scan!ParseWakeReport(es), f, c, l)
    BY <2>1, <2>2, PutOnLines
  <2>4. Scan!Rated(run.tool) = Scan!Impacts \ {"nc", "unknown"}
    BY <1>3, Zenon DEF Scan!Rated
  <2>5. \A y : (\E i : Tells(Scan!ParseWakeReport(es), c, i, y)) <=>
                 \E i \in Scan!Impacts \ {"nc", "unknown"} : Tells(es, c, i, y) /\ c # NoFile /\ Scan!Complete(y)
    BY <1>0, WakeTells
  <2>6. Stands(run, f, c, l) <=> TellsRated(run.tool, es, f, c, l)
    BY <1>3, StandsOf DEF es
  <2> QED
    BY <1>3, <2>3, <2>4, <2>5, <2>6 DEF B, TellsOn, TellsRated
<1>4. CASE run.tool = "mythril"
  <2> DEFINE found == Scan!ParseMythrilReport(es)
             Told(k) == [code |-> found[k].detector, line |-> Scan!Clamped(found[k].instances[1].line),
                        severity |-> Scan!MythrilDiagnosticSeverity[found[k].impact], related |-> {}]
  <2>1. B = IF f = run.target THEN {Told(k) : k \in DOMAIN found} ELSE {}
    BY <1>4, Zenon DEF Scan!BuildDiagnostics, Scan!BuildMythrilDiagnostics
  <2>2. found \in Seq(FindEntries)
    BY <1>0, MythrilTells
  <2>3. \A k : Told(k).code = found[k].detector /\ Told(k).line = Scan!Clamped(found[k].instances[1].line)
    OBVIOUS
  <2> HIDE DEF es, B, found, Told
  <2>4. DOMAIN found = 1 .. Len(found) /\ \A k \in 1 .. Len(found) : found[k] \in FindEntries
    BY <2>2, LenProperties
  <2>5. OnLine(B, c, l) <=>
          f = run.target /\ IssueOn(found, c, l)
    BY <2>1, <2>3, <2>4 DEF HasElement, OnLine, IssueOn
  <2>6. Scan!Rated(run.tool) = Scan!Impacts \ {"nc", "unknown", "warning"}
    BY <1>4, Zenon DEF Scan!Rated
  <2>7. Stands(run, f, c, l) <=>
          f = run.target /\ TellsIssue(es, c, l)
    <3>1. \A q \in FindEntries : q.instances # <<>> => q.instances[1] \in FindPlaces
      <4>1. \A q \in FindEntries : q.instances \in Seq(FindPlaces)
        BY DEF FindEntries
      <4> QED
        BY <4>1, EmptySeq, LenProperties
    <3> QED
      BY <1>4, <2>6, <3>1 DEF Stands, es, TellsIssue
  <2>8. IssueOn(found, c, l) <=> TellsIssue(es, c, l)
    BY <1>0, MythrilTells DEF found
  <2> QED
    BY <2>5, <2>7, <2>8 DEF B
<1> QED
  BY <1>1, <1>2, <1>3, <1>4 DEF Scan!Tools

LEMMA BuiltLines ==
  ASSUME NEW run, run.tool \in Scan!Tools, run.seen \in Scan!Texts, NEW f
  PROVE  {<<x.code, x.line>> : x \in Scan!BuildDiagnostics(run, f)} = Scan!LinesFound(run, f)
<1> DEFINE D == {<<x.code, x.line>> : x \in Scan!BuildDiagnostics(run, f)}
           C == STRING \cup {NoFile}
           R == {z \in {<<c, l>> : c \in C, l \in Nat} : Stands(run, f, z[1], z[2])}
<1>1. Finds[run.tool][run.seen] \in Seq(FindEntries)
  BY FindsAssumption DEF FindEntries, FindPlaces
<1>2. Scan!LinesFound(run, f) = R
  BY <1>1, LinesStand
<1>3. \A c, l : (\E x \in Scan!BuildDiagnostics(run, f) : x.code = c /\ x.line = l) <=> Stands(run, f, c, l)
  BY <1>1, BuiltStands DEF OnLine
<1>4. ASSUME NEW c, NEW l, Stands(run, f, c, l) PROVE c \in C /\ l \in Nat
  <2>1. PICK e \in FindEntries, y \in FindPlaces : e.detector = c /\ l = Scan!Clamped(y.line)
    BY <1>4 DEF Stands
  <2> QED
    BY <2>1 DEF FindEntries, FindPlaces, Scan!Clamped
<1> HIDE DEF C
<1>5. ASSUME NEW x \in Scan!BuildDiagnostics(run, f) PROVE <<x.code, x.line>> \in R
  <2> DEFINE c == x.code
             l == x.line
  <2>1. c \in C /\ l \in Nat /\ Stands(run, f, c, l)
    BY <1>3, <1>4
  <2> HIDE DEF c, l
  <2>2. <<c, l>> \in R
    BY <2>1
  <2> QED
    BY <2>2 DEF c, l
<1>6. ASSUME NEW z \in R PROVE z \in D
  <2>1. PICK c \in C, l \in Nat : z = <<c, l>>
    OBVIOUS
  <2>2. Stands(run, f, c, l)
    BY <2>1
  <2>3. PICK x \in Scan!BuildDiagnostics(run, f) : x.code = c /\ x.line = l
    BY <1>3, <2>2
  <2> QED
    BY <2>1, <2>3
<1> HIDE DEF R
<1>7. D = R
  BY <1>5, <1>6
<1> QED
  BY <1>2, <1>7

-----------------------------------------------------------------------------
(* The texts that the runs saw are texts the disk had.                     *)
Seen(rs) == \A i \in 1 .. Len(rs) : rs[i].seen \in Scan!Texts
SeenInv == kept \in Scan!Texts /\ Seen(reading)

LEMMA SeenBegun ==
  ASSUME NEW rs, Runs(rs), Seen(rs), NEW t \in Scan!Tools, NEW target, NEW x \in Scan!Texts
  PROVE  Runs(Scan!Begun(rs, t, target, x)) /\ Seen(Scan!Begun(rs, t, target, x))
<1> DEFINE r == [tool |-> t, target |-> target, seen |-> x, during |-> Scan!Running(rs, t), state |-> "running"]
           q == Scan!Begun(rs, t, target, x)
<1>1. PICK S : rs \in Seq(S)
  BY DEF Runs
<1>2. q = Append(rs, r)
  BY DEF Scan!Begun
<1>3. Runs(q) /\ Len(rs) \in Nat /\ Len(q) = Len(rs) + 1 /\ \A i \in 1 .. Len(rs) : q[i] = rs[i]
  BY RunBegun
<1>4. r.seen = x
  OBVIOUS
<1> HIDE DEF r, q
<1>5. q[Len(rs) + 1] = r
  BY <1>1, <1>2
<1>6. ASSUME NEW i \in 1 .. Len(q) PROVE q[i].seen \in Scan!Texts
  BY <1>3, <1>4, <1>5 DEF Seen
<1> QED
  BY <1>3, <1>6 DEF Seen, q

LEMMA AllSeen ==
  ASSUME NEW ts, NEW target, NEW x \in Scan!Texts, Runs(reading), Seen(reading), Scan!Starts(ts, target, x)
  PROVE  Seen(reading')
<1> DEFINE begin == {t \in ts \cap form : t = "mythril" => command = NoFile}
           Begin(rs, t) == IF t \in begin THEN Scan!Begun(rs, t, target, x) ELSE rs
           rs1 == Begin(reading, "slither")
           rs2 == Begin(rs1, "aderyn")
           rs3 == Begin(rs2, "wake")
<1>1. reading' = Begin(rs3, "mythril")
  BY Zenon DEF Scan!Starts
<1> HIDE DEF begin
<1>2. "slither" \in Scan!Tools /\ "aderyn" \in Scan!Tools /\ "wake" \in Scan!Tools /\ "mythril" \in Scan!Tools
  BY DEF Scan!Tools
<1>3. ASSUME NEW t \in Scan!Tools, NEW rs, Runs(rs) /\ Seen(rs) PROVE Runs(Begin(rs, t)) /\ Seen(Begin(rs, t))
  BY <1>3, SeenBegun
<1> HIDE DEF Begin
<1>4. Runs(rs1) /\ Seen(rs1)
  BY <1>2, <1>3
<1> HIDE DEF rs1
<1>5. Runs(rs2) /\ Seen(rs2)
  BY <1>2, <1>3, <1>4
<1> HIDE DEF rs2
<1>6. Runs(rs3) /\ Seen(rs3)
  BY <1>2, <1>3, <1>5
<1> HIDE DEF rs3
<1> QED
  BY <1>1, <1>2, <1>3, <1>6

LEMMA SeenKept ==
  ASSUME SeenInv, Runs(reading), [Scan!AnalyzersNext]_(Scan!analyzerVars) PROVE SeenInv'
<1>1. CASE UNCHANGED Scan!analyzerVars
  BY <1>1 DEF SeenInv, Seen, Scan!analyzerVars
<1>2. ASSUME NEW f \in ScannedFiles, Scan!Save(f) PROVE SeenInv'
  <2>1. kept[f] < MaxScanned /\ kept' = [kept EXCEPT ![f] = kept[f] + 1] /\ Scan!Starts(Scan!Tools, f, kept')
    BY <1>2, Zenon DEF Scan!Save
  <2>2. kept[f] \in 0 .. MaxScanned /\ MaxScanned \in Nat /\ kept \in [ScannedFiles -> 0 .. MaxScanned]
    BY ScanAssumption DEF SeenInv, Scan!Texts
  <2>3. kept[f] + 1 \in 0 .. MaxScanned
    BY <2>1, <2>2
  <2>4. kept' \in Scan!Texts
    BY <2>1, <2>2, <2>3 DEF Scan!Texts
  <2>5. Seen(reading')
    BY <2>1, <2>4, AllSeen DEF SeenInv
  <2> QED
    BY <2>4, <2>5 DEF SeenInv, Seen
<1>3. ASSUME NEW f \in ScannedFiles, NEW t \in Scan!Tools, Scan!Analyze(t, f) PROVE SeenInv'
  <2>1. kept' = kept /\ Scan!Starts({t}, f, kept)
    BY <1>3, Zenon DEF Scan!Analyze
  <2>2. Seen(reading')
    BY <2>1, AllSeen DEF SeenInv
  <2> QED
    BY <2>1, <2>2 DEF SeenInv, Seen
<1>4. ASSUME NEW i \in DOMAIN reading, NEW state \in States, Scan!Ended(i, state) PROVE SeenInv'
  <2>1. kept' = kept /\ reading' = StateSetTo(reading, i, state)
    BY <1>4, Zenon DEF Scan!Ended, StateSetTo
  <2>2. i \in 1 .. Len(reading)
    <3>1. PICK S : reading \in Seq(S)
      BY DEF Runs
    <3> QED
      BY <3>1, LenProperties
  <2>3. Len(reading') = Len(reading) /\ \A j \in 1 .. Len(reading) : reading'[j].seen = reading[j].seen
    BY <2>1, <2>2, StateSet
  <2>4. Seen(reading')
    BY <2>3 DEF SeenInv, Seen
  <2> QED
    BY <2>1, <2>4 DEF SeenInv, Seen
<1>5. ASSUME NEW i \in DOMAIN reading, NEW output \in Scan!Outputs,
             Scan!SlitherEnds(i, output) \/ Scan!AderynEnds(i, output) \/ Scan!WakeEnds(i, output) \/ Scan!MythrilEnds(i, output)
      PROVE  SeenInv'
  <2>1. "clean" \in States /\ "found" \in States /\ "log" \in States /\ "error" \in States
    BY DEF States
  <2>2. Scan!Ended(i, "clean") \/ Scan!Ended(i, "found") \/ Scan!Ended(i, "log") \/ Scan!Ended(i, "error")
    BY <1>5, Zenon DEF Scan!SlitherEnds, Scan!AderynEnds, Scan!WakeEnds, Scan!MythrilEnds, Scan!Reports, Scan!Outputs
  <2> QED
    BY <1>4, <2>1, <2>2
<1> QED
  BY <1>1, <1>2, <1>3, <1>5 DEF Scan!AnalyzersNext

LEMMA LinesShown == ASSUME ScanInv, SeenInv PROVE Scan!ShowsTheLastRun
<1>1. PICK S : reading \in Seq(S)
  BY DEF ScanInv, ToolsFit, Runs
<1>2. DOMAIN reading = 1 .. Len(reading) /\ Len(reading) \in Nat
  BY <1>1, LenProperties
<1>3. Scan!ShowsOneRun
  BY ShownIsOfOneRun
<1>4. ASSUME NEW i \in 1 .. Len(reading), NEW f \in ScannedFiles
      PROVE  {<<x.code, x.line>> : x \in Scan!BuildDiagnostics(reading[i], f)} = Scan!LinesFound(reading[i], f)
  <2>1. reading[i].tool \in Scan!Tools /\ reading[i].seen \in Scan!Texts
    BY DEF ScanInv, ToolsFit, Runs, IsRun, SeenInv, Seen
  <2> QED
    BY <2>1, BuiltLines
<1>5. ASSUME NEW t \in Scan!Tools, NEW f \in ScannedFiles, Scan!RunsOf(t, f) # {}
      PROVE  LET last == CHOOSE i \in Scan!RunsOf(t, f) : \A j \in Scan!RunsOf(t, f) : j <= i
                 by == ran[t][f].run
                 lines == {<<x.code, x.line>> : x \in ran[t][f].diagnostics}
             IN  /\ by # 0 => lines = Scan!LinesFound(reading[by], f)
                 /\ reading[last].during = {} =>
                      lines = (IF reading[last].state = "found" THEN Scan!LinesFound(reading[last], f) ELSE {})
  <2> DEFINE last == CHOOSE i \in Scan!RunsOf(t, f) : \A j \in Scan!RunsOf(t, f) : j <= i
             ds == ran[t][f].diagnostics
             by == ran[t][f].run
             lines == {<<x.code, x.line>> : x \in ds}
  <2>1. Scan!RunsOf(t, f) \in SUBSET (1 .. Len(reading))
    BY <1>2 DEF Scan!RunsOf
  <2>2. last \in Scan!RunsOf(t, f) /\ \A j \in Scan!RunsOf(t, f) : j <= last
    BY <1>2, <1>5, <2>1, GreatestNumber
  <2> HIDE DEF last
  <2>3. /\ by \in 0 .. Len(reading)
        /\ ds = IF by = 0 THEN {} ELSE Scan!BuildDiagnostics(reading[by], f)
    BY DEF ScanInv, ToolsFit, ToolFits
  <2>4. reading[last].during = {} => ds = IF reading[last].state = "found" THEN Scan!BuildDiagnostics(reading[last], f) ELSE {}
    BY <1>3, <2>2 DEF Scan!ShowsOneRun
  <2> HIDE DEF ds, by
  <2>5. by # 0 => lines = Scan!LinesFound(reading[by], f)
    <3> SUFFICES ASSUME by # 0 PROVE lines = Scan!LinesFound(reading[by], f)
      OBVIOUS
    <3>1. by \in 1 .. Len(reading) /\ ds = Scan!BuildDiagnostics(reading[by], f)
      BY <1>2, <2>3
    <3> QED
      BY <1>4, <3>1
  <2>6. reading[last].during = {} => lines = (IF reading[last].state = "found" THEN Scan!LinesFound(reading[last], f) ELSE {})
    <3> SUFFICES ASSUME reading[last].during = {}
                 PROVE  lines = (IF reading[last].state = "found" THEN Scan!LinesFound(reading[last], f) ELSE {})
      OBVIOUS
    <3>1. CASE reading[last].state = "found"
      BY <1>4, <2>1, <2>2, <2>4, <3>1
    <3>2. CASE reading[last].state # "found"
      BY <2>4, <3>2
    <3> QED
      BY <3>1, <3>2
  <2> QED
    BY <2>5, <2>6 DEF last, by, ds
<1> QED
  BY <1>3, <1>5, Zenon DEF Scan!ShowsTheLastRun

(* However saves, commands and reports of the analysers overlap, what a     *)
(* tool shows on a file is one run's, at exactly the lines of the complete  *)
(* entries of that run's report that name the file; and it is the last      *)
(* run's where that met no other (analyze, the report parsers).             *)
THEOREM LastRunIsShown == PartsSpec => []ShowsTheLastRun
<1> DEFINE J == part = "scan" => SeenInv
<1>1. PartsInit => J
  <2> SUFFICES ASSUME PartsInit, part = "scan" PROVE SeenInv
    OBVIOUS
  <2>1. reading = <<>> /\ kept = [f \in ScannedFiles |-> 0]
    BY Zenon DEF PartsInit, Scan!AnalyzersInit
  <2>2. Len(reading) = 0
    BY <2>1
  <2>3. 0 \in 0 .. MaxScanned
    BY ScanAssumption
  <2> QED
    BY <2>1, <2>2, <2>3 DEF SeenInv, Seen, Scan!Texts
<1>2. (part = "scan" => ScanInv) /\ J /\ [PartsNext]_allVars => J'
  <2> SUFFICES ASSUME part = "scan" => ScanInv, J, [PartsNext]_allVars, part' = "scan" PROVE SeenInv'
    OBVIOUS
  <2>1. part = "scan" /\ [Scan!AnalyzersNext]_(Scan!analyzerVars)
    BY DEF PartsNext, allVars, viewVars, Scan!analyzerVars
  <2>2. SeenInv /\ Runs(reading)
    BY <2>1 DEF ScanInv, ToolsFit
  <2> QED
    BY <2>1, <2>2, SeenKept
<1>3. (part = "scan" => ScanInv) /\ J => ShowsTheLastRun
  BY LinesShown DEF ShowsTheLastRun
<1>4. PartsSpec => [](part = "scan" => ScanInv)
  BY RunsAreMet
<1> QED
  BY <1>1, <1>2, <1>3, <1>4, PTL DEF PartsSpec
=============================================================================
