-------------------------- MODULE SolcBridge_proofs --------------------------
(***************************************************************************)
(* Proofs about SolcBridge for any files, texts and number of builds.      *)
(***************************************************************************)
EXTENDS SolcBridge, TLAPS

(* The type of the cache, as a name the prover may leave folded. *)
Bridges == [cachedAst : MaybeTexts, sourceFingerprints : MaybeTexts,
            sourceTexts : MaybeTexts, dirtyFiles : SUBSET Files]
BuildStates == [at : {"free", "diagnosing", "spawned", "ran"}, read : MaybeTexts]

BridgeOK == bridge \in Bridges /\ bridge.dirtyFiles \subseteq Cached(bridge)
WorldOK == disk \in MaybeTexts /\ document \in MaybeTexts /\ notice \subseteq Files
BuildOK == build \in [Builds -> BuildStates]
RestOK == raced \subseteq Files /\ changes \in 0 .. MaxChanges

LEMMA TypeParts == TypeOK <=> BridgeOK /\ WorldOK /\ BuildOK /\ RestOK
BY Zenon DEF TypeOK, BridgeOK, WorldOK, BuildOK, RestOK, Bridges, BuildStates

(* Invalidating a file keeps the trees and the type of the cache. *)
LEMMA InvalidateFacts ==
  ASSUME NEW B \in Bridges, B.dirtyFiles \subseteq Cached(B), NEW f \in Files
  PROVE  LET I == InvalidateFile(B, f)
         IN  I \in Bridges /\ I.dirtyFiles \subseteq Cached(I) /\ I.cachedAst = B.cachedAst
<1> DEFINE I == InvalidateFile(B, f)
<1>a. I = [cachedAst |-> B.cachedAst, sourceFingerprints |-> B.sourceFingerprints,
           sourceTexts |-> [B.sourceTexts EXCEPT ![f] = None],
           dirtyFiles |-> B.dirtyFiles \cup ({f} \cap Cached(B))]
  <2> DEFINE x == [B.sourceTexts EXCEPT ![f] = None]
             y == B.dirtyFiles \cup ({f} \cap Cached(B))
  <2>1. I = [B EXCEPT !.sourceTexts = x, !.dirtyFiles = y]
    BY DEF InvalidateFile
  <2>2. [B EXCEPT !.sourceTexts = x, !.dirtyFiles = y] =
          [cachedAst |-> B.cachedAst, sourceFingerprints |-> B.sourceFingerprints,
           sourceTexts |-> x, dirtyFiles |-> y]
    <3> DEFINE R == [B EXCEPT !.sourceTexts = x]
    <3> HIDE DEF x, y, I
    <3>1. R = [cachedAst |-> B.cachedAst, sourceFingerprints |-> B.sourceFingerprints,
               sourceTexts |-> x, dirtyFiles |-> B.dirtyFiles]
      BY DEF Bridges
    <3>2. [R EXCEPT !.dirtyFiles = y] =
            [cachedAst |-> B.cachedAst, sourceFingerprints |-> B.sourceFingerprints,
             sourceTexts |-> x, dirtyFiles |-> y]
      <4> HIDE DEF R
      <4> QED BY <3>1
    <3> QED BY <3>2, Zenon
  <2> QED
    BY <2>1, <2>2
<1>1. I.cachedAst = B.cachedAst /\ I.dirtyFiles = B.dirtyFiles \cup ({f} \cap Cached(B))
  BY <1>a
<1>2. [B.sourceTexts EXCEPT ![f] = None] \in MaybeTexts
  BY DEF Bridges, MaybeTexts
<1>3. I \in Bridges
  BY <1>a, <1>2 DEF Bridges
<1>4. Cached(I) = Cached(B)
  BY <1>1 DEF Cached
<1> QED
  BY <1>1, <1>3, <1>4

(* Extracting a build's trees gives the cache its type, and no trees but   *)
(* those of the texts that the build read.                                 *)
LEMMA ExtractFacts ==
  ASSUME NEW B, NEW read \in MaybeTexts, NEW compiled \in SUBSET Files, disk \in MaybeTexts
  PROVE  LET E == ExtractAsts(B, read, compiled)
         IN  /\ E \in Bridges /\ E.dirtyFiles \subseteq Cached(E)
             /\ \A g \in Cached(E) : E.cachedAst[g] = read[g]
<1> DEFINE E == ExtractAsts(B, read, compiled)
           A == [f \in Files |-> IF f \in compiled THEN read[f] ELSE None]
           P == [f \in Files |-> IF f \in compiled THEN disk[f] ELSE None]
           N == [f \in Files |-> None]
<1>1. A \in MaybeTexts /\ P \in MaybeTexts /\ N \in MaybeTexts
  BY DEF MaybeTexts
<1>2. E = [cachedAst |-> A, sourceFingerprints |-> P, sourceTexts |-> N, dirtyFiles |-> {}]
  BY DEF ExtractAsts
<1>3. E \in Bridges
  BY <1>1, <1>2 DEF Bridges
<1>4. E.dirtyFiles \subseteq Cached(E)
  BY <1>2
<1>5. \A g \in Cached(E) : E.cachedAst[g] = read[g]
  BY <1>2 DEF Cached
<1> QED
  BY <1>3, <1>4, <1>5

LEMMA AskFacts ==
  ASSUME BridgeOK, disk \in MaybeTexts, NEW f \in Files
  PROVE  LET A == [bridge EXCEPT !.sourceTexts[f] = SourceText(bridge, f)]
         IN  A \in Bridges /\ A.dirtyFiles \subseteq Cached(A) /\ A.cachedAst = bridge.cachedAst
<1> DEFINE A == [bridge EXCEPT !.sourceTexts[f] = SourceText(bridge, f)]
<1>a. A = [cachedAst |-> bridge.cachedAst, sourceFingerprints |-> bridge.sourceFingerprints,
           sourceTexts |-> [bridge.sourceTexts EXCEPT ![f] = SourceText(bridge, f)],
           dirtyFiles |-> bridge.dirtyFiles]
  BY DEF BridgeOK, Bridges
<1>1. A.cachedAst = bridge.cachedAst /\ A.dirtyFiles = bridge.dirtyFiles
  BY <1>a
<1>2. SourceText(bridge, f) \in Texts \cup {None}
  BY DEF SourceText, BridgeOK, Bridges, MaybeTexts
<1>3. [bridge.sourceTexts EXCEPT ![f] = SourceText(bridge, f)] \in MaybeTexts
  BY <1>2 DEF BridgeOK, Bridges, MaybeTexts
<1>4. A \in Bridges
  BY <1>a, <1>3 DEF BridgeOK, Bridges
<1>5. Cached(A) = Cached(bridge)
  BY <1>1 DEF Cached
<1> QED
  BY <1>1, <1>4, <1>5 DEF BridgeOK

LEMMA TypeInit == Init => TypeOK
<1> SUFFICES ASSUME Init PROVE TypeOK
  OBVIOUS
<1> USE DEF Init
<1>1. BridgeOK
  BY DEF BridgeOK, Bridges, MaybeTexts, Cold, Cached
<1>2. WorldOK
  BY DEF WorldOK, MaybeTexts
<1>3. BuildOK
  BY DEF BuildOK, BuildStates, Free, MaybeTexts
<1>4. RestOK
  BY TextAssumption DEF RestOK
<1> QED
  BY <1>1, <1>2, <1>3, <1>4, TypeParts

(* Every action keeps the types, and either keeps the trees or puts in     *)
(* those of one build.                                                     *)
OneBuild ==
  \/ bridge'.cachedAst = bridge.cachedAst
  \/ \E b \in Builds : build[b].at = "ran" /\ \A g \in Cached(bridge') : bridge'.cachedAst[g] = build[b].read[g]

LEMMA CountChanges == ASSUME RestOK, May, UNCHANGED raced PROVE RestOK'
BY TextAssumption DEF RestOK, May

LEMMA Step == ASSUME TypeOK, [Next]_vars PROVE TypeOK' /\ OneBuild
<1> USE TypeParts
<1>0. BridgeOK /\ WorldOK /\ BuildOK /\ RestOK
  OBVIOUS
<1>p. (BridgeOK' /\ WorldOK' /\ BuildOK' /\ RestOK') => TypeOK'
  BY Zenon DEF TypeOK, BridgeOK, WorldOK, BuildOK, RestOK, Bridges, BuildStates
<1>b. UNCHANGED bridge => BridgeOK' /\ OneBuild
  BY <1>0 DEF BridgeOK, OneBuild, Cached
<1>1. ASSUME NEW f \in Files, NEW t \in Texts, OnDidChangeContent(f, t) PROVE TypeOK' /\ OneBuild
  <2> USE <1>1 DEF OnDidChangeContent
  <2>1. BridgeOK' /\ OneBuild
    <3>1. InvalidateFile(bridge, f) \in Bridges
          /\ InvalidateFile(bridge, f).dirtyFiles \subseteq Cached(InvalidateFile(bridge, f))
          /\ InvalidateFile(bridge, f).cachedAst = bridge.cachedAst
      BY <1>0, InvalidateFacts DEF BridgeOK
    <3> QED
      BY <3>1 DEF BridgeOK, OneBuild, Cached
  <2>2. WorldOK'
    BY <1>0 DEF WorldOK, MaybeTexts
  <2>3. BuildOK'
    BY <1>0 DEF BuildOK
  <2> QED
    BY <1>0, <1>p, <2>1, <2>2, <2>3, CountChanges
<1>2. ASSUME NEW f \in Files, NEW t \in Texts \cup {None}, Write(f, t) PROVE TypeOK' /\ OneBuild
  <2> USE <1>2 DEF Write
  <2>1. WorldOK'
    BY <1>0 DEF WorldOK, MaybeTexts
  <2>2. BuildOK'
    BY <1>0 DEF BuildOK
  <2> QED
    BY <1>0, <1>p, <1>b, <2>1, <2>2, CountChanges
<1>3. ASSUME NEW f \in Files, OnDidClose(f) PROVE TypeOK' /\ OneBuild
  <2> USE <1>3 DEF OnDidClose
  <2>1. WorldOK'
    BY <1>0 DEF WorldOK, MaybeTexts
  <2>2. BuildOK' /\ RestOK'
    BY <1>0 DEF BuildOK, RestOK
  <2> QED
    BY <1>p, <1>b, <2>1, <2>2
<1>4. ASSUME NEW f \in Files, Ask(f) PROVE TypeOK' /\ OneBuild
  <2> USE <1>4 DEF Ask, world
  <2>1. BridgeOK' /\ OneBuild
    BY <1>0, AskFacts DEF BridgeOK, OneBuild, Cached, WorldOK
  <2>2. WorldOK' /\ BuildOK' /\ RestOK'
    BY <1>0 DEF WorldOK, BuildOK, RestOK
  <2> QED
    BY <1>p, <2>1, <2>2
<1>5. ASSUME NEW f \in Files, NEW b \in Builds, NEW c \in BOOLEAN, OnDidSave(f, b, c) PROVE TypeOK' /\ OneBuild
  <2> USE <1>5 DEF OnDidSave
  <2>1. WorldOK'
    BY <1>0 DEF WorldOK, MaybeTexts
  <2>2. BuildOK'
    BY <1>0 DEF BuildOK, BuildStates
  <2> QED
    BY <1>0, <1>p, <1>b, <2>1, <2>2, CountChanges
<1>6. ASSUME OnDidChangeWatchedFiles PROVE TypeOK' /\ OneBuild
  <2> USE <1>6 DEF OnDidChangeWatchedFiles
  <2>1. PICK f \in notice : bridge' = InvalidateFile(bridge, f) /\ notice' = notice \ {f}
    OBVIOUS
  <2>2. InvalidateFile(bridge, f) \in Bridges
        /\ InvalidateFile(bridge, f).dirtyFiles \subseteq Cached(InvalidateFile(bridge, f))
        /\ InvalidateFile(bridge, f).cachedAst = bridge.cachedAst
    BY <1>0, InvalidateFacts DEF BridgeOK, WorldOK
  <2>3. BridgeOK' /\ OneBuild
    BY <2>1, <2>2 DEF BridgeOK, OneBuild, Cached
  <2>4. WorldOK' /\ BuildOK' /\ RestOK'
    BY <1>0, <2>1 DEF WorldOK, BuildOK, RestOK
  <2> QED
    BY <1>p, <2>3, <2>4
<1>7. ASSUME NEW b \in Builds, Diagnosed(b) \/ ProvideCandidates(b) \/ ForgeReads(b) PROVE TypeOK' /\ OneBuild
  <2> USE <1>7 DEF Diagnosed, ProvideCandidates, ForgeReads, world
  <2>1. BuildOK'
    BY <1>0 DEF BuildOK, BuildStates, WorldOK
  <2>2. WorldOK' /\ RestOK'
    BY <1>0 DEF WorldOK, RestOK
  <2> QED
    BY <1>p, <1>b, <2>1, <2>2
<1>8. ASSUME NEW b \in Builds, NEW s \in BOOLEAN, NEW c \in SUBSET Files, BuildEnds(b, s, c) PROVE TypeOK' /\ OneBuild
  <2> USE <1>8 DEF BuildEnds, world
  <2>1. BuildOK'
    BY <1>0 DEF BuildOK, BuildStates, Free, MaybeTexts
  <2>2. WorldOK' /\ RestOK'
    BY <1>0 DEF WorldOK, RestOK
  <2>3. BridgeOK' /\ OneBuild
    <3>1. CASE s
      <4>1. build[b].read \in MaybeTexts
        BY <1>0 DEF BuildOK, BuildStates
      <4>2. /\ ExtractAsts(bridge, build[b].read, c) \in Bridges
            /\ ExtractAsts(bridge, build[b].read, c).dirtyFiles \subseteq Cached(ExtractAsts(bridge, build[b].read, c))
            /\ \A g \in Cached(ExtractAsts(bridge, build[b].read, c)) :
                 ExtractAsts(bridge, build[b].read, c).cachedAst[g] = build[b].read[g]
        BY <1>0, <4>1, ExtractFacts DEF WorldOK
      <4> QED
        BY <3>1, <4>2 DEF BridgeOK, OneBuild, Cached
    <3>2. CASE ~s
      BY <1>b, <3>2
    <3> QED
      BY <3>1, <3>2
  <2> QED
    BY <1>p, <2>1, <2>2, <2>3
<1>9. ASSUME UNCHANGED vars PROVE TypeOK' /\ OneBuild
  <2>1. WorldOK' /\ BuildOK' /\ RestOK' /\ UNCHANGED bridge
    BY <1>0, <1>9 DEF vars, WorldOK, BuildOK, RestOK
  <2> QED
    BY <1>p, <1>b, <2>1
<1> QED
  BY <1>1, <1>2, <1>3, <1>4, <1>5, <1>6, <1>7, <1>8, <1>9 DEF Next

(* The cache, the texts and the builds keep their types; only files with a *)
(* tree are flagged as edited since it was built.                          *)
THEOREM TypeCorrect == Spec => []TypeOK
<1>1. TypeOK /\ [Next]_vars => TypeOK'
  BY Step
<1> QED
  BY TypeInit, <1>1, PTL DEF Spec

(* The trees in the cache are always those of one build: no edit, save,    *)
(* question or failing build mixes trees of several, however many builds   *)
(* overlap.                                                                *)
THEOREM TreesAreOfOneBuild == Spec => OneProgram
<1> DEFINE A == \A f \in Files : bridge'.cachedAst[f] # bridge.cachedAst[f] =>
                  \E b \in Builds : /\ build[b].at = "ran"
                                    /\ \A g \in Cached(bridge') : bridge'.cachedAst[g] = build[b].read[g]
<1>1. TypeOK /\ [Next]_vars => [A]_vars
  <2> SUFFICES ASSUME TypeOK, [Next]_vars PROVE A
    OBVIOUS
  <2>1. OneBuild
    BY Step
  <2> QED
    BY <2>1 DEF OneBuild
<1>2. Spec => [][A]_vars
  BY TypeCorrect, <1>1, PTL DEF Spec
<1> QED
  BY <1>2 DEF OneProgram
-----------------------------------------------------------------------------
(* What makes a rename exact: the tree of a file that the status calls     *)
(* fresh, the text its offsets are converted with and the open document    *)
(* are the text on disk.  Excepted are the files of RenameExactWhenFresh.  *)
Unflagged(f) ==
  f \notin bridge.dirtyFiles \cup raced \cup notice /\ disk[f] = bridge.sourceFingerprints[f]

OneText(f) ==
  /\ bridge.cachedAst[f] = disk[f]
  /\ document[f] \in {None, disk[f]}
  /\ bridge.sourceTexts[f] \in {None, disk[f]}

FreshIsOneText == \A f \in Cached(bridge) : Unflagged(f) => OneText(f)

(* A file whose tree, texts and flags stay as they are stays as it is. *)
LEMMA SameFresh ==
  ASSUME NEW g \in Cached(bridge), Unflagged(g) => OneText(g),
         g \notin raced' => g \notin raced, g \notin notice' => g \notin notice,
         g \notin bridge'.dirtyFiles => g \notin bridge.dirtyFiles,
         bridge'.cachedAst = bridge.cachedAst, bridge'.sourceFingerprints = bridge.sourceFingerprints,
         bridge'.sourceTexts[g] \in {None, bridge.sourceTexts[g], disk[g]},
         disk'[g] = disk[g], document'[g] \in {None, document[g]}
  PROVE  Unflagged(g)' => OneText(g)'
BY DEF Unflagged, OneText

LEMMA InvalidateParts ==
  ASSUME NEW B \in Bridges, NEW f \in Files
  PROVE  LET I == InvalidateFile(B, f)
         IN  /\ I.cachedAst = B.cachedAst /\ I.sourceFingerprints = B.sourceFingerprints
             /\ I.dirtyFiles = B.dirtyFiles \cup ({f} \cap Cached(B))
             /\ \A g \in Files : I.sourceTexts[g] = IF g = f THEN None ELSE B.sourceTexts[g]
<1> DEFINE x == [B.sourceTexts EXCEPT ![f] = None]
           y == B.dirtyFiles \cup ({f} \cap Cached(B))
           R == [B EXCEPT !.sourceTexts = x]
<1>1. InvalidateFile(B, f) = [B EXCEPT !.sourceTexts = x, !.dirtyFiles = y]
  BY DEF InvalidateFile
<1>2. \A g \in Files : x[g] = IF g = f THEN None ELSE B.sourceTexts[g]
  BY DEF Bridges, MaybeTexts
<1> HIDE DEF x, y
<1>3. R = [cachedAst |-> B.cachedAst, sourceFingerprints |-> B.sourceFingerprints,
           sourceTexts |-> x, dirtyFiles |-> B.dirtyFiles]
  BY DEF Bridges
<1>4. [R EXCEPT !.dirtyFiles = y] =
        [cachedAst |-> B.cachedAst, sourceFingerprints |-> B.sourceFingerprints,
         sourceTexts |-> x, dirtyFiles |-> y]
  <2> HIDE DEF R
  <2> QED BY <1>3
<1>5. InvalidateFile(B, f) =
        [cachedAst |-> B.cachedAst, sourceFingerprints |-> B.sourceFingerprints,
         sourceTexts |-> x, dirtyFiles |-> y]
  BY <1>1, <1>4, Zenon
<1>6. y = B.dirtyFiles \cup ({f} \cap Cached(B))
  BY DEF y
<1> QED
  BY <1>2, <1>5, <1>6

LEMMA AskParts ==
  ASSUME BridgeOK, NEW f \in Files
  PROVE  LET A == [bridge EXCEPT !.sourceTexts[f] = SourceText(bridge, f)]
         IN  /\ A.cachedAst = bridge.cachedAst /\ A.sourceFingerprints = bridge.sourceFingerprints
             /\ A.dirtyFiles = bridge.dirtyFiles
             /\ \A g \in Files : A.sourceTexts[g] \in {bridge.sourceTexts[g], disk[g]}
<1>1. SourceText(bridge, f) \in {bridge.sourceTexts[f], disk[f]}
  BY DEF SourceText
<1>2. [bridge EXCEPT !.sourceTexts[f] = SourceText(bridge, f)] =
        [cachedAst |-> bridge.cachedAst, sourceFingerprints |-> bridge.sourceFingerprints,
         sourceTexts |-> [bridge.sourceTexts EXCEPT ![f] = SourceText(bridge, f)],
         dirtyFiles |-> bridge.dirtyFiles]
  BY DEF BridgeOK, Bridges
<1> QED
  BY <1>1, <1>2 DEF BridgeOK, Bridges, MaybeTexts

(* One step per action: the files it touches are flagged, reported or      *)
(* excepted, unless it brings tree and text together.                      *)
LEMMA FreshStep == ASSUME TypeOK, FreshIsOneText, [Next]_vars PROVE FreshIsOneText'
<1>0. BridgeOK /\ WorldOK /\ BuildOK /\ RestOK
  BY TypeParts
<1>k. ASSUME bridge'.cachedAst = bridge.cachedAst,
             \A g \in Cached(bridge) : Unflagged(g)' => OneText(g)'
      PROVE  FreshIsOneText'
  BY <1>k DEF FreshIsOneText, Cached
<1>f. \A g \in Cached(bridge) : g \in Files /\ (Unflagged(g) => OneText(g))
  BY DEF FreshIsOneText, Cached
<1>1. ASSUME NEW f \in Files, NEW t \in Texts, OnDidChangeContent(f, t) PROVE FreshIsOneText'
  <2> USE <1>1 DEF OnDidChangeContent
  <2>1. SUFFICES ASSUME NEW g \in Cached(bridge) PROVE Unflagged(g)' => OneText(g)'
    BY <1>0, <1>k, InvalidateParts DEF BridgeOK
  <2>2. /\ bridge'.cachedAst = bridge.cachedAst
        /\ bridge'.sourceFingerprints = bridge.sourceFingerprints
        /\ bridge'.dirtyFiles = bridge.dirtyFiles \cup ({f} \cap Cached(bridge))
        /\ bridge'.sourceTexts[g] \in {None, bridge.sourceTexts[g]}
    BY <1>0, <1>f, InvalidateParts DEF BridgeOK
  <2>3. CASE g = f
    BY <2>1, <2>2, <2>3 DEF Unflagged
  <2>4. CASE g # f
    <3>1. document'[g] = document[g]
      BY <1>0, <1>f, <2>4 DEF WorldOK, MaybeTexts
    <3> QED
      BY <1>f, <2>2, <3>1, SameFresh
  <2> QED
    BY <2>3, <2>4
<1>2. ASSUME NEW f \in Files, NEW t \in Texts \cup {None}, Write(f, t) PROVE FreshIsOneText'
  <2> USE <1>2 DEF Write
  <2>1. SUFFICES ASSUME NEW g \in Cached(bridge), g # f PROVE Unflagged(g)' => OneText(g)'
    BY <1>k DEF Unflagged
  <2>2. disk'[g] = disk[g]
    BY <1>0, <1>f, <2>1 DEF WorldOK, MaybeTexts
  <2> QED
    BY <1>f, <2>2, SameFresh
<1>3. ASSUME NEW f \in Files, OnDidClose(f) PROVE FreshIsOneText'
  <2> USE <1>3 DEF OnDidClose
  <2>1. SUFFICES ASSUME NEW g \in Cached(bridge) PROVE Unflagged(g)' => OneText(g)'
    BY <1>k
  <2>2. document'[g] \in {None, document[g]}
    BY <1>0, <1>f DEF WorldOK, MaybeTexts
  <2> QED
    BY <1>f, <2>2, SameFresh
<1>4. ASSUME NEW f \in Files, Ask(f) PROVE FreshIsOneText'
  <2> USE <1>4 DEF Ask, world
  <2>1. bridge'.cachedAst = bridge.cachedAst
    BY <1>0, AskParts
  <2>2. SUFFICES ASSUME NEW g \in Cached(bridge) PROVE Unflagged(g)' => OneText(g)'
    BY <1>k, <2>1
  <2>3. /\ bridge'.sourceFingerprints = bridge.sourceFingerprints
        /\ bridge'.dirtyFiles = bridge.dirtyFiles
        /\ bridge'.sourceTexts[g] \in {bridge.sourceTexts[g], disk[g]}
    BY <1>0, <1>f, AskParts
  <2> QED
    BY <1>f, <2>1, <2>3, SameFresh
<1>5. ASSUME NEW f \in Files, NEW b \in Builds, NEW c \in BOOLEAN, OnDidSave(f, b, c) PROVE FreshIsOneText'
  <2> USE <1>5 DEF OnDidSave
  <2>1. SUFFICES ASSUME NEW g \in Cached(bridge), g # f PROVE Unflagged(g)' => OneText(g)'
    BY <1>k DEF Unflagged
  <2>2. disk'[g] = disk[g]
    BY <1>0, <1>f, <2>1 DEF WorldOK, MaybeTexts
  <2> QED
    BY <1>f, <2>2, SameFresh
<1>6. ASSUME OnDidChangeWatchedFiles PROVE FreshIsOneText'
  <2> USE <1>6 DEF OnDidChangeWatchedFiles
  <2>1. PICK f \in notice : bridge' = InvalidateFile(bridge, f) /\ notice' = notice \ {f}
    OBVIOUS
  <2>2. f \in Files
    BY <1>0 DEF WorldOK
  <2>3. SUFFICES ASSUME NEW g \in Cached(bridge) PROVE Unflagged(g)' => OneText(g)'
    BY <1>0, <1>k, <2>1, <2>2, InvalidateParts DEF BridgeOK
  <2>4. /\ bridge'.cachedAst = bridge.cachedAst
        /\ bridge'.sourceFingerprints = bridge.sourceFingerprints
        /\ bridge'.dirtyFiles = bridge.dirtyFiles \cup ({f} \cap Cached(bridge))
        /\ bridge'.sourceTexts[g] \in {None, bridge.sourceTexts[g]}
    BY <1>0, <1>f, <2>1, <2>2, InvalidateParts DEF BridgeOK
  <2>5. CASE g = f
    BY <2>3, <2>4, <2>5 DEF Unflagged
  <2>6. CASE g # f
    BY <1>f, <2>1, <2>4, <2>6, SameFresh
  <2> QED
    BY <2>5, <2>6
<1>7. ASSUME NEW b \in Builds, Diagnosed(b) \/ ProvideCandidates(b) \/ ForgeReads(b) PROVE FreshIsOneText'
  <2>1. UNCHANGED <<disk, document, notice, bridge, raced>>
    BY <1>7 DEF Diagnosed, ProvideCandidates, ForgeReads, world
  <2> QED
    BY <1>k, <1>f, <2>1, SameFresh
<1>8. ASSUME NEW b \in Builds, NEW s \in BOOLEAN, NEW c \in SUBSET Files, BuildEnds(b, s, c) PROVE FreshIsOneText'
  <2> USE <1>8 DEF BuildEnds, world
  <2>1. CASE s
    <3> DEFINE read == build[b].read
    <3>1. read \in MaybeTexts
      BY <1>0 DEF BuildOK, BuildStates
    <3>2. /\ bridge'.cachedAst = [f \in Files |-> IF f \in c THEN read[f] ELSE None]
          /\ bridge'.sourceTexts = [f \in Files |-> None]
      BY <2>1 DEF ExtractAsts
    <3>3. ASSUME NEW g \in Cached(bridge'), g \notin raced' PROVE OneText(g)'
      <4>1. g \in Files /\ g \in c /\ bridge'.cachedAst[g] = read[g]
        BY <3>2 DEF Cached
      <4>2. read[g] = disk[g] /\ document[g] \in {None, disk[g]}
        BY <2>1, <3>3, <4>1
      <4> QED
        BY <3>2, <4>1, <4>2 DEF OneText
    <3> QED
      BY <3>3 DEF FreshIsOneText, Unflagged
  <2>2. CASE ~s
    BY <1>k, <1>f, <2>2, SameFresh
  <2> QED
    BY <2>1, <2>2
<1>9. ASSUME UNCHANGED vars PROVE FreshIsOneText'
  BY <1>k, <1>f, <1>9, SameFresh DEF vars
<1> QED
  BY <1>1, <1>2, <1>3, <1>4, <1>5, <1>6, <1>7, <1>8, <1>9 DEF Next

-----------------------------------------------------------------------------
LEMMA MinOfTwo == ASSUME NEW m \in Nat, NEW n \in Nat, m <= n PROVE Min({m, n}) = m
<1>1. \A x \in {m, n} : m <= x
  OBVIOUS
<1>2. \A x \in {m, n} : x <= m => x = m
  OBVIOUS
<1> QED
  BY <1>1, <1>2 DEF Min

(* Converting the offset of a character to bytes and back returns it, and  *)
(* the byte lies in that character and no other.                           *)
LEMMA OffsetFacts ==
  ASSUME NEW t \in Texts, NEW n \in 0 .. Len(t) - 1
  PROVE  /\ t # None /\ Len(t) \in Nat /\ DOMAIN t = 1 .. Len(t)
         /\ ToSolc(t, n) = BytesBefore(t, n)
         /\ ToDocument(t, BytesBefore(t, n)) = n
         /\ \A i \in 1 .. Len(t) :
              BytesBefore(t, i - 1) <= BytesBefore(t, n) /\ BytesBefore(t, n) < BytesBefore(t, i) <=> i = n + 1
<1>1. t \in Seq(Tokens) /\ t # None /\ Len(t) \in Nat /\ DOMAIN t = 1 .. Len(t)
  BY TextAssumption DEF None
<1>2. /\ \A m \in 0 .. Len(t) : BytesBefore(t, m) \in Nat
      /\ \A m, k \in 0 .. Len(t) : m < k => BytesBefore(t, m) < BytesBefore(t, k)
  BY <1>1, TextAssumption DEF BytesBefore
<1>3. ToSolc(t, n) = BytesBefore(t, n)
  <2>1. n \in Nat /\ n <= Len(t)
    BY <1>1
  <2>2. Min({n, Len(t)}) = n
    BY <1>1, <2>1, MinOfTwo
  <2> QED
    BY <1>1, <2>2 DEF ToSolc
<1>4. ToDocument(t, BytesBefore(t, n)) = n
  <2> DEFINE S == {m \in 0 .. Len(t) : BytesBefore(t, m) <= BytesBefore(t, n)}
  <2>1. n \in S /\ \A m \in S : m <= n
    <3>1. n \in 0 .. Len(t)
      BY <1>1
    <3>2. \A m \in 0 .. Len(t) : n < m => ~(BytesBefore(t, m) <= BytesBefore(t, n))
      BY <1>1, <1>2, <3>1
    <3>3. BytesBefore(t, n) <= BytesBefore(t, n)
      BY <1>2, <3>1
    <3> QED
      BY <1>1, <3>1, <3>2, <3>3
  <2>2. \A m \in S : (\A k \in S : m >= k) => m = n
    BY <1>1, <2>1
  <2>3. Max(S) = n
    <3> HIDE DEF S
    <3>1. \A k \in S : n >= k
      BY <2>1
    <3> QED
      BY <2>1, <2>2, <3>1 DEF Max
  <2> QED
    BY <1>1, <2>3 DEF ToDocument
<1>5. \A i \in 1 .. Len(t) :
        BytesBefore(t, i - 1) <= BytesBefore(t, n) /\ BytesBefore(t, n) < BytesBefore(t, i) <=> i = n + 1
  <2> TAKE i \in 1 .. Len(t)
  <2>1. i - 1 \in 0 .. Len(t) /\ i \in 0 .. Len(t) /\ n \in 0 .. Len(t) /\ n + 1 - 1 = n
    BY <1>1
  <2>2. CASE i = n + 1
    BY <1>2, <2>1, <2>2
  <2>3. CASE i < n + 1
    <3>1. i = n \/ i < n
      BY <1>1, <2>3
    <3> QED
      BY <1>2, <2>1, <2>3, <3>1
  <2>4. CASE n + 1 < i
    <3>1. n < i - 1
      BY <1>1, <2>4
    <3> QED
      BY <1>2, <2>1, <2>4, <3>1
  <2> QED
    BY <1>1, <2>1, <2>2, <2>3, <2>4
<1> QED
  BY <1>1, <1>3, <1>4, <1>5

(* When tree, source text and document are one text, the local references  *)
(* are the occurrences of the name, and so are the edits.                  *)
LEMMA RenameIsExact ==
  ASSUME NEW f \in Files, NEW t \in Texts,
         bridge.cachedAst[f] = t, SourceText(bridge, f) = t, document[f] = t,
         NEW offset \in Renamable(f)
  PROVE  RenameEdits(f, offset) = Occurrences(f, offset)
<1>1. t # None /\ t \in Seq(Tokens) /\ Len(t) \in Nat /\ DOMAIN t = 1 .. Len(t)
  BY TextAssumption DEF None
<1>2. offset \in 0 .. Len(t) - 1 /\ t[offset + 1] \in Names
  BY <1>1 DEF Renamable, Identifiers
<1>3. NodesAt(t, ToSolc(t, offset)) = {offset + 1}
  <2>1. \A i \in 1 .. Len(t) :
          BytesBefore(t, i - 1) <= ToSolc(t, offset) /\ ToSolc(t, offset) < BytesBefore(t, i) <=> i = offset + 1
    BY <1>2, OffsetFacts
  <2>2. offset + 1 \in 1 .. Len(t)
    BY <1>1, <1>2
  <2> QED
    BY <1>1, <1>2, <2>1, <2>2 DEF NodesAt, Identifiers
<1> DEFINE same == {j \in 1 .. Len(t) : t[j] = t[offset + 1]}
<1>4. FindLocalReferences(f, offset) = {ToDocument(t, BytesBefore(t, j - 1)) : j \in same}
  <2>1. UNION {{j \in Identifiers(t) : t[j] = t[i]} : i \in {offset + 1}} = same
    BY <1>1, <1>2 DEF Identifiers
  <2> QED
    BY <1>3, <2>1 DEF FindLocalReferences
<1>5. \A j \in 1 .. Len(t) : ToDocument(t, BytesBefore(t, j - 1)) = j - 1
  <2> TAKE j \in 1 .. Len(t)
  <2>1. j - 1 \in 0 .. Len(t) - 1
    BY <1>1
  <2> QED
    BY <2>1, OffsetFacts
<1>6. FindLocalReferences(f, offset) = {j - 1 : j \in same}
  BY <1>4, <1>5
<1>7. {j - 1 : j \in same} = Occurrences(f, offset)
  <2>1. \A p \in 0 .. Len(t) - 1 : p + 1 \in 1 .. Len(t) /\ p = (p + 1) - 1
    BY <1>1
  <2>2. \A j \in 1 .. Len(t) : j - 1 \in 0 .. Len(t) - 1 /\ (j - 1) + 1 = j
    BY <1>1
  <2> QED
    BY <2>1, <2>2 DEF Occurrences
<1>8. \A p \in Occurrences(f, offset) : p + 1 \in DOMAIN document[f] /\ document[f][p + 1] \in Names
  BY <1>1, <1>2 DEF Occurrences
<1> QED
  BY <1>6, <1>7, <1>8 DEF RenameEdits

LEMMA FreshInit == Init => FreshIsOneText
BY DEF Init, Cold, Cached, FreshIsOneText

(* While the status calls a tree fresh, its text, the text its offsets are *)
(* converted with and the open document are one, so that a rename          *)
(* overwrites every occurrence of the name and nothing else: about         *)
(* invalidateFile(), getCacheStatus(), extractAsts(), the offsets'         *)
(* conversions and provideLocalRename().                                   *)
THEOREM RenameIsExactWhenFresh == Spec => []RenameExactWhenFresh
<1>1. TypeOK /\ FreshIsOneText => RenameExactWhenFresh
  <2> SUFFICES ASSUME TypeOK, FreshIsOneText,
                      NEW f \in Cached(bridge) \ (StaleFiles(bridge) \cup raced \cup notice),
                      NEW offset \in Renamable(f)
               PROVE  RenameEdits(f, offset) = Occurrences(f, offset)
    BY DEF RenameExactWhenFresh
  <2>1. f \in Files /\ bridge.cachedAst[f] # None
    BY DEF Cached
  <2>2. OneText(f)
    BY DEF FreshIsOneText, Unflagged, StaleFiles
  <2>3. document[f] # None
    BY DEF Renamable
  <2> DEFINE t == document[f]
  <2>4. t \in Texts /\ bridge.cachedAst[f] = t /\ SourceText(bridge, f) = t
    BY <2>1, <2>2, <2>3 DEF OneText, SourceText, TypeOK, MaybeTexts
  <2> QED
    BY <2>1, <2>4, RenameIsExact
<1>2. FreshIsOneText /\ TypeOK /\ [Next]_vars => FreshIsOneText'
  BY FreshStep
<1> QED
  BY FreshInit, TypeCorrect, <1>1, <1>2, PTL DEF Spec
=============================================================================
