------------------------------ MODULE SolcBridge ------------------------------
(***************************************************************************)
(* The cache of compiled syntax trees that SolcBridge keeps for the        *)
(* language features: a save starts forge builds, the last of which fills  *)
(* the cache, while documents are edited and files written under it.  A    *)
(* feature asks with an offset into the document and gets offsets back;    *)
(* rename turns them into edits of the document.                           *)
(*                                                                         *)
(* A text is a sequence of tokens, each one character wide in a document;  *)
(* to the compiler the first n of them are ByteLength[text][n] bytes       *)
(* (Node's Buffer.byteLength).  Tokens in Names are identifiers, local to  *)
(* their file.  The empty text is a file that does not exist and a         *)
(* document that is not open.                                              *)
(***************************************************************************)
EXTENDS Naturals, Sequences, FiniteSets, FiniteSetsExt

CONSTANTS Files, Tokens, Names, Texts, ByteLength, Builds,
          MaxChanges  \* edits, writes and saves explored

ASSUME TextAssumption ==
  /\ Names \subseteq Tokens
  /\ Texts \subseteq Seq(Tokens) \ {<<>>}
  /\ \A t \in Texts :
       /\ ByteLength[t] \in [0 .. Len(t) -> Nat] /\ ByteLength[t][0] = 0
       /\ \A m, n \in 0 .. Len(t) : m < n => ByteLength[t][m] < ByteLength[t][n]
  /\ MaxChanges \in Nat

None == <<>>

VARIABLES disk, document,
          notice,   \* files the watcher has yet to report
          bridge,   \* the fields of SolcBridge
          build,    \* the forge builds under way
          raced,    \* history: files that had changed when their tree came in
          changes

vars == <<disk, document, notice, bridge, build, raced, changes>>
world == <<disk, document, notice, changes>>

Cold == [cachedAst |-> [f \in Files |-> None], sourceFingerprints |-> [f \in Files |-> None],
         sourceTexts |-> [f \in Files |-> None], dirtyFiles |-> {}]
Free == [at |-> "free", read |-> [f \in Files |-> None]]
Cached(B) == {f \in Files : B.cachedAst[f] # None}

(* Mutant of InvalidateFile: files without a tree are remembered, too. *)
InvalidateAny(B, f) == [B EXCEPT !.sourceTexts[f] = None, !.dirtyFiles = @ \cup {f}]

InvalidateFile(B, f) ==
  [B EXCEPT !.sourceTexts[f] = None, !.dirtyFiles = @ \cup ({f} \cap Cached(B))]

(* Mutant of StaleFiles: only the files on disk are compared. *)
StaleOnDisk(B) == {f \in Cached(B) : disk[f] # B.sourceFingerprints[f]}

StaleFiles(B) == {f \in Cached(B) : f \in B.dirtyFiles \/ disk[f] # B.sourceFingerprints[f]}

(* Mutant of ExtractAsts: the new trees are added to the old ones. *)
AddAstsOnly(B, read, compiled) ==
  [B EXCEPT !.cachedAst = [f \in Files |-> IF f \in compiled THEN read[f] ELSE @[f]],
            !.sourceFingerprints = [f \in Files |-> IF f \in compiled THEN disk[f] ELSE @[f]],
            !.dirtyFiles = @ \ compiled]

(* The trees are those of the texts that were read; the fingerprints are   *)
(* of the files as they are now.                                           *)
ExtractAsts(B, read, compiled) ==
  [cachedAst |-> [f \in Files |-> IF f \in compiled THEN read[f] ELSE None],
   sourceFingerprints |-> [f \in Files |-> IF f \in compiled THEN disk[f] ELSE None],
   sourceTexts |-> [f \in Files |-> None],
   dirtyFiles |-> {}]

(* sourceText(): the file is read once, and kept until it is invalidated. *)
SourceText(B, f) == IF B.sourceTexts[f] = None THEN disk[f] ELSE B.sourceTexts[f]

(* A range in a text: how many bytes lie before its n-th character, and    *)
(* the character a byte lies in, clamped to the end of the text.  Without  *)
(* a text the offsets are returned as they are.                            *)
BytesBefore(t, n) == ByteLength[t][n]
ToSolc(t, offset) == IF t = None THEN offset ELSE BytesBefore(t, Min({offset, Len(t)}))
ToDocument(t, byte) == IF t = None THEN byte
                       ELSE Max({n \in 0 .. Len(t) : BytesBefore(t, n) <= byte})

Identifiers(t) == {i \in DOMAIN t : t[i] \in Names}

(* The identifiers of tree t at a byte offset: one or none. *)
NodesAt(t, byte) ==
  {i \in Identifiers(t) : BytesBefore(t, i - 1) <= byte /\ byte < BytesBefore(t, i)}

(* findLocalReferences(): the document offsets of the declaration and of   *)
(* the references that the tree has for the identifier at an offset.  The  *)
(* first occurrence of a name declares it.                                 *)
FindLocalReferences(f, offset) ==
  LET t == bridge.cachedAst[f]
      src == SourceText(bridge, f)
      same == UNION {{j \in Identifiers(t) : t[j] = t[i]} : i \in NodesAt(t, ToSolc(src, offset))}
  IN  {ToDocument(src, BytesBefore(t, j - 1)) : j \in same}

(* provideLocalRename(): the offsets of the document that are overwritten  *)
(* with the new name.  The declaration is overwritten only where the       *)
(* document has an identifier, the references wherever they point.         *)
RenameEdits(f, offset) ==
  LET found == FindLocalReferences(f, offset)
      declaration == {p \in found : \A q \in found : p <= q}
  IN  (found \ declaration)
      \cup {p \in declaration : p + 1 \in DOMAIN document[f] /\ document[f][p + 1] \in Names}
-----------------------------------------------------------------------------
May == changes < MaxChanges /\ changes' = changes + 1

(* A document is opened or edited. *)
OnDidChangeContent(f, t) ==
  /\ May
  /\ t # document[f] /\ disk[f] # None
  /\ document[f] = None => t = disk[f]
  /\ document' = [document EXCEPT ![f] = t]
  /\ bridge' = InvalidateFile(bridge, f)
  /\ UNCHANGED <<disk, notice, build, raced>>

(* A document is saved.  If the setting says so, forge is run for the      *)
(* compiler's diagnostics.                                                 *)
OnDidSave(f, b, compileOnSave) ==
  /\ May
  /\ document[f] # None
  /\ disk' = [disk EXCEPT ![f] = document[f]]
  /\ notice' = notice \cup {f}
  /\ IF compileOnSave THEN build[b] = Free /\ build' = [build EXCEPT ![b].at = "diagnosing"]
     ELSE UNCHANGED build
  /\ UNCHANGED <<document, bridge, raced>>

(* A document is closed; what was not saved is dropped. *)
OnDidClose(f) ==
  /\ document[f] # None
  /\ document' = [document EXCEPT ![f] = None]
  /\ UNCHANGED <<disk, notice, bridge, build, raced, changes>>

(* Another program writes or deletes a file; open documents stay as they   *)
(* are.                                                                    *)
Write(f, t) ==
  /\ May
  /\ document[f] = None /\ t # disk[f]
  /\ disk' = [disk EXCEPT ![f] = t]
  /\ notice' = notice \cup {f}
  /\ UNCHANGED <<document, bridge, build, raced>>

OnDidChangeWatchedFiles ==
  /\ notice # {}
  /\ \E f \in notice : bridge' = InvalidateFile(bridge, f) /\ notice' = notice \ {f}
  /\ UNCHANGED <<disk, document, build, raced, changes>>

(* The diagnostics are published; the trees are built by a forge run of    *)
(* their own that nobody waits for.                                        *)
Diagnosed(b) ==
  /\ build[b].at = "diagnosing"
  /\ build' = [build EXCEPT ![b].at = "spawned"]
  /\ UNCHANGED <<world, bridge, raced>>

(* A request for mutation candidates builds when it finds a file without   *)
(* a tree.                                                                 *)
ProvideCandidates(b) ==
  /\ build[b] = Free /\ \E f \in Files : disk[f] # None /\ bridge.cachedAst[f] = None
  /\ build' = [build EXCEPT ![b].at = "spawned"]
  /\ UNCHANGED <<world, bridge, raced>>

(* forge reads the sources some time after it was started. *)
ForgeReads(b) ==
  /\ build[b].at = "spawned"
  /\ build' = [build EXCEPT ![b] = [at |-> "ran", read |-> disk]]
  /\ UNCHANGED <<world, bridge, raced>>

(* forge has exited.  Only a build that succeeded touches the cache; it    *)
(* has trees of the files it compiled.                                     *)
BuildEnds(b, success, compiled) ==
  /\ build[b].at = "ran"
  /\ build' = [build EXCEPT ![b] = Free]
  /\ IF success
     THEN /\ compiled \subseteq {f \in Files : build[b].read[f] # None}
          /\ bridge' = ExtractAsts(bridge, build[b].read, compiled)
          /\ raced' = {f \in compiled : build[b].read[f] # disk[f] \/ document[f] \notin {None, disk[f]}}
     ELSE compiled = {} /\ UNCHANGED <<bridge, raced>>
  /\ UNCHANGED world

(* A feature asks for the identifier at some offset: the text is cached. *)
Ask(f) ==
  /\ bridge.cachedAst[f] # None
  /\ bridge' = [bridge EXCEPT !.sourceTexts[f] = SourceText(bridge, f)]
  /\ UNCHANGED <<world, build, raced>>

Init ==
  /\ disk \in [Files -> Texts]
  /\ document = [f \in Files |-> None]
  /\ notice = {} /\ raced = {}
  /\ bridge = Cold
  /\ build = [b \in Builds |-> Free]
  /\ changes = 0

Next ==
  \/ \E f \in Files, t \in Texts : OnDidChangeContent(f, t) \/ Write(f, t)
  \/ \E f \in Files : OnDidClose(f) \/ Write(f, None) \/ Ask(f)
  \/ \E f \in Files, b \in Builds, compileOnSave \in BOOLEAN : OnDidSave(f, b, compileOnSave)
  \/ OnDidChangeWatchedFiles
  \/ \E b \in Builds : Diagnosed(b) \/ ProvideCandidates(b) \/ ForgeReads(b)
  \/ \E b \in Builds, success \in BOOLEAN, compiled \in SUBSET Files : BuildEnds(b, success, compiled)

Spec == Init /\ [][Next]_vars
-----------------------------------------------------------------------------
MaybeTexts == [Files -> Texts \cup {None}]

TypeOK ==
  /\ disk \in MaybeTexts /\ document \in MaybeTexts
  /\ notice \subseteq Files /\ raced \subseteq Files
  /\ bridge \in [cachedAst : MaybeTexts, sourceFingerprints : MaybeTexts,
                 sourceTexts : MaybeTexts, dirtyFiles : SUBSET Files]
  /\ bridge.dirtyFiles \subseteq Cached(bridge)
  /\ build \in [Builds -> [at : {"free", "diagnosing", "spawned", "ran"}, read : MaybeTexts]]
  /\ changes \in 0 .. MaxChanges

Occurrences(f, offset) == {p \in 0 .. Len(document[f]) - 1 : document[f][p + 1] = document[f][offset + 1]}
Renamable(f) == IF document[f] = None THEN {} ELSE {i - 1 : i \in Identifiers(document[f])}

(* While the status calls a tree fresh, a rename overwrites every          *)
(* occurrence of the identifier and nothing else, whatever builds, edits,  *)
(* writes, reports of the watcher and earlier questions came before: the   *)
(* flags, fingerprints and cached texts say together that the tree, the    *)
(* text its offsets are converted with, and the document are one.          *)
(* Excepted are files that changed while they were compiled.               *)
RenameExactWhenFresh ==
  \A f \in Cached(bridge) \ (StaleFiles(bridge) \cup raced \cup notice) :
    \A offset \in Renamable(f) : RenameEdits(f, offset) = Occurrences(f, offset)

(* The trees of the cache are of one build, so that declaration ids, which *)
(* are numbered anew by every build, relate nodes of several files: all    *)
(* texts come from one moment.  A tree left over from an older build has   *)
(* neither a fingerprint of its own build nor a flag.                      *)
OneProgram ==
  [][\A f \in Files : bridge'.cachedAst[f] # bridge.cachedAst[f] =>
        \E b \in Builds : /\ build[b].at = "ran"
                          /\ \A g \in Cached(bridge') : bridge'.cachedAst[g] = build[b].read[g]]_vars

(* A rename overwrites nothing but the identifier it was asked for. *)
RenameHitsTheName ==
  \A f \in Cached(bridge) : \A offset \in Renamable(f) : RenameEdits(f, offset) \subseteq Occurrences(f, offset)
=============================================================================
