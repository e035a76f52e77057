---------------------------- MODULE Diagnostics ----------------------------
(***************************************************************************)
(* The diagnostics of the language server.  Every change of a document     *)
(* arms its lint, 300 ms later; every save runs `forge build --json`.      *)
(* Both publish, for a file, a list that replaces what the editor shows of *)
(* it, so that the two hide each other: a build without errors hides the   *)
(* findings of the lint until the next edit.                               *)
(*                                                                         *)
(* Texts are numbered as they are typed, builds as they begin.  Which      *)
(* files have errors is forge's business: any set of files.                *)
(***************************************************************************)
EXTENDS Naturals, FiniteSets

CONSTANTS Files,      \* Solidity files
          Known,      \* getAllFileUris: those the last scan of the folders found
          Analysed,   \* files of the project tier, or of none
          MaxTexts,   \* bound on texts
          MaxBuilds   \* bound on builds

Nothing == <<"nothing", 0>>

VARIABLES
  openText,   \* file -> its text in the editor, 0 when it is not open
  texts,      \* number of texts typed
  lintTimer,  \* file -> the text its debounce timer holds, 0 when none is armed
  shown,      \* file -> Nothing, <<"lint", text>> or <<"build", build>>
  begun,      \* number of builds begun
  builds,     \* builds under way
  outlived,   \* history: files closed while their timer was armed
  concurrent  \* history: a build began while another was under way

vars == <<openText, texts, lintTimer, shown, begun, builds, outlived, concurrent>>
-----------------------------------------------------------------------------
\* provideFastDiagnostics: the timer that is armed is cleared.
Armed(f, text) == [lintTimer EXCEPT ![f] = text]

(* onDidChangeContent, which also comes first when a document is opened. *)
Change(f) ==
  /\ texts < MaxTexts
  /\ texts' = texts + 1
  /\ openText' = [openText EXCEPT ![f] = texts + 1]
  /\ lintTimer' = Armed(f, texts + 1)
  /\ UNCHANGED <<shown, begun, builds, outlived, concurrent>>

(* The timer fires, whether or not the document is still open: an empty list
   for the tests and the dependencies. *)
LintFires(f) ==
  /\ lintTimer[f] # 0
  /\ lintTimer' = [lintTimer EXCEPT ![f] = 0]
  /\ shown' = [shown EXCEPT ![f] = IF f \in Analysed THEN <<"lint", lintTimer[f]>> ELSE Nothing]
  /\ UNCHANGED <<openText, texts, begun, builds, outlived, concurrent>>

(* onDidSave, with compileOnSave: nothing holds a second build back. *)
Save(f) ==
  /\ openText[f] # 0 /\ begun < MaxBuilds
  /\ begun' = begun + 1
  /\ builds' = builds \cup {begun + 1}
  /\ concurrent' = (concurrent \/ builds # {})
  /\ UNCHANGED <<openText, texts, lintTimer, shown, outlived>>

(* Mutant of Published: the files without errors keep what they show. *)
ErrorsOnly(b, errors) == [f \in Files |-> IF f \in errors THEN <<"build", b>> ELSE shown[f]]

\* provideFullDiagnostics: known files without errors get an empty list.
Published(b, errors) ==
  [f \in Files |-> IF f \in errors THEN <<"build", b>>
                   ELSE IF f \in Known THEN Nothing ELSE shown[f]]

(* A build ends.  forge missing, killed or out of time reads as no error. *)
BuildEnds(b) ==
  /\ builds' = builds \ {b}
  /\ \E errors \in SUBSET Files : shown' = Published(b, errors)
  /\ UNCHANGED <<openText, texts, lintTimer, begun, outlived, concurrent>>

Cleared(f) == [shown EXCEPT ![f] = Nothing]

(* onDidClose: the timer stays armed. *)
Close(f) ==
  /\ openText[f] # 0
  /\ openText' = [openText EXCEPT ![f] = 0]
  /\ shown' = Cleared(f)
  /\ outlived' = IF lintTimer[f] # 0 THEN outlived \cup {f} ELSE outlived
  /\ UNCHANGED <<texts, lintTimer, begun, builds, concurrent>>

(* onDidChangeWatchedFiles reports the file deleted; open ones are skipped. *)
Deleted(f) ==
  /\ openText[f] = 0 /\ shown[f] # Nothing
  /\ shown' = Cleared(f)
  /\ UNCHANGED <<openText, texts, lintTimer, begun, builds, outlived, concurrent>>
-----------------------------------------------------------------------------
Init ==
  /\ openText = [f \in Files |-> 0] /\ texts = 0
  /\ lintTimer = [f \in Files |-> 0] /\ shown = [f \in Files |-> Nothing]
  /\ begun = 0 /\ builds = {} /\ outlived = {} /\ concurrent = FALSE

Next ==
  \/ \E f \in Files : Change(f) \/ LintFires(f) \/ Save(f) \/ Close(f) \/ Deleted(f)
  \/ \E b \in builds : BuildEnds(b)

Spec == Init /\ [][Next]_vars
-----------------------------------------------------------------------------
TypeOK ==
  /\ openText \in [Files -> 0..texts] /\ lintTimer \in [Files -> 0..texts]
  /\ shown \in [Files -> {Nothing} \cup ({"lint"} \X (1..texts)) \cup ({"build"} \X (1..begun))]
  /\ builds \subseteq 1..begun /\ outlived \subseteq Files

(* With no lint to come, the findings shown of an open document are those of
   the text in the editor, however its edits and the saves interleave, and a
   file that is not open shows none, unless its timer was armed when it was
   closed. *)
LintIsCurrent ==
  \A f \in Files : shown[f][1] = "lint" =>
    IF openText[f] = 0 THEN f \in outlived
    ELSE lintTimer[f] = 0 => shown[f][2] = openText[f]

(* With no build under way, the errors shown of the known files are those of
   the last build, provided no two builds ran at once: then the one that ends
   last is shown, which may be the older. *)
ErrorsOfLastBuild ==
  builds = {} /\ ~concurrent =>
    \A f \in Known : shown[f][1] = "build" => shown[f][2] = begun

(* The problems shown of a file are those of its last text and its last build,
   but for the exceptions above.
   About provideFastDiagnostics and provideFullDiagnostics, which publish into
   one list. *)
ProblemsAreCurrent == LintIsCurrent /\ ErrorsOfLastBuild
=============================================================================
