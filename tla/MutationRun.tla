---------------------------- MODULE MutationRun ----------------------------
(***************************************************************************)
(* A mutation-testing campaign of the extension: run the tests once as     *)
(* they are, collect candidates, then run the tests on one mutant at a     *)
(* time in a copy of the project.  The built-in engine finds ranges in the *)
(* files and mutates one copy of the project again and again, undoing each *)
(* mutation; gambit writes mutated files, each of which is laid over a     *)
(* copy of its own.  The user saves files meanwhile, and may cancel.       *)
(*                                                                         *)
(* Texts of a file are numbered as they are saved.                         *)
(***************************************************************************)
EXTENDS Naturals, Sequences, FiniteSets

CONSTANTS Sources,        \* files that have candidates
          MaxSaves,       \* bound on the saves of a file
          MaxCandidates   \* mutation.maxMutants

VARIABLES
  step,        \* "idle", "baseline", "collect", "prepare", "loop", "run" or "done"
  engine,      \* "builtin" or "gambit"
  disk,        \* file -> its text in the workspace
  candidates,  \* <<[file, base]>>: base is the text the range was found in
  sandbox,     \* file -> [text, mutants]: the text of its copy, candidates applied
  running,     \* number of the candidate that runs, or ran last
  results,     \* a status for each candidate that ran
  summary,     \* this.lastSummary, <<>> when no campaign set it
  dirs,        \* temporary directories
  cancelling,  \* the user cancelled
  moved        \* history: a range was found in a text that is not the copied one

vars == <<step, engine, disk, candidates, sandbox, running, results, summary, dirs,
          cancelling, moved>>

Texts == 1..MaxSaves + 1

\* copyForgeProject: the files as they are on disk.
Copy == [f \in Sources |-> [text |-> disk[f], mutants |-> {}]]

NoCopy == [f \in Sources |-> [text |-> 0, mutants |-> {}]]
-----------------------------------------------------------------------------
(* The user saves a file.  It moves what the built-in engine is to mutate if
   the ranges are found and the copy is not made. *)
SaveFile(f) ==
  /\ disk[f] <= MaxSaves /\ step # "done"
  /\ disk' = [disk EXCEPT ![f] = @ + 1]
  /\ moved' = (moved \/ (step = "prepare" /\ engine = "builtin"))
  /\ UNCHANGED <<step, engine, candidates, sandbox, running, results, summary, dirs, cancelling>>

Run ==
  /\ step = "idle"
  /\ step' = "baseline"
  /\ engine' \in {"builtin", "gambit"}
  /\ UNCHANGED <<disk, candidates, sandbox, running, results, summary, dirs, cancelling, moved>>

(* runBaselineTests: failing tests, an error or a timeout end the campaign.
   gambit's directories are made and its copy of the project is taken. *)
Baseline ==
  /\ step = "baseline"
  /\ \/ step' = "done" /\ UNCHANGED <<dirs, sandbox>>
     \/ /\ step' = "collect"
        /\ dirs' = IF engine = "gambit" THEN {"source", "mutants"} ELSE {}
        /\ sandbox' = IF engine = "gambit" THEN Copy ELSE NoCopy
  /\ UNCHANGED <<engine, disk, candidates, running, results, summary, cancelling, moved>>

Lists(base) ==
  UNION {[1..n -> {[file |-> f, base |-> base[f]] : f \in Sources}] : n \in 1..MaxCandidates}

(* Mutant of ReadText: a file is read once for all campaigns. *)
ReadOnce == [f \in Sources |-> 1]

\* readFile: the text the lexical candidates are found in.
ReadText == disk

(* collectMutationCandidates.  The server's candidates are found in its trees,
   of the last build; without a server or trees, in the files. *)
CollectBuiltin ==
  /\ step = "collect" /\ engine = "builtin"
  /\ \/ step' = "done" /\ UNCHANGED <<candidates, moved>>      \* none found
     \/ /\ step' = "prepare"
        /\ \/ candidates' \in Lists(ReadText) /\ UNCHANGED moved
           \/ \E base \in [Sources -> Texts] :
                /\ \A f \in Sources : base[f] <= disk[f]
                /\ candidates' \in Lists(base)
                /\ moved' = (moved \/ base # disk)
  /\ UNCHANGED <<engine, disk, sandbox, running, results, summary, dirs, cancelling>>

OnGambitError == dirs \ {"source", "mutants"}

(* collectGambitMutationCandidates: the mutants are of the copied texts; they
   stay on disk for the runs, unless there is none or gambit fails. *)
CollectGambit ==
  /\ step = "collect" /\ engine = "gambit"
  /\ sandbox' = NoCopy
  /\ \/ step' = "done" /\ dirs' = OnGambitError /\ UNCHANGED candidates
     \/ /\ step' = "loop" /\ dirs' = dirs \ {"source"}
        /\ candidates' \in Lists([f \in Sources |-> sandbox[f].text])
  /\ UNCHANGED <<engine, disk, running, results, summary, cancelling, moved>>

(* createReusableMutationSandbox: when its build fails the campaign throws. *)
Prepare ==
  /\ step = "prepare"
  /\ \/ step' = "loop" /\ sandbox' = Copy /\ dirs' = {"sandbox"}
     \/ step' = "done" /\ UNCHANGED <<sandbox, dirs>>
  /\ UNCHANGED <<engine, disk, candidates, running, results, summary, cancelling, moved>>
-----------------------------------------------------------------------------
(* runCandidate, up to forge.  A mutant of gambit's is laid over a new copy, in
   the text it was made from. *)
StartCandidate ==
  /\ step = "loop" /\ ~cancelling /\ running < Len(candidates)
  /\ LET c    == candidates[running + 1]
         base == IF engine = "gambit" THEN Copy ELSE sandbox
         text == IF engine = "gambit" THEN c.base ELSE base[c.file].text
     IN  sandbox' = [base EXCEPT ![c.file] = [text |-> text, mutants |-> @.mutants \cup {running + 1}]]
  /\ dirs' = IF engine = "gambit" THEN dirs \cup {"own"} ELSE dirs
  /\ running' = running + 1
  /\ step' = "run"
  /\ UNCHANGED <<engine, disk, candidates, results, summary, cancelling, moved>>

\* The finally of runCandidate writes the file's text back.
Restored(c) == [sandbox EXCEPT ![c.file].mutants = {}]

(* runCandidate, after forge: killed, survived, out of time or in error. *)
CandidateEnds ==
  /\ step = "run"
  /\ \E status \in {"killed", "survived", "timeout", "error"} : results' = Append(results, status)
  /\ IF engine = "gambit" THEN sandbox' = NoCopy /\ dirs' = dirs \ {"own"}
                          ELSE sandbox' = Restored(candidates[running]) /\ UNCHANGED dirs
  /\ step' = "loop"
  /\ UNCHANGED <<engine, disk, candidates, running, summary, cancelling, moved>>

(* The loop ends: all candidates ran, or the user cancelled.  What was run so
   far becomes the summary, and a report opens. *)
Finish ==
  /\ step = "loop" /\ (cancelling \/ running = Len(candidates))
  /\ step' = "done"
  /\ sandbox' = NoCopy /\ dirs' = {}
  /\ summary' = results
  /\ UNCHANGED <<engine, disk, candidates, running, results, cancelling, moved>>

(* The progress notification's Cancel: it is asked about between candidates. *)
CancelRun ==
  /\ step \in {"prepare", "loop", "run"} /\ ~cancelling
  /\ cancelling' = TRUE
  /\ UNCHANGED <<step, engine, disk, candidates, sandbox, running, results, summary, dirs, moved>>
-----------------------------------------------------------------------------
Init ==
  /\ step = "idle" /\ engine = "builtin" /\ disk = [f \in Sources |-> 1]
  /\ candidates = <<>> /\ sandbox = NoCopy /\ running = 0 /\ results = <<>> /\ summary = <<>>
  /\ dirs = {} /\ cancelling = FALSE /\ moved = FALSE

Next ==
  \/ \E f \in Sources : SaveFile(f)
  \/ Run \/ Baseline \/ CollectBuiltin \/ CollectGambit \/ Prepare
  \/ StartCandidate \/ CandidateEnds \/ Finish \/ CancelRun

Spec == Init /\ [][Next]_vars
-----------------------------------------------------------------------------
TypeOK ==
  /\ disk \in [Sources -> Texts]
  /\ sandbox \in [Sources -> [text : {0} \cup Texts, mutants : SUBSET (1..MaxCandidates)]]
  /\ running \in 0..Len(candidates) /\ dirs \subseteq {"source", "mutants", "sandbox", "own"}

(* forge runs on exactly one mutant: the candidate's file is mutated once, by
   the candidate, and no other file is, although the copy is reused. *)
OneMutation ==
  step = "run" =>
    \A f \in Sources : sandbox[f].mutants = IF f = candidates[running].file THEN {running} ELSE {}

(* The mutation is made in the text its range was found in, unless the tree it
   was found in was older than the file, or the file was saved before it was
   copied: nothing compares the range's text with the file's. *)
InPlace ==
  step = "run" /\ ~moved => sandbox[candidates[running].file].text = candidates[running].base

(* However the campaign ends, no temporary directory is left, and every result
   of its summary is that of the candidate at the same place. *)
NothingLeft ==
  step = "done" => /\ dirs = {}
                   /\ Len(results) = running
                   /\ summary \in {<<>>, results}

(* A candidate is tried alone, where it was found, and a campaign leaves no
   directory behind, but for the exceptions above.
   About runCandidate, collectGambitMutationCandidates and run. *)
MutantsAreApart == OneMutation /\ InPlace /\ NothingLeft
=============================================================================
