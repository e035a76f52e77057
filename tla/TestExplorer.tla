---------------------------- MODULE TestExplorer ----------------------------
(***************************************************************************)
(* The test explorer of the extension.  It keeps a tree of the test        *)
(* contracts and tests the language server lists, rediscovered 400 ms      *)
(* after a .sol file changed, and runs `forge test --json` for the items   *)
(* the user picks.  Forge is told which tests to run by regular            *)
(* expressions that are plain names, so that it also runs every test whose *)
(* name contains the name; the report is matched back to the items.        *)
(*                                                                         *)
(* One test file; an item is <<contract>> or <<contract, test>>.           *)
(***************************************************************************)
EXTENDS Naturals, Sequences, SequencesExt, FiniteSets

CONSTANTS TestContracts,  \* contracts of the file
          TestNames,      \* test functions
          Containing,     \* pairs <<x, y>> of names where y contains x, x # y
          Contents,       \* sets of tests the file may hold
          MaxEdits        \* bound on the changes of the file

Tests == TestContracts \X TestNames
Items == Tests \cup {<<c>> : c \in TestContracts}

VARIABLES
  file,        \* the tests in the file
  parsed,      \* the tests in the server's tree of the file
  reparse,     \* the server has still to read the file
  client,      \* setLanguageClient was called, the server runs
  debounce,    \* this.discoverDebounce is armed
  asked,       \* listTests requests awaiting their answers
  answers,     \* answers on their way, oldest first
  tree,        \* this.testItems
  unlisted,    \* history: the last answer the tree was made to match was a failure
  late,        \* history: the server read a change after the answer meant to show it
  edits,
  queue,       \* the items the run has still to start
  current,     \* the item forge runs for, <<>> for none
  cancelled,   \* the run's cancellation was requested
  verdict,     \* item -> "none", "started", "passed", "failed", "skipped" or "broken"
  truth        \* test -> whether it passes (one outcome per run)

discoverVars == <<file, parsed, reparse, client, debounce, asked, answers, tree, unlisted, late, edits>>
runVars == <<queue, current, cancelled, verdict, truth>>
vars == <<file, parsed, reparse, client, debounce, asked, answers, tree, unlisted, late, edits,
          queue, current, cancelled, verdict, truth>>

ItemsOf(tests) == tests \cup {<<t[1]>> : t \in tests}
-----------------------------------------------------------------------------
(* The file changes: the extension's watcher arms its timer again, and the
   server is told and will read the file. *)
FileChanges ==
  /\ edits < MaxEdits
  /\ edits' = edits + 1
  /\ file' \in Contents \ {file}
  /\ debounce' = TRUE /\ reparse' = TRUE
  /\ UNCHANGED <<parsed, client, asked, answers, tree, unlisted, late, runVars>>

ServerParses ==
  /\ reparse
  /\ reparse' = FALSE
  /\ parsed' = file
  /\ late' = (late \/ (parsed # file /\ ~debounce /\ asked = 0))
  /\ UNCHANGED <<file, client, debounce, asked, answers, tree, unlisted, edits, runVars>>

\* discoverAllTests, up to its request; nothing happens before there is a client.
Discover == asked' = IF client THEN asked + 1 ELSE asked

(* The debounce timer fires. *)
DebounceFires ==
  /\ debounce
  /\ debounce' = FALSE
  /\ Discover
  /\ UNCHANGED <<file, parsed, reparse, client, answers, tree, unlisted, late, edits, runVars>>

(* The server is up: the initial discovery. *)
SetLanguageClient ==
  /\ ~client
  /\ client' = TRUE
  /\ asked' = asked + 1
  /\ UNCHANGED <<file, parsed, reparse, debounce, answers, tree, unlisted, late, edits, runVars>>

(* listTests: the tests of the tree the parser holds. *)
ListTests ==
  /\ asked > 0
  /\ asked' = asked - 1
  /\ answers' = Append(answers, [listed |-> TRUE, tests |-> parsed])
  /\ UNCHANGED <<file, parsed, reparse, client, debounce, tree, unlisted, late, edits, runVars>>

(* The request is rejected (the server fails or goes away): what is caught is
   only logged, and no test is listed. *)
ListTestsFails ==
  /\ asked > 0
  /\ asked' = asked - 1
  /\ answers' = Append(answers, [listed |-> FALSE, tests |-> {}])
  /\ UNCHANGED <<file, parsed, reparse, client, debounce, tree, unlisted, late, edits, runVars>>

\* Items are added and removed to match the listed tests.
Diff(old, listed) == ItemsOf(listed)

(* discoverAllTests, after its answer; after a failure too, when every item is
   one that was not listed. *)
Discovered ==
  /\ answers # <<>>
  /\ answers' = Tail(answers)
  /\ tree' = Diff(tree, Head(answers).tests)
  /\ unlisted' = ~Head(answers).listed
  /\ UNCHANGED <<file, parsed, reparse, client, debounce, asked, late, edits, runVars>>
-----------------------------------------------------------------------------
(* runTests: the items picked, in some order. *)
RunTests ==
  /\ queue = <<>> /\ current = <<>>
  /\ \E S \in SUBSET tree : Cardinality(S) \in {1, 2} /\ queue' \in SetToSeqs(S)
  /\ verdict' = [i \in Items |-> "none"]
  /\ cancelled' = FALSE
  /\ \E failing \in Tests : truth' \in {[t \in Tests |-> t # failing], [t \in Tests |-> t = failing]}
  /\ UNCHANGED <<current, discoverVars>>

Cancel ==
  /\ ~cancelled /\ (queue # <<>> \/ current # <<>>)
  /\ cancelled' = TRUE
  /\ UNCHANGED <<queue, current, verdict, truth, discoverVars>>

(* The next item starts; a cancelled run drops those that have not. *)
StartItem ==
  /\ queue # <<>> /\ current = <<>>
  /\ \/ /\ ~cancelled
        /\ current' = Head(queue) /\ queue' = Tail(queue)
        /\ verdict' = [verdict EXCEPT ![Head(queue)] = "started"]
     \/ cancelled /\ queue' = <<>> /\ UNCHANGED <<current, verdict>>
  /\ UNCHANGED <<cancelled, truth, discoverVars>>

NameMatches(y, x) == x = y \/ <<x, y>> \in Containing

(* Mutant of Selected: --match-test is left out. *)
SelectedByContract(item) == {t \in file : NameMatches(t[1], item[1])}

\* The tests --match-contract and --match-test select for an item.
Selected(item) ==
  {t \in file : /\ NameMatches(t[1], item[1])
                /\ Len(item) = 2 => NameMatches(t[2], item[2])}

\* findChildByName: a contract's child of that name, else the item itself.
ReportedOn(item, t) ==
  IF Len(item) = 1 /\ <<item[1], t[2]>> \in tree THEN <<item[1], t[2]>> ELSE item

Outcome(t) == IF truth[t] THEN "passed" ELSE "failed"

(* reportSuiteResults, for the tests of one suite in the order of the report:
   the last result on an item stands. *)
Report(item, results) ==
  LET lastOn(i) == {k \in DOMAIN results :
                      /\ ReportedOn(item, results[k]) = i
                      /\ \A j \in k + 1..Len(results) : ReportedOn(item, results[j]) # i}
  IN  [i \in Items |-> IF lastOn(i) = {} THEN verdict[i]
                       ELSE Outcome(results[CHOOSE k \in lastOn(i) : TRUE])]

(* Mutant of NothingReported: the item is left as it is. *)
LeftStarted(item) == verdict

\* The report holds no result: the item is skipped.
NothingReported(item) == [verdict EXCEPT ![item] = "skipped"]

(* forge ends.  Without a report (no build, no forge, no output, a timeout) the
   item fails.  Of the report only the first suite with a result is read: once
   something is reported, ||= does not call reportSuiteResults again. *)
ForgeEnds ==
  /\ current # <<>>
  /\ current' = <<>>
  /\ \/ verdict' = [verdict EXCEPT ![current] = "broken"]
     \/ IF Selected(current) = {}
          THEN verdict' = NothingReported(current)
          ELSE \E c \in {t[1] : t \in Selected(current)} :
                 \E results \in SetToSeqs({t \in Selected(current) : t[1] = c}) :
                   verdict' = Report(current, results)
  /\ UNCHANGED <<queue, cancelled, truth, discoverVars>>
-----------------------------------------------------------------------------
Init ==
  /\ file \in Contents /\ parsed = file /\ reparse = FALSE
  /\ client = FALSE /\ debounce = FALSE /\ asked = 0 /\ answers = <<>> /\ tree = {}
  /\ unlisted = FALSE /\ late = FALSE /\ edits = 0
  /\ queue = <<>> /\ current = <<>> /\ cancelled = FALSE
  /\ verdict = [i \in Items |-> "none"]
  /\ truth = [t \in Tests |-> TRUE]

Next ==
  \/ FileChanges \/ ServerParses \/ DebounceFires \/ SetLanguageClient
  \/ ListTests \/ ListTestsFails \/ Discovered
  \/ RunTests \/ Cancel \/ StartItem \/ ForgeEnds

Spec == Init /\ [][Next]_vars
-----------------------------------------------------------------------------
TypeOK ==
  /\ file \cup parsed \subseteq Tests /\ tree \subseteq Items
  /\ asked \in 0..(MaxEdits + 1) /\ Range(queue) \subseteq Items
  /\ verdict \in [Items -> {"none", "started", "passed", "failed", "skipped", "broken"}]

(* When no discovery is pending or under way and the server has read the file,
   the tree shows the tests of the file, unless the server read a change only
   after the discovery it caused.  It shows none when the last listing failed:
   that empties the tree until the next change of a file. *)
TreeIsCurrent ==
  client /\ ~debounce /\ ~reparse /\ asked = 0 /\ answers = <<>> /\ ~late =>
    tree = IF unlisted THEN {} ELSE ItemsOf(file)

(* Once forge has ended, the item it was run for, or one of its tests, is no
   longer shown as running. *)
StartedIsReported ==
  \A i \in Items \ {current} :
    verdict[i] = "started" => \E t \in Tests : Len(i) = 1 /\ t[1] = i[1] /\ verdict[t] # "none"

\* No other name of the file contains the item's names.
Alone(i) ==
  \A t \in file : /\ NameMatches(t[1], i[1]) => t[1] = i[1]
                  /\ Len(i) = 2 /\ t[1] = i[1] /\ NameMatches(t[2], i[2]) => t[2] = i[2]

(* A report shows a test as passed or failed as it passed or failed, provided
   no other contract's name contains its contract's and no other test's its
   own. *)
VerdictIsItsOwn ==
  [][\A t \in file : /\ Alone(t) /\ verdict'[t] # verdict[t]
                     /\ verdict'[t] \in {"passed", "failed"}
                     => verdict'[t] = Outcome(t)]_vars

(* The tree has the tests of the text at rest, and what a run reported as
   started is reported as ended, but for the exceptions above.
   About discoverAllTests and runTests. *)
TestsAreReported == TreeIsCurrent /\ StartedIsReported
=============================================================================
