---------------------------- MODULE Parts_proofs ----------------------------
(***************************************************************************)
(* Proofs about seven parts of MCParts: the diagnostics, the Anvil         *)
(* manager, mutation testing, the debug adapter, the test explorer, the    *)
(* symbol tables and the Chisel panel.  Each has an inductive invariant    *)
(* over its own variables, for any values of its constants; the theorems   *)
(* are of the parts' common specification, whose steps are steps of one    *)
(* part, and that every one of them keeps its types is proved last.        *)
(*                                                                         *)
(* The adapter's contexts come from a walk over the whole trace, a         *)
(* recursive function.  Nothing is proved about that function by induction *)
(* over its argument: the invariant says that there is exactly one walk of *)
(* the trace so far, so that the induction is that of the behaviour.       *)
(*                                                                         *)
(* The tables of the symbol index are what a rebuild would give, for all   *)
(* files, names and trees.  The invariant says it entry by entry, and adds *)
(* what each file put in: removal relies on it to find the lists.          *)
(*                                                                         *)
(* That a result is shown under its own expression is true while each      *)
(* expression is sent only when the one before it is settled.  The         *)
(* invariant then is that all but the last expression are settled, so that *)
(* whatever a subprocess still prints or has printed is the last one's,    *)
(* and that it alone may be pending.                                       *)
(***************************************************************************)
EXTENDS MCParts, Induction, TLAPS, FiniteSetTheorems, SequenceTheorems, WellFoundedInduction
-----------------------------------------------------------------------------
(***************************************************************************)
(* The diagnostics.                                                        *)
(***************************************************************************)
(* Of a document that is open its timer holds the last text; a timer that  *)
(* outlived its document is remembered.  Without a second build at once,   *)
(* the one under way is the last.                                          *)
TimersAreCurrent ==
  \A f \in Checked : lintTimer[f] # 0 => IF openText[f] = 0 THEN f \in outlived ELSE lintTimer[f] = openText[f]
OneBuildAtOnce == concurrent \/ builds \in {{}, {begun}}

LintInv == /\ Lint!TypeOK /\ texts \in 0 .. MaxTexts /\ begun \in 0 .. MaxBuilds
           /\ TimersAreCurrent /\ OneBuildAtOnce
           /\ Lint!LintIsCurrent /\ Lint!ErrorsOfLastBuild

LEMMA LintInit == Lint!Init => LintInv
<1> SUFFICES ASSUME Lint!Init PROVE LintInv
  OBVIOUS
<1> USE DEF Lint!Init, Lint!Nothing
<1>1. Lint!TypeOK
  BY DEF Lint!TypeOK
<1>2. texts \in 0 .. MaxTexts /\ begun \in 0 .. MaxBuilds
  BY PartsAssumption
<1>3. TimersAreCurrent /\ OneBuildAtOnce
  BY DEF TimersAreCurrent, OneBuildAtOnce
<1>4. Lint!LintIsCurrent /\ Lint!ErrorsOfLastBuild
  BY PartsAssumption DEF Lint!LintIsCurrent, Lint!ErrorsOfLastBuild
<1> QED
  BY <1>1, <1>2, <1>3, <1>4 DEF LintInv

Shows == {Lint!Nothing} \cup ({"lint"} \X (1 .. texts)) \cup ({"build"} \X (1 .. begun))

LEMMA LintNext == LintInv /\ [Lint!Next]_lintVars => LintInv'
<1> SUFFICES ASSUME LintInv, [Lint!Next]_lintVars PROVE LintInv'
  OBVIOUS
<1> USE PartsAssumption
<1>0. /\ openText \in [Checked -> 0..texts] /\ lintTimer \in [Checked -> 0..texts]
      /\ shown \in [Checked -> Shows]
      /\ builds \subseteq 1..begun /\ outlived \subseteq Checked
      /\ texts \in Nat /\ begun \in Nat
  BY DEF LintInv, Lint!TypeOK, Shows
<1>1. ASSUME NEW f \in Checked, Lint!Change(f) PROVE LintInv'
  <2> USE <1>1 DEF Lint!Change, Lint!Armed
  <2>1. texts' \in 0 .. MaxTexts /\ begun' \in 0 .. MaxBuilds
    BY <1>0 DEF LintInv
  <2>2. /\ openText' \in [Checked -> 0..texts'] /\ lintTimer' \in [Checked -> 0..texts']
    BY <1>0
  <2>3. shown' \in [Checked -> Shows']
    BY <1>0 DEF Shows
  <2>4. TimersAreCurrent' /\ Lint!LintIsCurrent'
    BY <1>0 DEF LintInv, TimersAreCurrent, Lint!LintIsCurrent
  <2>5. OneBuildAtOnce' /\ Lint!ErrorsOfLastBuild'
    BY DEF LintInv, OneBuildAtOnce, Lint!ErrorsOfLastBuild
  <2> QED
    BY <1>0, <2>1, <2>2, <2>3, <2>4, <2>5 DEF LintInv, Lint!TypeOK, Shows
<1>2. ASSUME NEW f \in Checked, Lint!LintFires(f) PROVE LintInv'
  <2> USE <1>2 DEF Lint!LintFires
  <2>1. texts' \in 0 .. MaxTexts /\ begun' \in 0 .. MaxBuilds
    BY <1>0 DEF LintInv
  <2>2. /\ openText' \in [Checked -> 0..texts'] /\ lintTimer' \in [Checked -> 0..texts']
    BY <1>0
  <2>3. shown' \in [Checked -> Shows']
    BY <1>0 DEF Shows
  <2>4. TimersAreCurrent' /\ Lint!LintIsCurrent'
    BY <1>0 DEF LintInv, TimersAreCurrent, Lint!LintIsCurrent, Lint!Nothing
  <2>5. OneBuildAtOnce' /\ Lint!ErrorsOfLastBuild'
    BY <1>0 DEF LintInv, OneBuildAtOnce, Lint!ErrorsOfLastBuild, Lint!Nothing
  <2> QED
    BY <1>0, <2>1, <2>2, <2>3, <2>4, <2>5 DEF LintInv, Lint!TypeOK, Shows
<1>3. ASSUME NEW f \in Checked, Lint!Save(f) PROVE LintInv'
  <2> USE <1>3 DEF Lint!Save
  <2>1. texts' \in 0 .. MaxTexts /\ begun' \in 0 .. MaxBuilds
    BY <1>0 DEF LintInv
  <2>2. /\ openText' \in [Checked -> 0..texts'] /\ lintTimer' \in [Checked -> 0..texts']
        /\ builds' \subseteq 1..begun'
    BY <1>0
  <2>3. shown' \in [Checked -> Shows']
    BY <1>0 DEF Shows
  <2>4. TimersAreCurrent' /\ Lint!LintIsCurrent'
    BY <1>0 DEF LintInv, TimersAreCurrent, Lint!LintIsCurrent
  <2>5. OneBuildAtOnce' /\ Lint!ErrorsOfLastBuild'
    BY <1>0 DEF LintInv, OneBuildAtOnce, Lint!ErrorsOfLastBuild
  <2> QED
    BY <1>0, <2>1, <2>2, <2>3, <2>4, <2>5 DEF LintInv, Lint!TypeOK, Shows
<1>4. ASSUME NEW f \in Checked, Lint!Close(f) \/ Lint!Deleted(f) PROVE LintInv'
  <2> USE <1>4 DEF Lint!Close, Lint!Deleted, Lint!Cleared
  <2>1. texts' \in 0 .. MaxTexts /\ begun' \in 0 .. MaxBuilds /\ outlived' \subseteq Checked
    BY <1>0 DEF LintInv
  <2>2. /\ openText' \in [Checked -> 0..texts'] /\ lintTimer' \in [Checked -> 0..texts']
    BY <1>0
  <2>3. shown' \in [Checked -> Shows']
    BY <1>0 DEF Shows
  <2>4. TimersAreCurrent' /\ Lint!LintIsCurrent'
    BY <1>0 DEF LintInv, TimersAreCurrent, Lint!LintIsCurrent, Lint!Nothing
  <2>5. OneBuildAtOnce' /\ Lint!ErrorsOfLastBuild'
    <3>1. \A g \in Known : shown'[g] = shown[g] \/ shown'[g][1] # "build"
      BY <1>0 DEF Lint!Nothing
    <3> QED
      BY <3>1 DEF LintInv, OneBuildAtOnce, Lint!ErrorsOfLastBuild
  <2> QED
    BY <1>0, <2>1, <2>2, <2>3, <2>4, <2>5 DEF LintInv, Lint!TypeOK, Shows
<1>5. ASSUME NEW b \in builds, Lint!BuildEnds(b) PROVE LintInv'
  <2> USE <1>5 DEF Lint!BuildEnds, Lint!Published
  <2>0. PICK errors \in SUBSET Checked : shown' = Lint!Published(b, errors)
    OBVIOUS
  <2>1. texts' \in 0 .. MaxTexts /\ begun' \in 0 .. MaxBuilds /\ b \in 1 .. begun
    BY <1>0 DEF LintInv
  <2>2. /\ openText' \in [Checked -> 0..texts'] /\ lintTimer' \in [Checked -> 0..texts']
        /\ builds' \subseteq 1..begun'
    BY <1>0
  <2>3. shown' \in [Checked -> Shows']
    <3>1. Shows' = Shows /\ <<"build", b>> \in Shows /\ Lint!Nothing \in Shows
      BY <2>1 DEF Shows
    <3> QED
      BY <1>0, <2>0, <3>1
  <2>4. TimersAreCurrent' /\ Lint!LintIsCurrent'
    BY <1>0, <2>0 DEF LintInv, TimersAreCurrent, Lint!LintIsCurrent, Lint!Nothing
  <2>5. OneBuildAtOnce' /\ Lint!ErrorsOfLastBuild'
    BY <1>0, <2>0 DEF LintInv, OneBuildAtOnce, Lint!ErrorsOfLastBuild, Lint!Nothing
  <2> QED
    BY <1>0, <2>1, <2>2, <2>3, <2>4, <2>5 DEF LintInv, Lint!TypeOK, Shows
<1>6. ASSUME UNCHANGED lintVars PROVE LintInv'
  BY <1>6 DEF lintVars, LintInv, Lint!TypeOK, TimersAreCurrent, OneBuildAtOnce,
     Lint!LintIsCurrent, Lint!ErrorsOfLastBuild
<1> QED
  BY <1>1, <1>2, <1>3, <1>4, <1>5, <1>6 DEF Lint!Next
-----------------------------------------------------------------------------
(***************************************************************************)
(* The Anvil manager.                                                      *)
(***************************************************************************)
StatusNames == {"none", "starting", "running", "stopped", "error"}
ProcNames == {"none", "up", "bound", "dead", "reported"}

AnvilTypes ==
  /\ nextId \in 0 .. MaxInstances
  /\ at \in [Commands -> {"idle", "probe", "wait"}]
  /\ left \in [Commands -> 0..PresetSize] /\ waitsFor \in [Commands -> 0..nextId]
  /\ used \in [Commands -> SUBSET Anvil!Ports] /\ port \in [Commands -> Anvil!Ports]
  /\ listed \cup auto \subseteq 1..nextId
  /\ status \in [Anvil!Ids -> StatusNames]
  /\ proc \in [Anvil!Ids -> ProcNames]
  /\ ports \in [Anvil!Ids -> Anvil!Ports \cup {Anvil!NoPort}]

(* What was spawned has a port; a command at work has an instance to start. *)
SpawnedHavePorts == \A i \in 1 .. nextId : ports[i] \in Anvil!Ports
WorkIsLeft == \A c \in Commands : at[c] # "idle" => left[c] > 0

(* Without a second search at once, the one under way has seen the ports   *)
(* of all instances whose ports were searched.                             *)
SearchSeesAll ==
  crowded \/ \A c \in Commands : at[c] = "probe" =>
               /\ \A d \in Commands : at[d] = "probe" => d = c
               /\ \A i \in auto \cap Anvil!GetRunning : ports[i] \in used[c]

AnvilInv ==
  /\ AnvilTypes /\ SpawnedHavePorts /\ WorkIsLeft
  /\ SearchSeesAll /\ Anvil!DistinctPorts /\ Anvil!NoGhost

LEMMA IdsAre == ASSUME AnvilTypes PROVE 1 .. nextId \subseteq Anvil!Ids /\ nextId \in Nat
BY PartsAssumption DEF AnvilTypes, Anvil!Ids

LEMMA AnvilInit == Anvil!Init => AnvilInv
<1> SUFFICES ASSUME Anvil!Init PROVE AnvilInv
  OBVIOUS
<1> USE PartsAssumption DEF Anvil!Init
<1>1. AnvilTypes
  BY DEF AnvilTypes, Anvil!Ids, Anvil!Ports, Anvil!NoPort, StatusNames, ProcNames
<1>2. SpawnedHavePorts /\ WorkIsLeft /\ SearchSeesAll
  BY DEF SpawnedHavePorts, WorkIsLeft, SearchSeesAll
<1>3. Anvil!DistinctPorts /\ Anvil!NoGhost
  BY DEF Anvil!DistinctPorts, Anvil!NoGhost
<1> QED
  BY <1>1, <1>2, <1>3 DEF AnvilInv

(* A step that spawns nothing, starts no search and brings no instance to  *)
(* life loses nothing of what a search has seen.                           *)
LEMMA SearchesKept ==
  ASSUME AnvilInv, UNCHANGED <<auto, ports, crowded>>,
         \A i \in auto : i \in Anvil!GetRunning' => i \in Anvil!GetRunning,
         \A c \in Commands : at'[c] = "probe" => at[c] = "probe" /\ used'[c] = used[c]
  PROVE  SearchSeesAll' /\ Anvil!DistinctPorts'
BY DEF AnvilInv, SearchSeesAll, Anvil!DistinctPorts

(* A search begins: its snapshot is of all instances. *)
LEMMA SearchBegins ==
  ASSUME AnvilInv, AnvilTypes', UNCHANGED <<auto, ports, listed>>, NEW c \in Commands, Anvil!Search(c),
         \A i \in auto : i \in Anvil!GetRunning' => i \in Anvil!GetRunning
  PROVE  SearchSeesAll' /\ Anvil!DistinctPorts'
<1>1. at' = [at EXCEPT ![c] = "probe"] /\ used' = [used EXCEPT ![c] = Anvil!UsedPorts']
      /\ crowded' = (crowded \/ Anvil!Others(c))
  BY DEF Anvil!Search
<1>2. SearchSeesAll'
  <2> SUFFICES ASSUME ~crowded', NEW d \in Commands, at'[d] = "probe"
               PROVE  /\ \A e \in Commands : at'[e] = "probe" => e = d
                      /\ \A i \in auto' \cap Anvil!GetRunning' : ports'[i] \in used'[d]
    BY DEF SearchSeesAll
  <2>1. \A e \in Commands : at'[e] = "probe" => e = c
    BY <1>1 DEF AnvilInv, AnvilTypes, Anvil!Others
  <2>2. d = c /\ used'[c] = Anvil!UsedPorts'
    BY <1>1, <2>1 DEF AnvilInv, AnvilTypes
  <2>3. \A i \in Anvil!GetRunning' : ports'[i] \in Anvil!UsedPorts'
    BY DEF Anvil!UsedPorts
  <2> QED
    BY <2>1, <2>2, <2>3
<1>3. Anvil!DistinctPorts'
  BY <1>1 DEF AnvilInv, Anvil!DistinctPorts
<1> QED
  BY <1>2, <1>3

(* A port is found or given, and an instance spawned on it. *)
LEMMA SpawnFacts ==
  ASSUME AnvilInv, NEW c \in Commands, NEW p \in Anvil!Ports, NEW found \in BOOLEAN, Anvil!SpawnOn(c, p, found),
         left' \in [Commands -> 0..PresetSize], left'[c] > 0, \A d \in Commands \ {c} : left'[d] = left[d]
  PROVE  AnvilTypes' /\ SpawnedHavePorts' /\ WorkIsLeft' /\ Anvil!NoGhost'
<1> USE DEF Anvil!SpawnOn
<1>0. nextId + 1 \in Anvil!Ids /\ nextId' = nextId + 1 /\ nextId \in Nat
  BY IdsAre, PartsAssumption DEF AnvilInv, Anvil!Ids
<1>1. AnvilTypes'
  <2>1. nextId' \in 0 .. MaxInstances
    BY <1>0, PartsAssumption DEF AnvilInv, Anvil!Ids
  <2>2. at' \in [Commands -> {"idle", "probe", "wait"}] /\ waitsFor' \in [Commands -> 0..nextId']
    BY <1>0 DEF AnvilInv, AnvilTypes
  <2>3. used' \in [Commands -> SUBSET Anvil!Ports] /\ port' \in [Commands -> Anvil!Ports]
    BY PartsAssumption DEF AnvilInv, AnvilTypes, Anvil!Ports
  <2>4. listed' \cup auto' \subseteq 1..nextId'
    BY <1>0 DEF AnvilInv, AnvilTypes
  <2>5. status' \in [Anvil!Ids -> StatusNames] /\ proc' \in [Anvil!Ids -> ProcNames]
    BY DEF AnvilInv, AnvilTypes, StatusNames, ProcNames
  <2>6. ports' \in [Anvil!Ids -> Anvil!Ports \cup {Anvil!NoPort}]
    BY DEF AnvilInv, AnvilTypes
  <2> QED
    BY <2>1, <2>2, <2>3, <2>4, <2>5, <2>6 DEF AnvilTypes
<1>2. SpawnedHavePorts'
  BY <1>0 DEF AnvilInv, AnvilTypes, SpawnedHavePorts, Anvil!Ids
<1>3. WorkIsLeft'
  BY DEF AnvilInv, AnvilTypes, WorkIsLeft
<1>4. Anvil!NoGhost'
  BY DEF AnvilInv, AnvilTypes, Anvil!NoGhost
<1> QED
  BY <1>1, <1>2, <1>3, <1>4

LEMMA AnvilNext == AnvilInv /\ [Anvil!Next]_anvilVars => AnvilInv'
<1> SUFFICES ASSUME AnvilInv, [Anvil!Next]_anvilVars PROVE AnvilInv'
  OBVIOUS
<1>t. AnvilTypes /\ SpawnedHavePorts /\ WorkIsLeft /\ Anvil!NoGhost
  BY DEF AnvilInv
<1>i. 1 .. nextId \subseteq Anvil!Ids /\ nextId \in Nat
  BY <1>t, IdsAre
<1>u. Anvil!UsedPorts \subseteq Anvil!Ports
  BY <1>t DEF Anvil!UsedPorts, Anvil!GetRunning, AnvilTypes, SpawnedHavePorts
<1>s. ASSUME AnvilTypes', SpawnedHavePorts', WorkIsLeft', Anvil!NoGhost', SearchSeesAll', Anvil!DistinctPorts'
      PROVE  AnvilInv'
  BY <1>s DEF AnvilInv
<1>1. ASSUME NEW c \in Commands, NEW n \in {1, PresetSize}, Anvil!Begin(c, n) PROVE AnvilInv'
  <2> USE <1>1, PartsAssumption DEF Anvil!Begin, Anvil!instanceVars
  <2>1. Anvil!GetRunning' = Anvil!GetRunning /\ Anvil!UsedPorts' = Anvil!UsedPorts
    BY DEF Anvil!GetRunning, Anvil!UsedPorts
  <2>2. AnvilTypes'
    BY <1>t, <1>u, <2>1 DEF AnvilTypes, Anvil!Search, Anvil!Ports
  <2>3. SpawnedHavePorts' /\ WorkIsLeft' /\ Anvil!NoGhost'
    BY <1>t DEF AnvilTypes, SpawnedHavePorts, WorkIsLeft, Anvil!NoGhost, Anvil!Search
  <2> QED
    BY <1>s, <2>1, <2>2, <2>3, SearchBegins
<1>2. ASSUME NEW c \in Commands, NEW p \in Anvil!Ports, Anvil!StartOn(c, p) PROVE AnvilInv'
  <2> USE <1>2, PartsAssumption DEF Anvil!StartOn
  <2>1. left' \in [Commands -> 0..PresetSize] /\ left'[c] > 0 /\ \A d \in Commands \ {c} : left'[d] = left[d]
    BY <1>t DEF AnvilTypes
  <2>2. AnvilTypes' /\ SpawnedHavePorts' /\ WorkIsLeft' /\ Anvil!NoGhost'
    BY <2>1, SpawnFacts
  <2>3. /\ auto' = auto /\ crowded' = crowded /\ \A i \in auto : i \in Anvil!Ids /\ i # nextId + 1
        /\ \A i \in auto : ports'[i] = ports[i]
        /\ \A i \in auto : i \in Anvil!GetRunning' => i \in Anvil!GetRunning
    BY <1>t, <1>i DEF AnvilTypes, Anvil!SpawnOn, Anvil!GetRunning
  <2>4. \A d \in Commands : at'[d] = "probe" => at[d] = "probe" /\ used'[d] = used[d]
    BY <1>t DEF AnvilTypes, Anvil!SpawnOn
  <2>5. SearchSeesAll' /\ Anvil!DistinctPorts'
    BY <2>3, <2>4 DEF AnvilInv, SearchSeesAll, Anvil!DistinctPorts
  <2> QED
    BY <1>s, <2>2, <2>5
<1>3. ASSUME NEW c \in Commands, Anvil!NextPort(c) PROVE AnvilInv'
  <2> USE <1>3, PartsAssumption DEF Anvil!NextPort, Anvil!instanceVars
  <2>1. AnvilTypes'
    BY <1>t DEF AnvilTypes, Anvil!Ports
  <2>2. SpawnedHavePorts' /\ WorkIsLeft' /\ Anvil!NoGhost'
    BY <1>t DEF AnvilTypes, SpawnedHavePorts, WorkIsLeft, Anvil!NoGhost
  <2>3. Anvil!GetRunning' = Anvil!GetRunning
    BY DEF Anvil!GetRunning
  <2>4. \A d \in Commands : at'[d] = "probe" => at[d] = "probe" /\ used'[d] = used[d]
    BY <1>t DEF AnvilTypes
  <2> QED
    BY <1>s, <2>1, <2>2, <2>3, <2>4, SearchesKept
<1>4. ASSUME NEW c \in Commands, Anvil!PortFound(c) PROVE AnvilInv'
  <2> USE <1>4, PartsAssumption DEF Anvil!PortFound
  <2>1. port[c] \in Anvil!Ports /\ left' \in [Commands -> 0..PresetSize] /\ left'[c] > 0
        /\ \A d \in Commands \ {c} : left'[d] = left[d]
    BY <1>t DEF AnvilTypes, WorkIsLeft
  <2>2. AnvilTypes' /\ SpawnedHavePorts' /\ WorkIsLeft' /\ Anvil!NoGhost'
    BY <2>1, SpawnFacts
  <2> DEFINE k == nextId + 1
  <2>3. /\ auto' = auto \cup {k} /\ crowded' = crowded /\ ports'[k] = port[c]
        /\ \A i \in auto : i # k /\ i \in Anvil!Ids /\ ports'[i] = ports[i]
        /\ \A i \in auto : i \in Anvil!GetRunning' => i \in Anvil!GetRunning
    <3>1. k \in Anvil!Ids /\ \A i \in auto : i # k /\ i \in Anvil!Ids
      BY <1>t, <1>i DEF AnvilTypes, Anvil!SpawnOn, Anvil!Ids
    <3> QED
      BY <1>t, <3>1 DEF AnvilTypes, Anvil!SpawnOn, Anvil!GetRunning
  <2>4. at'[c] # "probe" /\ \A d \in Commands : d # c => at'[d] = at[d] /\ used'[d] = used[d]
    BY <1>t DEF AnvilTypes, Anvil!SpawnOn
  <2>5. \/ crowded
        \/ /\ \A d \in Commands : at[d] = "probe" => d = c
           /\ \A i \in auto \cap Anvil!GetRunning : ports[i] # port[c]
    BY DEF AnvilInv, SearchSeesAll
  <2> HIDE DEF k
  <2>6. SearchSeesAll'
    BY <2>3, <2>4, <2>5 DEF SearchSeesAll
  <2>7. Anvil!DistinctPorts'
    BY <2>3, <2>5 DEF AnvilInv, Anvil!DistinctPorts
  <2> QED
    BY <1>s, <2>2, <2>6, <2>7
<1>5. ASSUME NEW c \in Commands, Anvil!WaitOver(c) PROVE AnvilInv'
  <2> USE <1>5, PartsAssumption DEF Anvil!WaitOver, Anvil!Alive
  <2>1. status' \in [Anvil!Ids -> StatusNames] /\ Anvil!NoGhost'
    BY <1>t DEF AnvilTypes, StatusNames, Anvil!NoGhost
  <2>2. \A i \in Anvil!Ids : status'[i] # status[i] => status[i] = "starting"
    BY <1>t DEF AnvilTypes
  <2>3. Anvil!GetRunning' \subseteq Anvil!GetRunning
    BY <1>t, <1>i, <2>2 DEF Anvil!GetRunning, AnvilTypes
  <2>4. Anvil!UsedPorts' \subseteq Anvil!Ports
    BY <1>u, <2>3 DEF Anvil!UsedPorts
  <2>5. left[c] > 0 /\ left[c] \in Nat /\ left[c] <= PresetSize
    BY <1>t DEF AnvilTypes, WorkIsLeft
  <2>6. left' \in [Commands -> 0..PresetSize] /\ waitsFor' \in [Commands -> 0..nextId]
    BY <1>t, <1>i, <2>5 DEF AnvilTypes
  <2>7. AnvilTypes' /\ SpawnedHavePorts' /\ WorkIsLeft'
    <3>1. CASE left[c] > 1
      <4>0. 0 \in Anvil!Ports
        BY DEF Anvil!Ports
      <4>3. /\ at' \in [Commands -> {"idle", "probe", "wait"}]
            /\ used' \in [Commands -> SUBSET Anvil!Ports] /\ port' \in [Commands -> Anvil!Ports]
        BY <1>t, <2>4, <3>1, <4>0 DEF AnvilTypes, Anvil!Search
      <4>1. AnvilTypes'
        BY <1>t, <2>1, <2>6, <4>3 DEF AnvilTypes
      <4>2. WorkIsLeft'
        BY <1>t, <2>5, <3>1 DEF AnvilTypes, WorkIsLeft, Anvil!Search
      <4> QED
        BY <1>t, <4>1, <4>2 DEF SpawnedHavePorts
    <3>2. CASE ~(left[c] > 1)
      <4>1. AnvilTypes'
        BY <1>t, <2>1, <2>6, <3>2 DEF AnvilTypes
      <4>2. WorkIsLeft'
        BY <1>t, <3>2 DEF AnvilTypes, WorkIsLeft
      <4> QED
        BY <1>t, <4>1, <4>2 DEF SpawnedHavePorts
    <3> QED
      BY <3>1, <3>2
  <2>8. CASE left[c] > 1
    BY <1>s, <2>1, <2>3, <2>7, <2>8, SearchBegins
  <2>9. CASE ~(left[c] > 1)
    <3>1. \A d \in Commands : at'[d] = "probe" => at[d] = "probe" /\ used'[d] = used[d]
      BY <1>t, <2>9 DEF AnvilTypes
    <3> QED
      BY <1>s, <2>1, <2>3, <2>7, <2>9, <3>1, SearchesKept
  <2> QED
    BY <2>8, <2>9
<1>6. ASSUME Anvil!Stop \/ Anvil!StopAll PROVE AnvilInv'
  <2>1. PICK S \in SUBSET listed : Anvil!StopInstance(S)
    BY <1>6 DEF Anvil!Stop, Anvil!StopAll
  <2> USE <2>1 DEF Anvil!StopInstance
  <2>2. AnvilTypes' /\ SpawnedHavePorts' /\ WorkIsLeft' /\ Anvil!NoGhost'
    BY <1>t, <1>i DEF AnvilTypes, SpawnedHavePorts, WorkIsLeft, Anvil!NoGhost, StatusNames
  <2>3. Anvil!GetRunning' \subseteq Anvil!GetRunning
    BY <1>t, <1>i DEF AnvilTypes, Anvil!GetRunning
  <2> QED
    BY <1>s, <2>2, <2>3, SearchesKept
<1>7. ASSUME NEW i \in Anvil!Ids, Anvil!Bind(i) \/ Anvil!Listening(i) \/ Anvil!Die(i) \/ Anvil!ExitReported(i)
      PROVE  AnvilInv'
  <2> USE <1>7 DEF Anvil!Bind, Anvil!Listening, Anvil!Die, Anvil!ExitReported
  <2>1. status' \in [Anvil!Ids -> StatusNames] /\ proc' \in [Anvil!Ids -> ProcNames] /\ Anvil!NoGhost'
    BY <1>t DEF AnvilTypes, StatusNames, ProcNames, Anvil!NoGhost
  <2>2. AnvilTypes' /\ SpawnedHavePorts' /\ WorkIsLeft'
    BY <1>t, <2>1 DEF AnvilTypes, SpawnedHavePorts, WorkIsLeft
  <2>3. Anvil!GetRunning' \subseteq Anvil!GetRunning
    BY <1>t, <1>i DEF AnvilTypes, Anvil!GetRunning, StatusNames
  <2> QED
    BY <1>s, <2>1, <2>2, <2>3, SearchesKept
<1>8. ASSUME UNCHANGED anvilVars PROVE AnvilInv'
  <2>1. Anvil!GetRunning' = Anvil!GetRunning
    BY <1>8 DEF anvilVars, Anvil!GetRunning
  <2>2. AnvilTypes' /\ SpawnedHavePorts' /\ WorkIsLeft' /\ Anvil!NoGhost'
    BY <1>t, <1>8 DEF anvilVars, AnvilTypes, SpawnedHavePorts, WorkIsLeft, Anvil!NoGhost
  <2> QED
    BY <1>s, <1>8, <2>1, <2>2, SearchesKept DEF anvilVars
<1> QED
  BY <1>1, <1>2, <1>3, <1>4, <1>5, <1>6, <1>7, <1>8 DEF Anvil!Next
-----------------------------------------------------------------------------
(***************************************************************************)
(* Mutation testing.                                                       *)
(***************************************************************************)
RangeRecords == [file : Sources, base : Mutation!Texts]
SandboxFile == [text : {0} \cup Mutation!Texts, mutants : SUBSET (1 .. MaxCandidates)]

MutationTypes ==
  /\ step \in {"idle", "baseline", "collect", "prepare", "loop", "run", "done"}
  /\ engine \in {"builtin", "gambit"} /\ moved \in BOOLEAN
  /\ disk \in [Sources -> Mutation!Texts]
  /\ sandbox \in [Sources -> SandboxFile]
  /\ candidates \in Seq(RangeRecords) /\ Len(candidates) <= MaxCandidates
  /\ running \in 0 .. Len(candidates)
  /\ results \in Seq({"killed", "survived", "timeout", "error"})

(* Between two candidates no file of a copy is mutated. *)
CleanBetween == step # "run" => \A f \in Sources : sandbox[f].mutants = {}

(* The texts the ranges were found in are those on disk before they are    *)
(* copied, and those of the copy afterwards; gambit's copy is of texts.    *)
RangesFit ==
  /\ step = "prepare" => engine = "builtin"
  /\ step = "collect" /\ engine = "gambit" => \A f \in Sources : sandbox[f].text # 0
  /\ step = "prepare" /\ ~moved => \A k \in 1 .. Len(candidates) : disk[candidates[k].file] = candidates[k].base
  /\ step \in {"loop", "run"} /\ engine = "builtin" /\ ~moved =>
       \A k \in 1 .. Len(candidates) : sandbox[candidates[k].file].text = candidates[k].base

(* The temporary directories of every stage. *)
DirsOf ==
  /\ step = "collect" => dirs = IF engine = "gambit" THEN {"source", "mutants"} ELSE {}
  /\ step = "loop" => dirs = IF engine = "gambit" THEN {"mutants"} ELSE {"sandbox"}
  /\ step = "run" => dirs = IF engine = "gambit" THEN {"mutants", "own"} ELSE {"sandbox"}
  /\ step \notin {"collect", "loop", "run"} => dirs = {}

ResultsFit ==
  /\ running = IF step = "run" THEN Len(results) + 1 ELSE Len(results)
  /\ step \in {"idle", "baseline", "collect", "prepare"} => running = 0
  /\ step # "done" => summary = <<>>
  /\ summary \in {<<>>, results}

MutationInv ==
  /\ MutationTypes /\ CleanBetween /\ RangesFit /\ DirsOf /\ ResultsFit
  /\ Mutation!OneMutation /\ Mutation!InPlace

LEMMA ListFacts ==
  ASSUME NEW base \in [Sources -> Mutation!Texts], NEW L \in Mutation!Lists(base)
  PROVE  /\ L \in Seq(RangeRecords) /\ Len(L) \in 1 .. MaxCandidates
         /\ \A k \in 1 .. Len(L) : L[k].base = base[L[k].file]
<1>1. PICK n \in 1 .. MaxCandidates : L \in [1 .. n -> {[file |-> f, base |-> base[f]] : f \in Sources}]
  BY DEF Mutation!Lists
<1>2. \A k \in 1 .. n : L[k] \in RangeRecords /\ L[k].base = base[L[k].file]
  BY <1>1 DEF RangeRecords
<1>3. L \in [1 .. n -> RangeRecords] /\ n \in Nat
  BY <1>1, <1>2, PartsAssumption
<1>4. L \in Seq(RangeRecords)
  BY <1>3, SeqDef
<1>5. Len(L) = n
  BY <1>3, <1>4, LenProperties
<1> QED
  BY <1>2, <1>4, <1>5

LEMMA RangesAreRecords ==
  ASSUME MutationTypes
  PROVE  \A k \in 1 .. Len(candidates) : candidates[k] \in RangeRecords /\ candidates[k].file \in Sources
<1>1. candidates \in [1 .. Len(candidates) -> RangeRecords]
  BY LenProperties DEF MutationTypes
<1>2. \A k \in 1 .. Len(candidates) : candidates[k] \in RangeRecords
  BY <1>1
<1> QED
  BY <1>2 DEF RangeRecords

LEMMA MutationInit == Mutation!Init => MutationInv
<1> SUFFICES ASSUME Mutation!Init PROVE MutationInv
  OBVIOUS
<1> USE PartsAssumption DEF Mutation!Init, Mutation!NoCopy
<1>1. MutationTypes
  <2>1. disk \in [Sources -> Mutation!Texts] /\ sandbox \in [Sources -> SandboxFile]
    BY DEF Mutation!Texts, SandboxFile
  <2>2. candidates \in Seq(RangeRecords) /\ Len(candidates) = 0
    OBVIOUS
  <2>3. results \in Seq({"killed", "survived", "timeout", "error"})
    OBVIOUS
  <2>4. running \in 0 .. Len(candidates) /\ Len(candidates) <= MaxCandidates
    BY <2>2
  <2>5. step \in {"idle", "baseline", "collect", "prepare", "loop", "run", "done"}
        /\ engine \in {"builtin", "gambit"} /\ moved \in BOOLEAN
    OBVIOUS
  <2> QED
    BY Zenon, <2>1, <2>2, <2>3, <2>4, <2>5 DEF MutationTypes
<1>2. CleanBetween /\ RangesFit /\ DirsOf /\ ResultsFit
  BY DEF CleanBetween, RangesFit, DirsOf, ResultsFit
<1>3. Mutation!OneMutation /\ Mutation!InPlace
  BY DEF Mutation!OneMutation, Mutation!InPlace
<1> QED
  BY <1>1, <1>2, <1>3 DEF MutationInv

LEMMA CopyFacts ==
  ASSUME disk \in [Sources -> Mutation!Texts]
  PROVE  /\ Mutation!Copy \in [Sources -> SandboxFile] /\ Mutation!NoCopy \in [Sources -> SandboxFile]
         /\ \A f \in Sources : /\ Mutation!Copy[f].text = disk[f] /\ Mutation!Copy[f].text # 0
                               /\ Mutation!Copy[f].mutants = {} /\ Mutation!NoCopy[f].mutants = {}
BY PartsAssumption DEF Mutation!Copy, Mutation!NoCopy, SandboxFile, Mutation!Texts

LEMMA MutationNext == MutationInv /\ [Mutation!Next]_mutationVars => MutationInv'
<1> SUFFICES ASSUME MutationInv, [Mutation!Next]_mutationVars PROVE MutationInv'
  OBVIOUS
<1> USE PartsAssumption
<1>t. MutationTypes /\ CleanBetween /\ RangesFit /\ DirsOf /\ ResultsFit
  BY DEF MutationInv
<1>l. Len(candidates) \in Nat /\ Len(results) \in Nat
  BY <1>t DEF MutationTypes
<1>c. /\ Mutation!Copy \in [Sources -> SandboxFile] /\ Mutation!NoCopy \in [Sources -> SandboxFile]
      /\ \A f \in Sources : /\ Mutation!Copy[f].text = disk[f] /\ Mutation!Copy[f].text # 0
                            /\ Mutation!Copy[f].mutants = {} /\ Mutation!NoCopy[f].mutants = {}
  BY <1>t, CopyFacts DEF MutationTypes
<1>s. ASSUME MutationTypes', CleanBetween', RangesFit', DirsOf', ResultsFit', step' # "run"
      PROVE  MutationInv'
  BY <1>s DEF MutationInv, Mutation!OneMutation, Mutation!InPlace
<1>1. ASSUME NEW f \in Sources, Mutation!SaveFile(f) PROVE MutationInv'
  <2> USE <1>1 DEF Mutation!SaveFile
  <2>1. MutationTypes'
    BY <1>t DEF MutationTypes, Mutation!Texts
  <2>2. CleanBetween' /\ DirsOf' /\ ResultsFit'
    BY <1>t DEF CleanBetween, DirsOf, ResultsFit
  <2>3. RangesFit'
    BY <1>t DEF RangesFit
  <2>4. Mutation!OneMutation' /\ Mutation!InPlace'
    BY DEF MutationInv, Mutation!OneMutation, Mutation!InPlace
  <2> QED
    BY <2>1, <2>2, <2>3, <2>4 DEF MutationInv
<1>2. ASSUME Mutation!Run PROVE MutationInv'
  <2> USE <1>2 DEF Mutation!Run
  <2>1. MutationTypes'
    BY <1>t DEF MutationTypes
  <2>2. CleanBetween' /\ DirsOf' /\ ResultsFit' /\ RangesFit'
    BY <1>t DEF CleanBetween, DirsOf, ResultsFit, RangesFit
  <2> QED
    BY <1>s, <2>1, <2>2
<1>3. ASSUME Mutation!Baseline PROVE MutationInv'
  <2> USE <1>3 DEF Mutation!Baseline
  <2>0. step' \in {"done", "collect"} /\ sandbox' \in {sandbox, Mutation!Copy, Mutation!NoCopy}
    OBVIOUS
  <2>1. MutationTypes'
    BY <1>t, <1>c, <2>0 DEF MutationTypes
  <2>2. CleanBetween' /\ RangesFit'
    BY <1>t, <1>c DEF CleanBetween, RangesFit, MutationTypes
  <2>3. DirsOf' /\ ResultsFit'
    BY <1>t DEF DirsOf, ResultsFit
  <2> QED
    BY <1>s, <2>0, <2>1, <2>2, <2>3
<1>4. ASSUME Mutation!CollectBuiltin PROVE MutationInv'
  <2> USE <1>4 DEF Mutation!CollectBuiltin
  <2>1. CASE step' = "done" /\ UNCHANGED <<candidates, moved>>
    <3>1. MutationTypes'
      BY <1>t, <2>1 DEF MutationTypes
    <3>2. CleanBetween' /\ RangesFit' /\ DirsOf' /\ ResultsFit'
      BY <1>t, <2>1 DEF CleanBetween, RangesFit, DirsOf, ResultsFit
    <3> QED
      BY <1>s, <2>1, <3>1, <3>2
  <2>2. ASSUME step' = "prepare", NEW base \in [Sources -> Mutation!Texts], candidates' \in Mutation!Lists(base),
               moved' \in BOOLEAN, base = disk \/ moved'
        PROVE  MutationInv'
    <3>1. /\ candidates' \in Seq(RangeRecords) /\ Len(candidates') \in 1 .. MaxCandidates
          /\ \A k \in 1 .. Len(candidates') : candidates'[k].base = base[candidates'[k].file]
      BY <2>2, ListFacts
    <3>2. running = 0
      BY <1>t DEF ResultsFit, MutationTypes
    <3>3. MutationTypes'
      BY <1>t, <1>l, <2>2, <3>1, <3>2 DEF MutationTypes
    <3>4. CleanBetween' /\ DirsOf' /\ ResultsFit'
      BY <1>t, <2>2 DEF CleanBetween, DirsOf, ResultsFit
    <3>5. RangesFit'
      BY <1>t, <2>2, <3>1 DEF RangesFit
    <3> QED
      BY <1>s, <2>2, <3>3, <3>4, <3>5
  <2> QED
    BY <1>t, <2>1, <2>2 DEF Mutation!ReadText, MutationTypes
<1>5. ASSUME Mutation!CollectGambit PROVE MutationInv'
  <2> USE <1>5 DEF Mutation!CollectGambit
  <2>0. dirs = {"source", "mutants"} /\ running = 0
    BY <1>t DEF DirsOf, ResultsFit
  <2>1. CASE step' = "done" /\ dirs' = Mutation!OnGambitError /\ UNCHANGED candidates
    <3>1. MutationTypes'
      BY <1>t, <1>c, <2>1 DEF MutationTypes
    <3>2. CleanBetween' /\ RangesFit' /\ DirsOf' /\ ResultsFit'
      BY <1>t, <1>c, <2>0, <2>1 DEF CleanBetween, RangesFit, DirsOf, ResultsFit, Mutation!OnGambitError
    <3> QED
      BY <1>s, <2>1, <3>1, <3>2
  <2> DEFINE base == [f \in Sources |-> sandbox[f].text]
  <2>2. CASE step' = "loop" /\ dirs' = dirs \ {"source"} /\ candidates' \in Mutation!Lists(base)
    <3>1. base \in [Sources -> Mutation!Texts]
      BY <1>t DEF MutationTypes, RangesFit, SandboxFile
    <3>2. candidates' \in Seq(RangeRecords) /\ Len(candidates') \in 1 .. MaxCandidates
      BY <2>2, <3>1, ListFacts
    <3>3. MutationTypes'
      BY <1>t, <1>c, <2>0, <2>2, <3>2 DEF MutationTypes
    <3>4. CleanBetween' /\ RangesFit' /\ DirsOf' /\ ResultsFit'
      BY <1>t, <1>c, <2>0, <2>2 DEF CleanBetween, RangesFit, DirsOf, ResultsFit
    <3> QED
      BY <1>s, <2>2, <3>3, <3>4
  <2> QED
    BY <2>1, <2>2
<1>6. ASSUME Mutation!Prepare PROVE MutationInv'
  <2> USE <1>6 DEF Mutation!Prepare
  <2>1. MutationTypes'
    BY <1>t, <1>c DEF MutationTypes
  <2>2. CleanBetween' /\ DirsOf' /\ ResultsFit'
    BY <1>t, <1>c DEF CleanBetween, DirsOf, ResultsFit, RangesFit
  <2>3. RangesFit'
    <3>1. \A k \in 1 .. Len(candidates) : candidates[k].file \in Sources
      BY <1>t, RangesAreRecords
    <3> QED
      BY <1>t, <1>c, <3>1 DEF RangesFit
  <2> QED
    BY <1>s, <2>1, <2>2, <2>3
<1>7. ASSUME Mutation!StartCandidate PROVE MutationInv'
  <2> DEFINE c == candidates[running + 1]
             base == IF engine = "gambit" THEN Mutation!Copy ELSE sandbox
             text == IF engine = "gambit" THEN c.base ELSE base[c.file].text
             marks == base[c.file].mutants \cup {running + 1}
  <2>1. /\ step = "loop" /\ running < Len(candidates) /\ running' = running + 1 /\ step' = "run"
        /\ dirs' = IF engine = "gambit" THEN dirs \cup {"own"} ELSE dirs
        /\ sandbox' = [base EXCEPT ![c.file] = [text |-> text, mutants |-> marks]]
        /\ UNCHANGED <<engine, disk, candidates, results, summary, cancelling, moved>>
    BY <1>7 DEF Mutation!StartCandidate
  <2>2. running + 1 \in 1 .. Len(candidates) /\ running + 1 \in 1 .. MaxCandidates
    BY <1>t, <1>l, <2>1 DEF MutationTypes
  <2>3. c \in RangeRecords
    BY <1>t, <2>2, RangesAreRecords
  <2>4. /\ base \in [Sources -> SandboxFile]
        /\ \A f \in Sources : base[f].mutants = {}
    BY <1>t, <1>c, <2>1 DEF MutationTypes, CleanBetween
  <2>5. c.file \in Sources /\ text \in {0} \cup Mutation!Texts /\ marks = {running + 1}
    BY <2>3, <2>4 DEF RangeRecords, SandboxFile
  <2>6. /\ sandbox' \in [Sources -> SandboxFile]
        /\ \A f \in Sources : sandbox'[f] = IF f = c.file THEN [text |-> text, mutants |-> marks] ELSE base[f]
    <3> HIDE DEF base, text, marks
    <3>1. marks \in SUBSET (1 .. MaxCandidates)
      BY <2>2, <2>5
    <3>2. [text |-> text, mutants |-> marks] \in SandboxFile
      BY <2>5, <3>1 DEF SandboxFile
    <3> QED
      BY <2>1, <2>4, <2>5, <3>2
  <2>7. MutationTypes'
    BY <1>t, <2>1, <2>2, <2>6 DEF MutationTypes
  <2>8. Mutation!OneMutation'
    <3> HIDE DEF base, text, marks
    <3>1. candidates'[running'] = c
      BY <2>1
    <3> QED
      BY <2>1, <2>4, <2>5, <2>6, <3>1 DEF Mutation!OneMutation
  <2>9. ~moved => text = c.base
    BY <1>t, <2>1, <2>2 DEF RangesFit, MutationTypes
  <2>10. Mutation!InPlace'
    <3> HIDE DEF base, text, marks
    <3>1. candidates'[running'] = c
      BY <2>1
    <3> QED
      BY <2>1, <2>5, <2>6, <2>9, <3>1 DEF Mutation!InPlace
  <2>11. CleanBetween' /\ DirsOf' /\ ResultsFit'
    BY <1>t, <1>l, <2>1 DEF CleanBetween, DirsOf, ResultsFit
  <2>12. RangesFit'
    <3>1. ASSUME engine = "builtin", ~moved, NEW k \in 1 .. Len(candidates)
          PROVE  sandbox'[candidates[k].file].text = candidates[k].base
      <4>1. candidates[k].file \in Sources
        BY <1>t, RangesAreRecords
      <4>2. base = sandbox /\ sandbox[candidates[k].file].text = candidates[k].base
        BY <1>t, <2>1, <3>1 DEF RangesFit
      <4>3. text = sandbox[c.file].text
        BY <3>1
      <4> HIDE DEF base, text, marks, c
      <4> QED
        BY <2>6, <4>1, <4>2, <4>3
    <3> QED
      BY <2>1, <3>1 DEF RangesFit
  <2> QED
    BY <2>7, <2>8, <2>10, <2>11, <2>12 DEF MutationInv
<1>8. ASSUME Mutation!CandidateEnds PROVE MutationInv'
  <2> USE <1>8 DEF Mutation!CandidateEnds
  <2> DEFINE c == candidates[running]
  <2>1. PICK status_ \in {"killed", "survived", "timeout", "error"} : results' = Append(results, status_)
    OBVIOUS
  <2>2. results' \in Seq({"killed", "survived", "timeout", "error"}) /\ Len(results') = Len(results) + 1
    BY <1>t, <2>1, AppendProperties DEF MutationTypes
  <2>3. running \in 1 .. Len(candidates)
    BY <1>t, <1>l DEF ResultsFit, MutationTypes
  <2>4. c.file \in Sources
    BY <1>t, <2>3, RangesAreRecords
  <2>5. CASE engine = "gambit"
    <3>1. MutationTypes' /\ CleanBetween'
      BY <1>t, <1>c, <2>2, <2>5 DEF MutationTypes, CleanBetween
    <3>2. RangesFit' /\ DirsOf'
      BY <1>t, <2>5 DEF RangesFit, DirsOf
    <3>3. ResultsFit'
      BY <1>t, <1>l, <2>2 DEF ResultsFit
    <3> QED
      BY <1>s, <3>1, <3>2, <3>3
  <2>6. CASE engine = "builtin"
    <3>0. sandbox' = [sandbox EXCEPT ![c.file].mutants = {}]
      BY <2>6 DEF Mutation!Restored
    <3>1. \A f \in Sources : /\ sandbox'[f].text = sandbox[f].text /\ sandbox'[f] \in SandboxFile
                             /\ sandbox'[f].mutants = IF f = c.file THEN {} ELSE sandbox[f].mutants
      BY <1>t, <3>0 DEF MutationTypes, SandboxFile
    <3>2. sandbox' \in [Sources -> SandboxFile]
      BY <1>t, <3>0, <3>1 DEF MutationTypes
    <3>3. MutationTypes'
      BY <1>t, <2>2, <3>2 DEF MutationTypes
    <3>4. CleanBetween'
      BY <3>1 DEF MutationInv, Mutation!OneMutation, CleanBetween
    <3>5. DirsOf' /\ ResultsFit'
      BY <1>t, <1>l, <2>2, <2>6 DEF DirsOf, ResultsFit
    <3>6. RangesFit'
      <4>1. \A k \in 1 .. Len(candidates) : candidates[k].file \in Sources
        BY <1>t, RangesAreRecords
      <4> QED
        BY <1>t, <3>1, <4>1 DEF RangesFit
    <3> QED
      BY <1>s, <3>3, <3>4, <3>5, <3>6
  <2> QED
    BY <1>t, <2>5, <2>6 DEF MutationTypes
<1>9. ASSUME Mutation!Finish PROVE MutationInv'
  <2> USE <1>9 DEF Mutation!Finish
  <2>1. MutationTypes' /\ CleanBetween'
    BY <1>t, <1>c DEF MutationTypes, CleanBetween
  <2>2. RangesFit' /\ DirsOf' /\ ResultsFit'
    BY <1>t DEF RangesFit, DirsOf, ResultsFit
  <2> QED
    BY <1>s, <2>1, <2>2
<1>10. ASSUME Mutation!CancelRun \/ UNCHANGED mutationVars PROVE MutationInv'
  <2>1. UNCHANGED <<step, engine, disk, candidates, sandbox, running, results, summary, dirs, moved>>
    BY <1>10 DEF Mutation!CancelRun, mutationVars
  <2>2. MutationTypes' /\ CleanBetween' /\ RangesFit' /\ DirsOf' /\ ResultsFit'
    BY <1>t, <2>1 DEF MutationTypes, CleanBetween, RangesFit, DirsOf, ResultsFit
  <2>3. Mutation!OneMutation' /\ Mutation!InPlace'
    BY <2>1 DEF MutationInv, Mutation!OneMutation, Mutation!InPlace
  <2> QED
    BY <2>2, <2>3 DEF MutationInv
<1> QED
  BY <1>1, <1>2, <1>3, <1>4, <1>5, <1>6, <1>7, <1>8, <1>9, <1>10 DEF Mutation!Next
-----------------------------------------------------------------------------
(***************************************************************************)
(* The debug adapter.                                                      *)
(***************************************************************************)
Contexts == {"none", "entry", "aux", "other"}
Steps == [depth : Nat \ {0}, who : Debug!Contracts, line : {0, 1, 2}, op : {"PUSH", "CALL", "CREATE", "RETURN"}, to : Debug!Contracts]

IsWalk(steps, W) == W = [i \in 0 .. Len(steps) |-> IF i = 0 THEN Debug!Before ELSE Debug!After(W[i - 1], steps[i])]
IsOnlyWalk(steps, W) == IsWalk(steps, W) /\ \A V : IsWalk(steps, V) => V = W

(* A context fits a frame if it is its contract's, or none for the entry   *)
(* contract that was called back.                                          *)
Fits(ctx, who, depth) == ctx = Debug!Context(who) \/ (ctx = "none" /\ who = "entry" /\ depth > 1)

(* After the steps tr, the contexts of the walk fit the frames fs that are *)
(* left of those the last step had, and the pending one fits the frame     *)
(* that step entered.                                                      *)
WalkFits(w, fs, tr) ==
  /\ w.stack \in Seq(Contexts) /\ w.callee \in Contexts /\ w.result \in Seq(Contexts)
  /\ Len(w.stack) > 0 /\ Len(w.result) = Len(tr) /\ Len(fs) <= Len(w.stack) + 1
  /\ \A k \in 1 .. Len(w.stack) : k <= Len(fs) => Fits(w.stack[k], fs[k], k)
  /\ Len(fs) = Len(w.stack) + 1 => Fits(w.callee, fs[Len(fs)], Len(fs))
  /\ \A i \in 1 .. Len(tr) : Fits(w.result[i], tr[i].who, tr[i].depth)

TraceIsWalked ==
  \E W : /\ IsOnlyWalk(trace, W) /\ WalkFits(W[Len(trace)], frames, trace)
         /\ loaded => stream = W[Len(trace)].result

DebugTypes ==
  /\ frames \in Seq(Debug!Contracts) /\ Len(frames) <= MaxDepth
  /\ trace \in Seq(Steps) /\ known \subseteq {"entry", "aux"}
  /\ session \in {"running EVM", "launched", "stopped", "terminated"}
  /\ index \in 0 .. Len(trace) /\ loaded \in BOOLEAN /\ casting \in BOOLEAN
  /\ breakpoints \subseteq Debug!Sites

DebugInv ==
  /\ DebugTypes /\ TraceIsWalked
  /\ loaded \/ casting => session # "running EVM"

LEMMA RebuildIsWalk ==
  ASSUME NEW steps, NEW W, IsOnlyWalk(steps, W)
  PROVE  Debug!RebuildContextStream(steps) = W[Len(steps)].result
<1>1. Debug!RebuildContextStream(steps) = (CHOOSE V : IsWalk(steps, V))[Len(steps)].result
  BY DEF Debug!RebuildContextStream, IsWalk
<1>2. (CHOOSE V : IsWalk(steps, V)) = W
  BY DEF IsOnlyWalk
<1> QED
  BY <1>1, <1>2

(* There is one walk of each trace, which goes on from that of the trace   *)
(* without its last step.                                                  *)
LEMMA WalkGoesOn ==
  ASSUME NEW steps \in Seq(Steps), NEW st \in Steps, NEW W, IsOnlyWalk(steps, W)
  PROVE  \E X : IsOnlyWalk(Append(steps, st), X) /\ X[Len(steps) + 1] = Debug!After(W[Len(steps)], st)
<1> DEFINE n == Len(steps)
           more == Append(steps, st)
           X == [i \in 0 .. n + 1 |-> IF i <= n THEN W[i] ELSE Debug!After(W[n], st)]
<1>1. n \in Nat /\ Len(more) = n + 1 /\ more[n + 1] = st /\ \A i \in 1 .. n : more[i] = steps[i]
  <2>1. Len(steps) \in Nat
    BY LenProperties
  <2>2. /\ Len(Append(steps, st)) = Len(steps) + 1 /\ Append(steps, st)[Len(steps) + 1] = st
        /\ \A i \in 1 .. Len(steps) : Append(steps, st)[i] = steps[i]
    BY AppendProperties
  <2> QED
    BY <2>1, <2>2
<1>2. W = [i \in 0 .. n |-> IF i = 0 THEN Debug!Before ELSE Debug!After(W[i - 1], steps[i])]
  BY DEF IsOnlyWalk, IsWalk
<1> HIDE DEF n, more
<1>3. X = [i \in 0 .. n + 1 |-> IF i = 0 THEN Debug!Before ELSE Debug!After(X[i - 1], more[i])]
  <2>1. ASSUME NEW i \in 0 .. n + 1 PROVE X[i] = IF i = 0 THEN Debug!Before ELSE Debug!After(X[i - 1], more[i])
    <3>1. CASE i = 0
      <4>1. W[0] = Debug!Before
        BY <1>1, <1>2
      <4> QED
        BY <1>1, <3>1, <4>1
    <3>2. CASE i \in 1 .. n
      <4>1. i \in 0 .. n /\ i # 0
        BY <1>1, <3>2
      <4>2. W[i] = Debug!After(W[i - 1], steps[i])
        BY <1>2, <4>1
      <4>3. X[i] = W[i] /\ X[i - 1] = W[i - 1] /\ more[i] = steps[i]
        BY <1>1, <3>2
      <4> QED
        BY <4>1, <4>2, <4>3
    <3>3. CASE i = n + 1
      <4>1. X[i] = Debug!After(W[n], st) /\ X[i - 1] = W[n] /\ more[i] = st
        BY <1>1, <3>3
      <4> QED
        BY <1>1, <3>3, <4>1
    <3> QED
      BY <1>1, <3>1, <3>2, <3>3
  <2> QED
    BY <2>1
<1>4. ASSUME NEW V, IsWalk(more, V) PROVE V = X
  <2>1. V = [i \in 0 .. n + 1 |-> IF i = 0 THEN Debug!Before ELSE Debug!After(V[i - 1], more[i])]
    BY <1>1, <1>4 DEF IsWalk
  <2> DEFINE U == [i \in 0 .. n |-> V[i]]
  <2>2. U = [i \in 0 .. n |-> IF i = 0 THEN Debug!Before ELSE Debug!After(U[i - 1], steps[i])]
    <3>1. ASSUME NEW i \in 0 .. n PROVE U[i] = IF i = 0 THEN Debug!Before ELSE Debug!After(U[i - 1], steps[i])
      <4>0. i \in 0 .. n + 1
        BY <1>1
      <4>1. V[i] = IF i = 0 THEN Debug!Before ELSE Debug!After(V[i - 1], more[i])
        BY <2>1, <4>0
      <4>2. i # 0 => U[i - 1] = V[i - 1] /\ more[i] = steps[i]
        BY <1>1
      <4> QED
        BY <4>1, <4>2
    <3> QED
      BY <3>1
  <2>3. U = W
    BY <2>2 DEF IsOnlyWalk, IsWalk, n
  <2>4. V[n + 1] = Debug!After(V[n], st)
    BY <1>1, <2>1
  <2>5. V[n] = W[n] /\ \A i \in 0 .. n : V[i] = W[i]
    BY <1>1, <2>3
  <2>6. \A i \in 0 .. n + 1 : V[i] = X[i]
    BY <1>1, <2>4, <2>5
  <2> HIDE DEF X
  <2>7. X = [i \in 0 .. n + 1 |-> X[i]] /\ V = [i \in 0 .. n + 1 |-> V[i]]
    BY <2>1, <1>3
  <2> QED
    BY <2>6, <2>7
<1>5. X[n + 1] = Debug!After(W[n], st)
  BY <1>1
<1>6. IsOnlyWalk(more, X)
  BY <1>1, <1>3, <1>4 DEF IsOnlyWalk, IsWalk
<1> QED
  BY <1>5, <1>6 DEF n, more

(* Contexts are dropped down to the depth, or the callee's is pushed.      *)
LEMMA DescendFacts ==
  ASSUME NEW stack \in Seq(Contexts), NEW n \in Nat \ {0}, n <= Len(stack) + 1, NEW callee \in Contexts
  PROVE  LET new == Debug!Descend(stack, n, callee)
         IN  /\ new \in Seq(Contexts) /\ Len(new) = n
             /\ \A k \in 1 .. n : new[k] = IF k <= Len(stack) THEN stack[k] ELSE callee
<1> DEFINE new == Debug!Descend(stack, n, callee)
<1>0. Len(stack) \in Nat
  BY LenProperties
<1>1. CASE Len(stack) >= n
  <2>1. new = SubSeq(stack, 1, n)
    BY <1>1 DEF Debug!Descend
  <2>2. \A i \in 1 .. n : stack[i] \in Contexts
    <3>1. \A i \in 1 .. Len(stack) : stack[i] \in Contexts
      BY LenProperties
    <3> QED
      BY <1>0, <1>1, <3>1
  <2>3. /\ SubSeq(stack, 1, n) \in Seq(Contexts) /\ Len(SubSeq(stack, 1, n)) = n
        /\ \A i \in 1 .. n : SubSeq(stack, 1, n)[i] = stack[i]
    <3>1. /\ SubSeq(stack, 1, n) \in Seq(Contexts)
          /\ Len(SubSeq(stack, 1, n)) = IF 1 <= n THEN n - 1 + 1 ELSE 0
          /\ \A i \in 1 .. n - 1 + 1 : SubSeq(stack, 1, n)[i] = stack[1 + i - 1]
      BY <2>2, SubSeqProperties
    <3> QED
      BY <3>1
  <2> QED
    BY <1>0, <1>1, <2>1, <2>3
<1>2. CASE ~(Len(stack) >= n)
  <2> DEFINE one == <<callee>>
             tail == [k \in 1 .. (n - Len(stack)) |-> IF k = 1 THEN callee ELSE "none"]
  <2>1. n - Len(stack) = 1
    BY <1>0, <1>2
  <2>2. tail = one
    <3>1. tail = [k \in 1 .. 1 |-> IF k = 1 THEN callee ELSE "none"]
      BY <2>1
    <3>2. one = [k \in 1 .. 1 |-> callee]
      OBVIOUS
    <3> QED
      BY <3>1, <3>2
  <2>3. new = stack \o one
    BY <1>2, <2>2 DEF Debug!Descend
  <2>4. one \in Seq(Contexts) /\ Len(one) = 1 /\ one[1] = callee
    OBVIOUS
  <2> HIDE DEF one
  <2>5. /\ new \in Seq(Contexts) /\ Len(new) = Len(stack) + 1
        /\ \A k \in 1 .. Len(stack) + 1 : new[k] = IF k <= Len(stack) THEN stack[k] ELSE one[k - Len(stack)]
    <3>1. /\ stack \o one \in Seq(Contexts) /\ Len(stack \o one) = Len(stack) + Len(one)
          /\ \A k \in 1 .. Len(stack) + Len(one) :
               (stack \o one)[k] = IF k <= Len(stack) THEN stack[k] ELSE one[k - Len(stack)]
      BY <2>4, ConcatProperties
    <3> QED
      BY <2>3, <2>4, <3>1
  <2> QED
    BY <1>0, <2>1, <2>4, <2>5
<1> QED
  BY <1>1, <1>2

(* One more step: its own context is the top of the stack cut to its depth *)
(* or pushed, which fits the contract that executes it.                    *)
LEMMA WalkStep ==
  ASSUME known \subseteq {"entry", "aux"},
         NEW fs \in Seq(Debug!Contracts), NEW tr \in Seq(Steps), NEW st \in Steps, NEW w, WalkFits(w, fs, tr),
         Len(fs) > 0, st.depth = Len(fs), st.who = fs[Len(fs)],
         NEW gs \in Seq(Debug!Contracts),
         \/ Len(gs) <= Len(fs) /\ \A k \in 1 .. Len(gs) : gs[k] = fs[k]
         \/ /\ Len(gs) = Len(fs) + 1 /\ \A k \in 1 .. Len(fs) : gs[k] = fs[k]
            /\ \/ st.op = "CALL" /\ gs[Len(gs)] = st.to
               \/ st.op = "CREATE" /\ gs[Len(gs)] = "other"
  PROVE  WalkFits(Debug!After(w, st), gs, Append(tr, st))
<1> DEFINE n == Len(fs)
           new == Debug!Descend(w.stack, n, w.callee)
           callee == Debug!Pending(st, w.callee, n > Len(w.stack))
           after == Debug!After(w, st)
           result == Append(w.result, new[n])
<1>0. n \in Nat /\ n > 0 /\ Len(w.stack) \in Nat /\ Len(tr) \in Nat /\ Len(gs) \in Nat /\ w.callee \in Contexts
      /\ n <= Len(w.stack) + 1 /\ n \in Nat \ {0} /\ w.stack \in Seq(Contexts)
  BY LenProperties DEF WalkFits
<1>1. /\ new \in Seq(Contexts) /\ Len(new) = n
      /\ \A k \in 1 .. n : new[k] = IF k <= Len(w.stack) THEN w.stack[k] ELSE w.callee
  <2> HIDE DEF n
  <2> QED
    BY <1>0, DescendFacts
<1>2. \A k \in 1 .. n : Fits(new[k], fs[k], k)
  <2> SUFFICES ASSUME NEW k \in 1 .. n PROVE Fits(new[k], fs[k], k)
    OBVIOUS
  <2>1. CASE k <= Len(w.stack)
    BY <1>0, <1>1, <2>1 DEF WalkFits
  <2>2. CASE ~(k <= Len(w.stack))
    <3>1. k = n /\ n = Len(w.stack) + 1
      BY <1>0, <2>2
    <3>2. new[k] = w.callee
      BY <1>0, <1>1, <2>2
    <3> QED
      BY <3>1, <3>2 DEF WalkFits
  <2> QED
    BY <2>1, <2>2
<1>3. new[n] \in Contexts /\ Fits(new[n], st.who, st.depth)
  <2>1. \A k \in 1 .. Len(new) : new[k] \in Contexts
    BY <1>1, LenProperties
  <2> QED
    BY <1>0, <1>1, <1>2, <2>1
<1>4. after.stack = new /\ after.callee = callee /\ after.result = result
  <2>1. st.depth = n /\ Debug!Last(new) = new[n]
    BY <1>1 DEF Debug!Last
  <2> HIDE DEF new
  <2> QED
    BY <2>1 DEF Debug!After, new
<1>5. callee \in Contexts
  BY <1>0 DEF Debug!Pending, Debug!Callee, Debug!Context, Contexts, Steps, Debug!Contracts
<1>6. /\ result \in Seq(Contexts) /\ Len(result) = Len(tr) + 1
      /\ Len(Append(tr, st)) = Len(tr) + 1
      /\ \A i \in 1 .. Len(tr) + 1 : Fits(result[i], Append(tr, st)[i].who, Append(tr, st)[i].depth)
  <2>1. w.result \in Seq(Contexts) /\ Len(w.result) = Len(tr)
        /\ \A i \in 1 .. Len(tr) : Fits(w.result[i], tr[i].who, tr[i].depth)
    BY DEF WalkFits
  <2> HIDE DEF new
  <2>2. /\ result \in Seq(Contexts) /\ Len(result) = Len(w.result) + 1
        /\ \A i \in 1 .. Len(w.result) : result[i] = w.result[i]
        /\ result[Len(w.result) + 1] = new[n]
    BY <1>3, <2>1, AppendProperties
  <2>3. /\ Len(Append(tr, st)) = Len(tr) + 1 /\ Append(tr, st)[Len(tr) + 1] = st
        /\ \A i \in 1 .. Len(tr) : Append(tr, st)[i] = tr[i]
    BY AppendProperties
  <2> HIDE DEF result
  <2> QED
    BY <1>0, <1>3, <2>1, <2>2, <2>3
<1>7. Len(gs) = n + 1 => Fits(callee, gs[Len(gs)], Len(gs))
  <2> SUFFICES ASSUME Len(gs) = n + 1 PROVE Fits(callee, gs[Len(gs)], Len(gs))
    OBVIOUS
  <2>1. Len(gs) > 1
    BY <1>0
  <2>2. CASE st.op = "CALL" /\ gs[Len(gs)] = st.to
    <3>1. callee = Debug!Callee(st.to)
      BY <2>2 DEF Debug!Pending
    <3> QED
      BY <2>1, <2>2, <3>1 DEF Fits, Debug!Callee
  <2>3. CASE st.op = "CREATE" /\ gs[Len(gs)] = "other"
    <3>1. callee = "none" /\ Debug!Context("other") = "none"
      BY <2>3 DEF Debug!Pending, Debug!Context
    <3> QED
      BY <2>3, <3>1 DEF Fits
  <2> QED
    BY <1>0, <2>2, <2>3
<1>8. \A k \in 1 .. n : k <= Len(gs) => Fits(new[k], gs[k], k)
  BY <1>0, <1>2
<1> HIDE DEF n, new, callee, after, result
<1> QED
  BY <1>0, <1>1, <1>4, <1>5, <1>6, <1>7, <1>8 DEF WalkFits, n, after

LEMMA OneIsASequence ==
  ASSUME NEW S, NEW c \in S
  PROVE  <<c>> \in Seq(S) /\ Len(<<c>>) = 1 /\ <<c>>[1] = c
OBVIOUS

LEMMA DebugInit == Debug!Init => DebugInv
<1> SUFFICES ASSUME Debug!Init PROVE DebugInv
  OBVIOUS
<1>0. /\ frames = <<"entry">> /\ trace = <<>> /\ session = "running EVM"
      /\ casting = FALSE /\ known \subseteq {"entry", "aux"}
      /\ index = 0 /\ loaded = FALSE /\ breakpoints = {}
  BY DEF Debug!Init
<1>1. /\ frames \in Seq(Debug!Contracts) /\ Len(frames) = 1 /\ frames[1] = "entry"
      /\ trace \in Seq(Steps) /\ Len(trace) = 0
  <2>1. "entry" \in Debug!Contracts
    BY DEF Debug!Contracts
  <2>2. frames \in Seq(Debug!Contracts) /\ Len(frames) = 1 /\ frames[1] = "entry"
    BY <1>0, <2>1, OneIsASequence
  <2>3. trace \in Seq(Steps) /\ Len(trace) = 0
    <3>1. <<>> \in Seq(Steps) /\ Len(<<>>) = 0
      BY EmptySeq
    <3> QED
      BY <1>0, <3>1
  <2> QED
    BY <2>2, <2>3
<1>2. DebugTypes
  <2>1. 0 \in 0 .. Len(trace) /\ Len(frames) <= MaxDepth
    BY <1>1, PartsAssumption
  <2> QED
    BY <1>0, <1>1, <2>1 DEF DebugTypes
<1>3. TraceIsWalked
  <2>1. 0 .. Len(trace) = {0}
    BY <1>1
  <2> DEFINE W == [i \in {0} |-> Debug!Before]
  <2>2. \A V : IsWalk(trace, V) <=> V = W
    BY <2>1 DEF IsWalk
  <2>3. WalkFits(Debug!Before, frames, trace)
    <3>1. /\ Debug!Before.stack = <<Debug!Context("entry")>> /\ Debug!Before.callee = "none"
          /\ Debug!Before.result = <<>>
      BY DEF Debug!Before
    <3>2. Debug!Context("entry") \in Contexts
      BY DEF Debug!Context, Contexts
    <3>3. /\ Debug!Before.stack \in Seq(Contexts) /\ Len(Debug!Before.stack) = 1
          /\ Debug!Before.stack[1] = Debug!Context("entry")
      BY <3>1, <3>2, OneIsASequence
    <3>4. Debug!Before.result \in Seq(Contexts) /\ Len(Debug!Before.result) = 0
      BY <3>1
    <3> QED
      BY <1>1, <3>1, <3>3, <3>4 DEF WalkFits, Fits, Contexts
  <2>4. W[Len(trace)] = Debug!Before
    BY <1>1
  <2> HIDE DEF W
  <2> QED
    BY <1>0, <2>2, <2>3, <2>4 DEF TraceIsWalked, IsOnlyWalk
<1> QED
  BY <1>0, <1>2, <1>3 DEF DebugInv

(* What the EVM records, whatever the frames become. *)
LEMMA RecordFacts ==
  ASSUME DebugInv, NEW op \in {"PUSH", "CALL", "CREATE", "RETURN"}, NEW to \in Debug!Contracts,
         NEW line \in {0, 1, 2}, Debug!Record(op, to, line),
         frames' \in Seq(Debug!Contracts), Len(frames') <= MaxDepth,
         \/ Len(frames') <= Len(frames) /\ \A k \in 1 .. Len(frames') : frames'[k] = frames[k]
         \/ /\ Len(frames') = Len(frames) + 1 /\ \A k \in 1 .. Len(frames) : frames'[k] = frames[k]
            /\ \/ op = "CALL" /\ frames'[Len(frames')] = to
               \/ op = "CREATE" /\ frames'[Len(frames')] = "other"
  PROVE  DebugInv'
<1> DEFINE st == [depth |-> Len(frames), who |-> Debug!Last(frames), line |-> line, op |-> op, to |-> to]
<1>1. /\ session = "running EVM" /\ frames # <<>> /\ trace' = Append(trace, st)
      /\ UNCHANGED <<session, index, loaded, stream, casting, known, breakpoints>>
  BY DEF Debug!Record
<1>2. frames \in Seq(Debug!Contracts) /\ trace \in Seq(Steps) /\ known \subseteq {"entry", "aux"}
      /\ ~loaded /\ ~casting /\ index \in 0 .. Len(trace)
  BY <1>1 DEF DebugInv, DebugTypes
<1>3. Len(frames) \in Nat /\ Len(frames) > 0 /\ frames[Len(frames)] \in Debug!Contracts /\ Len(trace) \in Nat
  <2>1. Len(frames) \in Nat /\ Len(trace) \in Nat /\ \A k \in 1 .. Len(frames) : frames[k] \in Debug!Contracts
    BY <1>2, LenProperties
  <2>2. Len(frames) # 0
    BY <1>1, <1>2, EmptySeq
  <2> QED
    BY <2>1, <2>2
<1>4. st \in Steps /\ st.depth = Len(frames) /\ st.who = frames[Len(frames)] /\ st.op = op /\ st.to = to
  BY <1>3 DEF Steps, Debug!Last
<1> HIDE DEF st
<1>5. Append(trace, st) \in Seq(Steps) /\ Len(Append(trace, st)) = Len(trace) + 1
  BY <1>2, <1>4, AppendProperties
<1>6. PICK W : IsOnlyWalk(trace, W) /\ WalkFits(W[Len(trace)], frames, trace)
  BY DEF DebugInv, TraceIsWalked
<1>7. PICK X : IsOnlyWalk(Append(trace, st), X) /\ X[Len(trace) + 1] = Debug!After(W[Len(trace)], st)
  BY <1>2, <1>4, <1>6, WalkGoesOn
<1>8. WalkFits(Debug!After(W[Len(trace)], st), frames', Append(trace, st))
  BY <1>2, <1>3, <1>4, <1>6, WalkStep
<1>9. TraceIsWalked'
  <2>1. \A U : IsOnlyWalk(Append(trace, st), U) => IsOnlyWalk(trace, U)'
    <3>1. Debug!Before' = Debug!Before
      BY <1>1 DEF Debug!Before, Debug!Context
    <3>2. \A w, s : Debug!After(w, s)' = Debug!After(w, s)
      BY <1>1 DEF Debug!After, Debug!Descend, Debug!Pending, Debug!Callee, Debug!Context
    <3> QED
      BY <1>1, <3>1, <3>2 DEF IsOnlyWalk, IsWalk
  <2>2. \A w : WalkFits(w, frames', Append(trace, st)) => WalkFits(w, frames, trace)'
    BY <1>1 DEF WalkFits, Fits, Debug!Context
  <2> QED
    BY <1>1, <1>2, <1>5, <1>7, <1>8, <2>1, <2>2 DEF TraceIsWalked
<1>10. DebugTypes'
  <2>1. trace' \in Seq(Steps) /\ index' \in 0 .. Len(trace')
    <3>1. trace' \in Seq(Steps) /\ Len(trace') = Len(trace) + 1 /\ index' = index
      BY <1>1, <1>5
    <3> QED
      BY <1>2, <1>3, <3>1
  <2> QED
    BY <1>1, <2>1 DEF DebugInv, DebugTypes
<1> QED
  BY <1>1, <1>2, <1>9, <1>10 DEF DebugInv

(* The opcode a walk stops at is ahead, and none of those it looks for is  *)
(* before it.                                                              *)
LEMMA FirstOfFacts ==
  ASSUME DebugTypes, NEW hits \in SUBSET Debug!Ahead
  PROVE  Debug!FirstOf(hits) \in 0 .. Len(trace) /\ \A i \in hits : ~(i < Debug!FirstOf(hits))
<1>1. Len(trace) \in Nat /\ index \in 0 .. Len(trace)
  BY LenProperties DEF DebugTypes
<1>2. hits \subseteq Nat /\ \A i \in hits : i \in 0 .. Len(trace)
  BY <1>1 DEF Debug!Ahead
<1>3. CASE hits = {}
  BY <1>1, <1>3 DEF Debug!FirstOf
<1>4. CASE hits # {}
  <2>1. \E x \in hits : \A y \in hits : ~(<<y, x>> \in OpToRel(<, Nat))
    BY <1>2, <1>4, NatLessThanWellFounded, WFMin
  <2>2. PICK x \in hits : \A y \in hits : ~(<<y, x>> \in OpToRel(<, Nat))
    BY <2>1
  <2>3. \A y \in hits : x =< y
    <3>1. \A y \in hits : <<y, x>> \in OpToRel(<, Nat) <=> y < x
      BY <1>2 DEF OpToRel
    <3>2. \A y \in hits : ~(y < x)
      BY Zenon, <2>2, <3>1
    <3> QED
      BY <1>2, <3>2
  <2>4. Debug!Min(hits) \in hits /\ \A y \in hits : Debug!Min(hits) =< y
    BY <2>3 DEF Debug!Min
  <2>5. Debug!FirstOf(hits) = Debug!Min(hits)
    BY <1>4 DEF Debug!FirstOf
  <2>6. Debug!Min(hits) \in 0 .. Len(trace)
    BY <1>2, <2>4
  <2>7. \A y \in hits : ~(y < Debug!Min(hits))
    <3> DEFINE m == Debug!Min(hits)
    <3>1. m \in Nat /\ \A y \in hits : y \in Nat /\ m =< y
      BY <1>2, <2>4
    <3> HIDE DEF m
    <3>2. \A y \in hits : ~(y < m)
      BY <3>1
    <3> QED
      BY <3>2 DEF m
  <2> QED
    BY <2>5, <2>6, <2>7
<1> QED
  BY <1>3, <1>4

(* What leaves the trace alone leaves its walk alone. *)
LEMMA SameWalk ==
  ASSUME DebugInv, UNCHANGED <<frames, trace, known>>, DebugTypes',
         loaded' \/ casting' => session' # "running EVM",
         loaded' => (loaded /\ stream' = stream) \/ stream' = Debug!RebuildContextStream(trace)
  PROVE  DebugInv'
<1>1. Debug!Before' = Debug!Before
  BY DEF Debug!Before, Debug!Context
<1>2. \A w, s : Debug!After(w, s)' = Debug!After(w, s)
  BY DEF Debug!After, Debug!Descend, Debug!Pending, Debug!Callee, Debug!Context
<1>3. \A W : IsOnlyWalk(trace, W) => IsOnlyWalk(trace, W)'
  BY <1>1, <1>2 DEF IsOnlyWalk, IsWalk
<1>4. \A w : WalkFits(w, frames, trace) => WalkFits(w, frames, trace)'
  BY DEF WalkFits, Fits, Debug!Context
<1>5. PICK W : /\ IsOnlyWalk(trace, W) /\ WalkFits(W[Len(trace)], frames, trace)
               /\ loaded => stream = W[Len(trace)].result
  BY DEF DebugInv, TraceIsWalked
<1>6. Debug!RebuildContextStream(trace) = W[Len(trace)].result
  BY <1>5, RebuildIsWalk
<1>7. TraceIsWalked'
  BY <1>3, <1>4, <1>5, <1>6 DEF TraceIsWalked
<1> QED
  BY <1>7 DEF DebugInv

LEMMA DebugNext == DebugInv /\ [Debug!Next]_debugVars => DebugInv'
<1> SUFFICES ASSUME DebugInv, [Debug!Next]_debugVars PROVE DebugInv'
  OBVIOUS
<1>t. /\ DebugTypes /\ frames \in Seq(Debug!Contracts) /\ trace \in Seq(Steps)
      /\ index \in 0 .. Len(trace) /\ Len(frames) <= MaxDepth /\ MaxDepth \in Nat
  BY PartsAssumption DEF DebugInv, DebugTypes
<1>l. /\ Len(trace) \in Nat /\ Len(frames) \in Nat
      /\ \A k \in 1 .. Len(frames) : frames[k] \in Debug!Contracts
  BY <1>t, LenProperties
<1>o. "other" \in Debug!Contracts
  BY DEF Debug!Contracts
<1>1. CASE Debug!EvmOpcode
  <2>1. PICK line \in {0, 1, 2} : Debug!Record("PUSH", "other", line) /\ frames' = frames
    BY <1>1 DEF Debug!EvmOpcode, Debug!Lines
  <2>2. /\ frames' \in Seq(Debug!Contracts) /\ Len(frames') <= MaxDepth /\ Len(frames') <= Len(frames)
        /\ \A k \in 1 .. Len(frames') : frames'[k] = frames[k]
    BY <1>t, <1>l, <2>1
  <2> QED
    BY <1>o, <2>1, <2>2, RecordFacts
<1>2. CASE Debug!EvmCall
  <2>1. PICK to \in Debug!Contracts :
          /\ Debug!Record("CALL", to, 1)
          /\ frames' = frames \/ (Len(frames) < MaxDepth /\ frames' = Append(frames, to))
    BY <1>2 DEF Debug!EvmCall
  <2>2. CASE frames' = frames
    <3>1. /\ frames' \in Seq(Debug!Contracts) /\ Len(frames') <= MaxDepth /\ Len(frames') <= Len(frames)
          /\ \A k \in 1 .. Len(frames') : frames'[k] = frames[k]
      BY <1>t, <1>l, <2>2
    <3> QED
      BY <2>1, <3>1, RecordFacts
  <2>3. CASE Len(frames) < MaxDepth /\ frames' = Append(frames, to)
    <3>1. /\ Append(frames, to) \in Seq(Debug!Contracts) /\ Len(Append(frames, to)) = Len(frames) + 1
          /\ Append(frames, to)[Len(frames) + 1] = to
          /\ \A k \in 1 .. Len(frames) : Append(frames, to)[k] = frames[k]
      BY <1>t, AppendProperties
    <3>2. /\ frames' \in Seq(Debug!Contracts) /\ Len(frames') = Len(frames) + 1 /\ frames'[Len(frames')] = to
          /\ Len(frames') <= MaxDepth /\ \A k \in 1 .. Len(frames) : frames'[k] = frames[k]
      BY <1>t, <1>l, <2>3, <3>1
    <3> QED
      BY <2>1, <3>2, RecordFacts
  <2> QED
    BY <2>1, <2>2, <2>3
<1>3. CASE Debug!EvmCreate
  <2>1. Debug!Record("CREATE", "other", 1) /\ Len(frames) < MaxDepth /\ frames' = Append(frames, "other")
    BY <1>3 DEF Debug!EvmCreate
  <2>2. /\ Append(frames, "other") \in Seq(Debug!Contracts) /\ Len(Append(frames, "other")) = Len(frames) + 1
        /\ Append(frames, "other")[Len(frames) + 1] = "other"
        /\ \A k \in 1 .. Len(frames) : Append(frames, "other")[k] = frames[k]
    BY <1>t, <1>o, AppendProperties
  <2>3. /\ frames' \in Seq(Debug!Contracts) /\ Len(frames') = Len(frames) + 1 /\ frames'[Len(frames')] = "other"
        /\ Len(frames') <= MaxDepth /\ \A k \in 1 .. Len(frames) : frames'[k] = frames[k]
    BY <1>t, <1>l, <2>1, <2>2
  <2> QED
    BY <1>o, <2>1, <2>3, RecordFacts
<1>4. CASE Debug!EvmReturn
  <2> DEFINE n == Len(frames) - 1
             less == SubSeq(frames, 1, n)
  <2>1. Debug!Record("RETURN", "other", 1) /\ frames' = less
    BY <1>4 DEF Debug!EvmReturn, Debug!Front
  <2>2. n \in Nat
    <3>1. frames # <<>>
      BY <2>1 DEF Debug!Record
    <3>2. Len(frames) # 0
      BY <1>t, <3>1, EmptySeq
    <3> QED
      BY <1>l, <3>2
  <2> HIDE DEF n
  <2>3. less \in Seq(Debug!Contracts) /\ Len(less) = n /\ \A k \in 1 .. n : less[k] = frames[k]
    <3>1. \A k \in 1 .. n : frames[k] \in Debug!Contracts
      BY <1>l, <2>2 DEF n
    <3>2. /\ less \in Seq(Debug!Contracts)
          /\ Len(less) = IF 1 <= n THEN n - 1 + 1 ELSE 0
          /\ \A k \in 1 .. n - 1 + 1 : less[k] = frames[1 + k - 1]
      BY <2>2, <3>1, SubSeqProperties
    <3> HIDE DEF less
    <3> QED
      BY <2>2, <3>2
  <2>4. /\ frames' \in Seq(Debug!Contracts) /\ Len(frames') <= MaxDepth /\ Len(frames') <= Len(frames)
        /\ \A k \in 1 .. Len(frames') : frames'[k] = frames[k]
    <3> HIDE DEF less
    <3> QED
      BY <1>t, <1>l, <2>1, <2>2, <2>3 DEF n
  <2> QED
    BY <1>o, <2>1, <2>4, RecordFacts
<1>5. CASE Debug!LaunchFile \/ Debug!LaunchNothing \/ Debug!LaunchHash \/ Debug!Fetched \/ Debug!Terminate \/ Debug!SetBreakpoints
  <2> USE <1>5 DEF Debug!LaunchFile, Debug!LaunchNothing, Debug!LaunchHash, Debug!Fetched, Debug!Terminate,
               Debug!SetBreakpoints, Debug!launchVars
  <2>1. DebugTypes'
    BY <1>t DEF DebugTypes
  <2>2. UNCHANGED <<frames, trace, known>> /\ (loaded' \/ casting' => session' # "running EVM")
    BY DEF DebugInv
  <2>3. loaded' => (loaded /\ stream' = stream) \/ stream' = Debug!RebuildContextStream(trace)
    OBVIOUS
  <2> QED
    BY <2>1, <2>2, <2>3, SameWalk
<1>6. CASE Debug!Continue \/ Debug!Step \/ Debug!StepOut
  <2> USE <1>6 DEF Debug!Continue, Debug!Step, Debug!StepOut, Debug!launchVars
  <2>1. \A S \in SUBSET Debug!Ahead : Debug!FirstOf(S) \in 0 .. Len(trace)
    BY <1>t, FirstOfFacts
  <2>2. UNCHANGED <<frames, trace, loaded, stream, casting, known, breakpoints>>
        /\ session' \in {"stopped", "terminated"}
    BY DEF Debug!Arrive, Debug!NoCursor
  <2>3. index' \in 0 .. Len(trace)
    <3>1. CASE UNCHANGED index
      BY <1>t, <3>1 DEF DebugTypes
    <3>2. CASE \E S \in SUBSET Debug!Ahead : index' = Debug!FirstOf(S)
      BY <2>1, <3>2
    <3>3. CASE index' = IF index < Len(trace) THEN index + 1 ELSE index
      BY <1>t, <1>l, <3>3
    <3> QED
      BY <3>1, <3>2, <3>3 DEF Debug!Arrive, Debug!NoCursor
  <2>4. DebugTypes'
    BY <1>t, <2>2, <2>3 DEF DebugTypes
  <2> QED
    BY <2>2, <2>4, SameWalk DEF DebugInv
<1>7. CASE UNCHANGED debugVars
  <2>1. DebugTypes'
    BY <1>t, <1>7 DEF debugVars, DebugTypes
  <2> QED
    BY <1>7, <2>1, SameWalk DEF DebugInv, debugVars
<1> QED
  BY <1>1, <1>2, <1>3, <1>4, <1>5, <1>6, <1>7 DEF Debug!Next

LEMMA ContextsFit == DebugInv => Debug!TypeOK /\ Debug!ContextIsRight
<1> SUFFICES ASSUME DebugInv PROVE Debug!TypeOK /\ Debug!ContextIsRight
  OBVIOUS
<1>1. PICK W : /\ IsOnlyWalk(trace, W) /\ WalkFits(W[Len(trace)], frames, trace)
               /\ loaded => stream = W[Len(trace)].result
  BY DEF DebugInv, TraceIsWalked
<1>2. loaded => Len(stream) = Len(trace) /\ \A i \in 1 .. Len(trace) : Fits(stream[i], trace[i].who, trace[i].depth)
  BY <1>1 DEF WalkFits
<1>3. DOMAIN trace = 1 .. Len(trace)
  BY LenProperties DEF DebugInv, DebugTypes
<1>4. Debug!ContextIsRight
  BY <1>2, <1>3 DEF Debug!ContextIsRight, Fits
<1>5. {loaded, casting} \subseteq BOOLEAN
  BY DEF DebugInv, DebugTypes
<1>6. Debug!TypeOK
  BY <1>2, <1>5 DEF DebugInv, DebugTypes, Debug!TypeOK
<1> QED
  BY <1>4, <1>6

(* What stops at the first opcode of those it looks for passes none of     *)
(* them.                                                                   *)
LEMMA BreakpointsHold ==
  DebugInv /\ [Debug!Next]_debugVars =>
    Debug!StepOut \/ \A i \in index + 1 .. index' - 1 : ~Debug!MatchesBreakpoint(i)
<1> SUFFICES ASSUME DebugInv, [Debug!Next]_debugVars, ~Debug!StepOut,
                    NEW i \in index + 1 .. index' - 1
             PROVE  ~Debug!MatchesBreakpoint(i)
  OBVIOUS
<1>1. DebugTypes /\ index \in Nat /\ Len(trace) \in Nat /\ index <= Len(trace) /\ breakpoints \subseteq Debug!Sites
  <2>1. DebugTypes /\ trace \in Seq(Steps) /\ index \in 0 .. Len(trace) /\ breakpoints \subseteq Debug!Sites
    BY DEF DebugInv, DebugTypes
  <2>2. Len(trace) \in Nat
    BY <2>1, LenProperties
  <2> QED
    BY <2>1, <2>2
<1>2. index' # index
  BY <1>1
<1>3. (Debug!Continue \/ Debug!Step) /\ loaded
  BY <1>2 DEF Debug!Next, debugVars, Debug!EvmOpcode, Debug!EvmCall, Debug!EvmCreate, Debug!EvmReturn, Debug!Record,
     Debug!LaunchFile, Debug!LaunchNothing, Debug!LaunchHash, Debug!Fetched, Debug!SetBreakpoints, Debug!Terminate,
     Debug!Continue, Debug!Step, Debug!NoCursor
<1>4. ASSUME NEW hits \in SUBSET Debug!Ahead, index' = Debug!FirstOf(hits),
             \A j \in Debug!Ahead : Debug!MatchesBreakpoint(j) => j \in hits
      PROVE  ~Debug!MatchesBreakpoint(i)
  <2> DEFINE m == Debug!FirstOf(hits)
  <2>1. m \in 0 .. Len(trace) /\ \A j \in hits : ~(j < m)
    BY <1>1, FirstOfFacts
  <2> HIDE DEF m
  <2>2. index' = m
    BY <1>4 DEF m
  <2>3. i \in Debug!Ahead /\ i < m
    BY <1>1, <2>1, <2>2 DEF Debug!Ahead
  <2> QED
    BY <1>4, <2>1, <2>3
<1>5. CASE Debug!Continue
  <2> DEFINE hits == {j \in Debug!Ahead : Debug!MatchesBreakpoint(j)}
  <2>1. index' = Debug!FirstOf(hits)
    BY <1>2, <1>3, <1>5 DEF Debug!Continue, Debug!Arrive, Debug!NoCursor
  <2> QED
    BY <1>4, <2>1
<1>6. CASE Debug!Step
  <2> DEFINE hits == {j \in Debug!Ahead : /\ Debug!LineAt(j) # Debug!Nowhere
                                          /\ Debug!MatchesBreakpoint(j) \/ Debug!LineAt(j) # Debug!LineAt(index)}
  <2>1. CASE known = {}
    <3>1. index' = IF index < Len(trace) THEN index + 1 ELSE index
      BY <1>3, <1>6, <2>1 DEF Debug!Step, Debug!Arrive, Debug!NoCursor
    <3> QED
      BY <1>1, <3>1
  <2>2. CASE known # {}
    <3>1. index' = Debug!FirstOf(hits)
      BY <1>2, <1>3, <1>6, <2>2 DEF Debug!Step, Debug!Arrive, Debug!NoCursor
    <3>2. \A j : Debug!MatchesBreakpoint(j) => Debug!LineAt(j) # Debug!Nowhere
      BY <1>1 DEF Debug!MatchesBreakpoint, Debug!Nowhere, Debug!Sites
    <3> QED
      BY <1>4, <3>1, <3>2
  <2> QED
    BY <2>1, <2>2
<1> QED
  BY <1>3, <1>5, <1>6

LEMMA DebugMoves == PartsSpec => Debug!Init /\ [][Debug!Next]_debugVars
<1>1. PartsInit => Debug!Init
  BY DEF PartsInit
<1>2. [PartsNext]_allVars => [Debug!Next]_debugVars
  BY DEF PartsNext, allVars
<1> QED
  BY <1>1, <1>2, PTL DEF PartsSpec

(* The contract the debugger names for a frame is that frame's, at every   *)
(* step of every trace (rebuildContextStream of dap-adapter.ts), but for   *)
(* the entry contract when it is called back.                              *)
THEOREM ContextsAreRight == PartsSpec => []ContextIsRight
<1>1. DebugInv => ContextIsRight
  BY ContextsFit DEF ContextIsRight
<1> QED
  BY <1>1, DebugInit, DebugNext, DebugMoves, PTL

(* However far Continue or Step moves the cursor of the trace, it passes   *)
(* no opcode on a line with a breakpoint.                                  *)
THEOREM BreakpointsAreReached == PartsSpec => NoBreakpointPassed
<1>1. DebugInv /\ [Debug!Next]_debugVars =>
        [Debug!StepOut \/ \A i \in index + 1 .. index' - 1 : ~Debug!MatchesBreakpoint(i)]_Debug!vars
  BY BreakpointsHold
<1> QED
  BY <1>1, DebugInit, DebugNext, DebugMoves, PTL DEF NoBreakpointPassed, Debug!NoBreakpointPassed
-----------------------------------------------------------------------------
(***************************************************************************)
(* The test explorer.                                                      *)
(***************************************************************************)
Verdicts == {"none", "started", "passed", "failed", "skipped", "broken"}
ExplorerTests == Explorer!Tests
ExplorerItems == Explorer!Items
Answers == [listed : BOOLEAN, tests : SUBSET ExplorerTests]

ExplorerTypes ==
  /\ file \in SUBSET ExplorerTests /\ parsed \in SUBSET ExplorerTests
  /\ edits \in 0 .. MaxEdits /\ asked \in Nat
  /\ asked + (IF debounce THEN 1 ELSE 0) <= edits + (IF client THEN 1 ELSE 0)
  /\ answers \in Seq(Answers) /\ tree \in SUBSET ExplorerItems
  /\ queue \in Seq(ExplorerItems) /\ current \in ExplorerItems \cup {<<>>}
  /\ verdict \in [ExplorerItems -> Verdicts]

(* What the server holds is the file, unless it has still to read it; the  *)
(* last answer, or the tree when all have come, is what the server holds,  *)
(* or nothing when it was a failure.                                       *)
Answered(a) == a.tests = IF a.listed THEN parsed ELSE {}

LastAnswerIsCurrent ==
  /\ ~reparse => parsed = file
  /\ client /\ ~debounce /\ asked = 0 /\ ~late =>
       IF answers = <<>> THEN tree = IF unlisted THEN {} ELSE Explorer!ItemsOf(parsed)
       ELSE Answered(answers[Len(answers)])

ExplorerInv == ExplorerTypes /\ LastAnswerIsCurrent /\ Explorer!StartedIsReported

(* A test is a contract and a name, an item a contract or a test. *)
LEMMA ItemFacts ==
  /\ ExplorerTests \subseteq ExplorerItems /\ <<>> \notin ExplorerItems
  /\ \A t \in ExplorerTests : /\ Len(t) = 2 /\ t = <<t[1], t[2]>> /\ t[1] \in TestContracts /\ t[2] \in TestNames
                              /\ <<t[1]>> \in ExplorerItems
  /\ \A i \in ExplorerItems : i \in ExplorerTests \/ (Len(i) = 1 /\ i[1] \in TestContracts /\ i = <<i[1]>>)
  /\ \A S \in SUBSET ExplorerTests : Explorer!ItemsOf(S) \in SUBSET ExplorerItems
<1>1. ExplorerTests \subseteq ExplorerItems
  BY DEF ExplorerTests, ExplorerItems, Explorer!Items
<1>2. \A i \in ExplorerItems : i \in ExplorerTests \/ \E c \in TestContracts : i = <<c>>
  BY DEF ExplorerTests, ExplorerItems, Explorer!Items
<1>3. \A t \in ExplorerTests : \E c \in TestContracts, n \in TestNames : t = <<c, n>>
  BY DEF ExplorerTests, Explorer!Tests
<1>4. \A t \in ExplorerTests : /\ Len(t) = 2 /\ t = <<t[1], t[2]>> /\ t[1] \in TestContracts /\ t[2] \in TestNames
  BY <1>3
<1>5. \A c \in TestContracts : <<c>> \in ExplorerItems
  BY DEF ExplorerItems, Explorer!Items
<1>6. \A i \in ExplorerItems : i \in ExplorerTests \/ (Len(i) = 1 /\ i[1] \in TestContracts /\ i = <<i[1]>>)
  BY <1>2
<1>7. <<>> \notin ExplorerItems
  BY <1>4, <1>6
<1>8. \A S \in SUBSET ExplorerTests : Explorer!ItemsOf(S) \in SUBSET ExplorerItems
  BY <1>1, <1>4, <1>5 DEF Explorer!ItemsOf
<1> QED
  BY <1>1, <1>4, <1>5, <1>6, <1>7, <1>8

LEMMA ExplorerInit == Explorer!Init => ExplorerInv
<1> SUFFICES ASSUME Explorer!Init PROVE ExplorerInv
  OBVIOUS
<1>0. /\ file \in Contents /\ parsed = file /\ reparse = FALSE /\ client = FALSE /\ debounce = FALSE /\ asked = 0
      /\ answers = <<>> /\ tree = {} /\ edits = 0 /\ queue = <<>> /\ current = <<>>
      /\ verdict = [i \in ExplorerItems |-> "none"]
  BY DEF Explorer!Init, ExplorerItems
<1>1. file \in SUBSET ExplorerTests
  BY <1>0, PartsAssumption DEF ExplorerTests, Explorer!Tests
<1>2. ExplorerTypes
  <2>1. answers \in Seq(Answers) /\ queue \in Seq(ExplorerItems)
    BY <1>0, EmptySeq
  <2> QED
    BY <1>0, <1>1, <2>1, PartsAssumption DEF ExplorerTypes, Verdicts
<1>3. LastAnswerIsCurrent
  BY <1>0 DEF LastAnswerIsCurrent
<1>4. Explorer!StartedIsReported
  BY <1>0 DEF Explorer!StartedIsReported, ExplorerItems
<1> QED
  BY <1>2, <1>3, <1>4 DEF ExplorerInv

(* A report leaves no item started on which it has a result, and changes   *)
(* nothing else but to passed or failed.                                   *)
LEMMA ReportFacts ==
  ASSUME ExplorerTypes, NEW item \in ExplorerItems, NEW reported \in Seq(ExplorerTests)
  PROVE  LET new == Explorer!Report(item, reported)
         IN  /\ new \in [ExplorerItems -> Verdicts]
             /\ \A i \in ExplorerItems :
                  \/ new[i] = verdict[i]
                  \/ \E k \in 1 .. Len(reported) : /\ Explorer!ReportedOn(item, reported[k]) = i
                                                  /\ new[i] = Explorer!Outcome(reported[k])
             /\ Len(reported) > 0 =>
                  new[Explorer!ReportedOn(item, reported[Len(reported)])] \in {"passed", "failed"}
<1> DEFINE lastOn(i) == {k \in DOMAIN reported :
                           /\ Explorer!ReportedOn(item, reported[k]) = i
                           /\ \A j \in k + 1 .. Len(reported) : Explorer!ReportedOn(item, reported[j]) # i}
           new == Explorer!Report(item, reported)
<1>1. new = [i \in ExplorerItems |-> IF lastOn(i) = {} THEN verdict[i]
                                     ELSE Explorer!Outcome(reported[CHOOSE k \in lastOn(i) : TRUE])]
  BY DEF Explorer!Report, ExplorerItems
<1>2. DOMAIN reported = 1 .. Len(reported) /\ Len(reported) \in Nat
  BY LenProperties
<1>3. ASSUME NEW i \in ExplorerItems
      PROVE  \/ lastOn(i) = {} /\ new[i] = verdict[i]
             \/ \E k \in 1 .. Len(reported) : /\ Explorer!ReportedOn(item, reported[k]) = i
                                             /\ new[i] = Explorer!Outcome(reported[k])
  <2>1. CASE lastOn(i) = {}
    BY <1>1, <2>1
  <2>2. CASE lastOn(i) # {}
    <3> DEFINE k == CHOOSE k \in lastOn(i) : TRUE
    <3>1. k \in lastOn(i)
      BY <2>2
    <3>2. new[i] = Explorer!Outcome(reported[k])
      BY <1>1, <2>2
    <3>3. k \in 1 .. Len(reported) /\ Explorer!ReportedOn(item, reported[k]) = i
      BY <1>2, <3>1
    <3> HIDE DEF k, new
    <3> QED
      BY <3>2, <3>3
  <2> QED
    BY <2>1, <2>2
<1>4. \A t : Explorer!Outcome(t) \in {"passed", "failed"}
  BY DEF Explorer!Outcome
<1>5. \A t : Explorer!ReportedOn(item, t) \in ExplorerItems
  BY DEF Explorer!ReportedOn, ExplorerTypes
<1>6. Len(reported) > 0 => lastOn(Explorer!ReportedOn(item, reported[Len(reported)])) # {}
  BY <1>2
<1> HIDE DEF lastOn, new
<1>7. new \in [ExplorerItems -> Verdicts]
  <2>1. \A i \in ExplorerItems : new[i] \in Verdicts
    BY <1>3, <1>4 DEF ExplorerTypes, Verdicts
  <2> QED
    BY <1>1, <2>1
<1>8. Len(reported) > 0 => new[Explorer!ReportedOn(item, reported[Len(reported)])] \in {"passed", "failed"}
  BY <1>3, <1>4, <1>5, <1>6
<1> QED
  BY <1>3, <1>7, <1>8 DEF new

LEMMA SameCardinality == \A S : Explorer!Cardinality(S) = Cardinality(S)
BY DEF Explorer!Cardinality, Cardinality

LEMMA OrderFacts ==
  ASSUME NEW S, NEW f \in Explorer!SetToSeqs(S)
  PROVE  f \in [1 .. Cardinality(S) -> S]
BY SameCardinality DEF Explorer!SetToSeqs

LEMMA TailFacts ==
  ASSUME NEW S, NEW s \in Seq(S), s # <<>>
  PROVE  /\ Len(s) \in Nat /\ Len(s) > 0 /\ Head(s) = s[1] /\ Head(s) \in S
         /\ Tail(s) \in Seq(S) /\ Len(Tail(s)) = Len(s) - 1
         /\ \A k \in 1 .. Len(s) - 1 : Tail(s)[k] = s[k + 1]
<1>1. Len(s) \in Nat /\ s \in [1 .. Len(s) -> S]
  BY LenProperties
<1>2. Len(s) # 0
  BY EmptySeq
<1>3. Head(s) = s[1] /\ Head(s) \in S /\ Tail(s) \in Seq(S)
  BY HeadTailProperties
<1>4. Len(Tail(s)) = Len(s) - 1 /\ \A k \in 1 .. Len(Tail(s)) : Tail(s)[k] = s[k + 1]
  BY HeadTailProperties
<1> QED
  BY <1>1, <1>2, <1>3, <1>4

(* The results of a suite are of tests that forge ran, and there is one. *)
LEMMA SuiteFacts ==
  ASSUME ExplorerTypes, NEW item, NEW c, NEW reported \in Explorer!SetToSeqs({t \in Explorer!Selected(item) : t[1] = c}),
         c \in {t[1] : t \in Explorer!Selected(item)}
  PROVE  /\ reported \in Seq(ExplorerTests) /\ Len(reported) > 0
         /\ \A k \in 1 .. Len(reported) : reported[k] \in ExplorerTests /\ reported[k] \in Explorer!Selected(item)
<1> DEFINE suite == {t \in Explorer!Selected(item) : t[1] = c}
<1>1. suite \in SUBSET ExplorerTests /\ suite # {} /\ suite \subseteq Explorer!Selected(item)
  BY DEF Explorer!Selected, ExplorerTypes
<1>2. Cardinality(suite) \in Nat /\ Cardinality(suite) # 0
  <2>1. IsFiniteSet(ExplorerTests)
    BY FS_Product, PartsAssumption DEF ExplorerTests, Explorer!Tests
  <2>2. IsFiniteSet(suite)
    BY <1>1, <2>1, FS_Subset
  <2> QED
    BY <1>1, <2>2, FS_EmptySet, FS_CardinalityType
<1>3. reported \in [1 .. Cardinality(suite) -> suite]
  BY OrderFacts
<1> HIDE DEF suite
<1>4. reported \in [1 .. Cardinality(suite) -> ExplorerTests]
  BY <1>1, <1>3
<1>5. reported \in Seq(ExplorerTests)
  BY <1>2, <1>4, SeqDef
<1>6. Len(reported) = Cardinality(suite)
  BY <1>2, <1>4, <1>5, LenProperties
<1>7. \A k \in 1 .. Len(reported) : reported[k] \in ExplorerTests /\ reported[k] \in Explorer!Selected(item)
  BY <1>1, <1>3, <1>6
<1> QED
  BY <1>2, <1>5, <1>6, <1>7

LEMMA DiscoveryNext ==
  ASSUME ExplorerInv,
         Explorer!FileChanges \/ Explorer!ServerParses \/ Explorer!DebounceFires \/ Explorer!SetLanguageClient
           \/ Explorer!ListTests \/ Explorer!ListTestsFails \/ Explorer!Discovered
  PROVE  ExplorerInv'
<1> USE PartsAssumption DEF Explorer!runVars
<1>t. ExplorerTypes /\ LastAnswerIsCurrent
  BY DEF ExplorerInv
<1>s. Explorer!StartedIsReported'
  BY DEF ExplorerInv, Explorer!StartedIsReported, Explorer!FileChanges, Explorer!ServerParses, Explorer!DebounceFires,
     Explorer!SetLanguageClient, Explorer!ListTests, Explorer!ListTestsFails, Explorer!Discovered
<1>1. CASE Explorer!FileChanges
  <2>1. file' \in SUBSET ExplorerTests
    BY <1>1 DEF Explorer!FileChanges, ExplorerTests, Explorer!Tests
  <2>2. ExplorerTypes'
    BY <1>t, <1>1, <2>1 DEF Explorer!FileChanges, ExplorerTypes
  <2>3. LastAnswerIsCurrent'
    BY <1>1 DEF Explorer!FileChanges, LastAnswerIsCurrent, Answered
  <2> QED
    BY <1>s, <2>2, <2>3 DEF ExplorerInv
<1>2. CASE Explorer!ServerParses
  <2>1. ExplorerTypes'
    BY <1>t, <1>2 DEF Explorer!ServerParses, ExplorerTypes
  <2>2. LastAnswerIsCurrent'
    BY <1>t, <1>2 DEF Explorer!ServerParses, ExplorerTypes, LastAnswerIsCurrent, Answered
  <2> QED
    BY <1>s, <2>1, <2>2 DEF ExplorerInv
<1>3. CASE Explorer!DebounceFires \/ Explorer!SetLanguageClient
  <2> USE <1>3 DEF Explorer!DebounceFires, Explorer!SetLanguageClient, Explorer!Discover
  <2>1. ExplorerTypes'
    BY <1>t DEF ExplorerTypes
  <2>2. LastAnswerIsCurrent'
    BY <1>t DEF ExplorerTypes, LastAnswerIsCurrent
  <2> QED
    BY <1>s, <2>1, <2>2 DEF ExplorerInv
<1>4. CASE Explorer!ListTests \/ Explorer!ListTestsFails
  <2>1. PICK ok \in BOOLEAN :
          /\ UNCHANGED <<file, parsed, reparse, client, debounce, tree, unlisted, late, edits, queue, current, verdict>>
          /\ asked > 0 /\ asked' = asked - 1
          /\ answers' = Append(answers, [listed |-> ok, tests |-> IF ok THEN parsed ELSE {}])
    BY <1>4 DEF Explorer!ListTests, Explorer!ListTestsFails
  <2> DEFINE new == [listed |-> ok, tests |-> IF ok THEN parsed ELSE {}]
  <2>2. answers \in Seq(Answers) /\ new \in Answers
    BY <1>t DEF ExplorerTypes, Answers
  <2>3. new.tests = IF new.listed THEN parsed ELSE {}
    OBVIOUS
  <2>4. answers' = Append(answers, new)
    BY <2>1
  <2> HIDE DEF new
  <2>5. /\ answers' \in Seq(Answers) /\ answers' # <<>> /\ Len(answers') = Len(answers) + 1
        /\ answers'[Len(answers) + 1] = new
    BY <2>2, <2>4, AppendProperties
  <2>6. ExplorerTypes'
    BY <1>t, <2>1, <2>5 DEF ExplorerTypes
  <2>7. LastAnswerIsCurrent'
    BY <1>t, <2>1, <2>3, <2>5 DEF LastAnswerIsCurrent, Answered
  <2> QED
    BY <1>s, <2>6, <2>7 DEF ExplorerInv
<1>5. CASE Explorer!Discovered
  <2>1. /\ UNCHANGED <<file, parsed, reparse, client, debounce, asked, late, edits, queue, current, verdict>>
        /\ answers # <<>> /\ answers' = Tail(answers) /\ tree' = Explorer!ItemsOf(Head(answers).tests)
        /\ unlisted' = ~Head(answers).listed
    BY <1>5 DEF Explorer!Discovered, Explorer!Diff
  <2>2. answers \in Seq(Answers)
    BY <1>t DEF ExplorerTypes
  <2>3. /\ Len(answers) \in Nat /\ Len(answers) > 0 /\ Head(answers) = answers[1]
        /\ Head(answers) \in Answers
        /\ answers' \in Seq(Answers) /\ Len(answers') = Len(answers) - 1
        /\ \A k \in 1 .. Len(answers) - 1 : answers'[k] = answers[k + 1]
    BY <2>1, <2>2, TailFacts
  <2>4. tree' \in SUBSET ExplorerItems
    <3>1. Head(answers).tests \in SUBSET ExplorerTests
      BY <2>3 DEF Answers
    <3> QED
      BY <2>1, <3>1, ItemFacts
  <2>5. ExplorerTypes'
    BY <1>t, <2>1, <2>3, <2>4 DEF ExplorerTypes
  <2>6. answers' = <<>> => Len(answers) = 1
    BY <2>3, EmptySeq
  <2>7. answers' # <<>> => answers'[Len(answers')] = answers[Len(answers)]
    <3>1. answers' # <<>> => Len(answers') # 0
      BY <2>3, EmptySeq
    <3> QED
      BY <2>3, <3>1
  <2>8. Answered(Head(answers)) => tree' = IF unlisted' THEN {} ELSE Explorer!ItemsOf(parsed)
    BY <2>1 DEF Answered, Explorer!ItemsOf
  <2>9. client /\ ~debounce /\ asked = 0 /\ ~late => Answered(answers[Len(answers)])
    BY <1>t, <2>1 DEF LastAnswerIsCurrent
  <2>10. LastAnswerIsCurrent'
    <3>1. ~reparse' => parsed' = file'
      BY <1>t, <2>1 DEF LastAnswerIsCurrent
    <3>2. ASSUME client', ~debounce', asked' = 0, ~late', answers' = <<>>
          PROVE  tree' = IF unlisted' THEN {} ELSE Explorer!ItemsOf(parsed)'
      <4>1. Answered(Head(answers))
        BY <2>1, <2>3, <2>6, <2>9, <3>2
      <4> QED
        BY <2>1, <2>8, <4>1 DEF Explorer!ItemsOf
    <3>3. ASSUME client', ~debounce', asked' = 0, ~late', answers' # <<>>
          PROVE  Answered(answers[Len(answers)])'
      BY <2>1, <2>7, <2>9, <3>3 DEF Answered
    <3> QED
      BY <3>1, <3>2, <3>3 DEF LastAnswerIsCurrent
  <2> QED
    BY <1>s, <2>5, <2>10 DEF ExplorerInv
<1> QED
  BY <1>1, <1>2, <1>3, <1>4, <1>5

LEMMA RunNext ==
  ASSUME ExplorerInv, Explorer!RunTests \/ Explorer!Cancel \/ Explorer!StartItem \/ Explorer!ForgeEnds
  PROVE  ExplorerInv'
<1> USE PartsAssumption
<1>t. ExplorerTypes /\ LastAnswerIsCurrent /\ Explorer!StartedIsReported /\ queue \in Seq(ExplorerItems)
  BY DEF ExplorerInv, ExplorerTypes
<1>u. UNCHANGED <<file, parsed, reparse, client, debounce, asked, answers, tree, unlisted, late, edits>>
  BY DEF Explorer!RunTests, Explorer!Cancel, Explorer!StartItem, Explorer!ForgeEnds, Explorer!discoverVars
<1>a. LastAnswerIsCurrent'
  BY <1>t, <1>u DEF LastAnswerIsCurrent, Answered
<1>q. ASSUME queue' \in Seq(ExplorerItems), current' \in ExplorerItems \cup {<<>>},
             verdict' \in [ExplorerItems -> Verdicts], Explorer!StartedIsReported'
      PROVE  ExplorerInv'
  BY <1>t, <1>u, <1>a, <1>q DEF ExplorerInv, ExplorerTypes
<1>1. CASE Explorer!RunTests
  <2>1. /\ current' = current /\ verdict' = [i \in ExplorerItems |-> "none"]
    BY <1>1 DEF Explorer!RunTests, ExplorerItems
  <2>2. queue' \in Seq(ExplorerItems)
    <3>1. PICK S \in SUBSET tree : Cardinality(S) \in {1, 2} /\ queue' \in Explorer!SetToSeqs(S)
      BY <1>1, SameCardinality DEF Explorer!RunTests
    <3>2. S \in SUBSET ExplorerItems /\ Cardinality(S) \in Nat
      BY <1>t, <3>1 DEF ExplorerTypes
    <3>3. queue' \in [1 .. Cardinality(S) -> S]
      BY <3>1, OrderFacts
    <3>4. queue' \in [1 .. Cardinality(S) -> ExplorerItems]
      BY <3>2, <3>3
    <3> QED
      BY <3>2, <3>4, SeqDef
  <2>3. Explorer!StartedIsReported'
    BY <2>1 DEF Explorer!StartedIsReported, ExplorerItems
  <2>4. verdict' \in [ExplorerItems -> Verdicts]
    BY <2>1 DEF Verdicts
  <2>5. current' \in ExplorerItems \cup {<<>>}
    BY <1>t, <2>1 DEF ExplorerTypes
  <2> QED
    BY <1>q, <2>2, <2>3, <2>4, <2>5
<1>2. CASE Explorer!Cancel
  <2>1. UNCHANGED <<queue, current, verdict>>
    BY <1>2 DEF Explorer!Cancel
  <2>2. Explorer!StartedIsReported'
    BY <1>t, <2>1 DEF Explorer!StartedIsReported
  <2> QED
    BY <1>q, <1>t, <2>1, <2>2 DEF ExplorerTypes
<1>3. CASE Explorer!StartItem
  <2>1. CASE cancelled
    <3>1. queue' = <<>> /\ UNCHANGED <<current, verdict>>
      BY <1>3, <2>1 DEF Explorer!StartItem
    <3>2. queue' \in Seq(ExplorerItems)
      BY <3>1, EmptySeq
    <3>3. Explorer!StartedIsReported'
      BY <1>t, <3>1 DEF Explorer!StartedIsReported
    <3> QED
      BY <1>q, <1>t, <3>1, <3>2, <3>3 DEF ExplorerTypes
  <2>2. CASE ~cancelled
    <3>1. /\ queue # <<>> /\ current = <<>> /\ current' = Head(queue) /\ queue' = Tail(queue)
          /\ verdict' = [verdict EXCEPT ![Head(queue)] = "started"]
      BY <1>3, <2>2 DEF Explorer!StartItem
    <3>2. Head(queue) \in ExplorerItems /\ queue' \in Seq(ExplorerItems)
      BY <1>t, <3>1, TailFacts
    <3>3. verdict' \in [ExplorerItems -> Verdicts]
      BY <1>t, <3>1 DEF ExplorerTypes, Verdicts
    <3>4. Explorer!StartedIsReported'
      <4>1. \A i \in ExplorerItems : verdict'[i] = IF i = Head(queue) THEN "started" ELSE verdict[i]
        BY <1>t, <3>1, <3>2 DEF ExplorerTypes
      <4>2. ExplorerTests \subseteq ExplorerItems /\ current \notin ExplorerItems
        BY <3>1, ItemFacts
      <4> QED
        BY <1>t, <3>1, <4>1, <4>2 DEF Explorer!StartedIsReported, ExplorerItems, ExplorerTests
    <3> QED
      BY <1>q, <3>1, <3>2, <3>3, <3>4
  <2> QED
    BY <2>1, <2>2
<1>4. CASE Explorer!ForgeEnds
  <2>1. current # <<>> /\ current' = <<>> /\ queue' = queue /\ current \in ExplorerItems
    BY <1>t, <1>4 DEF Explorer!ForgeEnds, ExplorerTypes
  <2>2. ASSUME NEW s \in {"broken", "skipped"}, verdict' = [verdict EXCEPT ![current] = s]
        PROVE  ExplorerInv'
    <3>1. verdict' \in [ExplorerItems -> Verdicts]
      BY <1>t, <2>2 DEF ExplorerTypes, Verdicts
    <3>2. \A i \in ExplorerItems : verdict'[i] = IF i = current THEN s ELSE verdict[i]
      BY <1>t, <2>2 DEF ExplorerTypes
    <3>3. ExplorerTests \subseteq ExplorerItems /\ s # "started" /\ s # "none"
      BY ItemFacts
    <3>4. Explorer!StartedIsReported'
      BY <1>t, <2>1, <3>2, <3>3 DEF Explorer!StartedIsReported, ExplorerItems, ExplorerTests
    <3> QED
      BY <1>q, <1>t, <2>1, <3>1, <3>4
  <2>3. ASSUME NEW c, NEW reported \in Explorer!SetToSeqs({t \in Explorer!Selected(current) : t[1] = c}),
               c \in {t[1] : t \in Explorer!Selected(current)}, verdict' = Explorer!Report(current, reported)
        PROVE  ExplorerInv'
    <3>1. reported \in Seq(ExplorerTests) /\ Len(reported) > 0
      BY <1>t, <2>3, SuiteFacts
    <3>7. /\ verdict' \in [ExplorerItems -> Verdicts]
          /\ \A i \in ExplorerItems :
                  \/ verdict'[i] = verdict[i]
                  \/ \E k \in 1 .. Len(reported) : /\ Explorer!ReportedOn(current, reported[k]) = i
                                                   /\ verdict'[i] = Explorer!Outcome(reported[k])
          /\ verdict'[Explorer!ReportedOn(current, reported[Len(reported)])] \in {"passed", "failed"}
      BY <1>t, <2>1, <2>3, <3>1, ReportFacts
    <3>8. \A i \in ExplorerItems : verdict'[i] = verdict[i] \/ verdict'[i] \in {"passed", "failed"}
      BY <3>7 DEF Explorer!Outcome
    <3>9. verdict'[current] = "started" => \E t \in ExplorerTests : Len(current) = 1 /\ t[1] = current[1] /\ verdict'[t] # "none"
      <4> DEFINE last == reported[Len(reported)]
                 child == Explorer!ReportedOn(current, last)
      <4>1. ASSUME verdict'[current] = "started" PROVE child # current /\ verdict'[child] # "none"
        BY <3>7, <4>1
      <4>2. ASSUME child # current PROVE Len(current) = 1 /\ child = <<current[1], last[2]>> /\ child \in ExplorerItems
        BY <1>t, <4>2 DEF Explorer!ReportedOn, ExplorerTypes
      <4>3. ASSUME child = <<current[1], last[2]>>, child \in ExplorerItems PROVE child \in ExplorerTests /\ child[1] = current[1]
        <5>1. Len(child) = 2 /\ child[1] = current[1]
          BY <4>3
        <5> HIDE DEF child
        <5> QED
          BY <4>3, <5>1, ItemFacts
      <4> QED
        BY <4>1, <4>2, <4>3
    <3>10. Explorer!StartedIsReported'
      <4>1. ExplorerTests \subseteq ExplorerItems
        BY ItemFacts
      <4> QED
        BY <1>t, <2>1, <3>8, <3>9, <4>1 DEF Explorer!StartedIsReported, ExplorerItems, ExplorerTests
    <3> QED
      BY <1>q, <1>t, <2>1, <3>7, <3>10
  <2> QED
    BY <1>4, <2>2, <2>3 DEF Explorer!ForgeEnds, Explorer!NothingReported
<1> QED
  BY <1>1, <1>2, <1>3, <1>4

LEMMA ExplorerNext == ExplorerInv /\ [Explorer!Next]_explorerVars => ExplorerInv'
<1> SUFFICES ASSUME ExplorerInv, UNCHANGED explorerVars PROVE ExplorerInv'
  BY DiscoveryNext, RunNext DEF Explorer!Next
<1>1. ExplorerTypes' /\ LastAnswerIsCurrent'
  BY DEF ExplorerInv, ExplorerTypes, LastAnswerIsCurrent, Answered, explorerVars
<1>2. Explorer!StartedIsReported'
  BY DEF ExplorerInv, Explorer!StartedIsReported, explorerVars
<1> QED
  BY <1>1, <1>2 DEF ExplorerInv

LEMMA TestsReported == ExplorerInv => Explorer!TypeOK /\ Explorer!TestsAreReported
<1> SUFFICES ASSUME ExplorerInv PROVE Explorer!TypeOK /\ Explorer!TestsAreReported
  OBVIOUS
<1>1. Explorer!TreeIsCurrent
  BY DEF ExplorerInv, LastAnswerIsCurrent, Explorer!TreeIsCurrent
<1>2. asked \in 0 .. (MaxEdits + 1)
  BY PartsAssumption DEF ExplorerInv, ExplorerTypes
<1>3. Explorer!Range(queue) \subseteq Explorer!Items
  <2>1. queue \in [1 .. Len(queue) -> ExplorerItems]
    BY LenProperties DEF ExplorerInv, ExplorerTypes
  <2> QED
    BY <2>1 DEF Explorer!Range, ExplorerItems
<1>4. Explorer!TypeOK
  BY <1>2, <1>3 DEF ExplorerInv, ExplorerTypes, Explorer!TypeOK, ExplorerTests, ExplorerItems, Verdicts
<1> QED
  BY <1>1, <1>4 DEF ExplorerInv, Explorer!TestsAreReported

(* A result on a test that no other name contains is of that test. *)
LEMMA OwnResult ==
  ASSUME ExplorerTypes, NEW item \in ExplorerItems, NEW t \in file, Explorer!Alone(t),
         NEW r \in Explorer!Selected(item), Explorer!ReportedOn(item, r) = t
  PROVE  r = t
<1>1. t \in ExplorerTests /\ r \in ExplorerTests /\ r \in file
  BY DEF ExplorerTypes, Explorer!Selected
<1>2. Len(t) = 2 /\ t = <<t[1], t[2]>> /\ r = <<r[1], r[2]>>
  BY <1>1, ItemFacts
<1>3. CASE Len(item) = 1 /\ t = <<item[1], r[2]>>
  <2>1. t[1] = item[1] /\ t[2] = r[2]
    BY <1>3
  <2>2. r[1] = t[1]
    BY <1>1, <2>1 DEF Explorer!Selected, Explorer!Alone
  <2> QED
    BY <1>2, <2>1, <2>2
<1>4. CASE t = item
  BY <1>1, <1>2, <1>4 DEF Explorer!Selected, Explorer!Alone
<1> QED
  BY <1>3, <1>4 DEF Explorer!ReportedOn

LEMMA VerdictsOwn ==
  ExplorerInv /\ [Explorer!Next]_explorerVars =>
    \A t \in file : Explorer!Alone(t) /\ verdict'[t] # verdict[t] /\ verdict'[t] \in {"passed", "failed"}
                    => verdict'[t] = Explorer!Outcome(t)
<1> SUFFICES ASSUME ExplorerInv, [Explorer!Next]_explorerVars, NEW t \in file, Explorer!Alone(t),
                    verdict'[t] # verdict[t], verdict'[t] \in {"passed", "failed"}
             PROVE  verdict'[t] = Explorer!Outcome(t)
  OBVIOUS
<1>t. ExplorerTypes /\ t \in ExplorerItems /\ queue \in Seq(ExplorerItems)
  BY ItemFacts DEF ExplorerInv, ExplorerTypes
<1>1. Explorer!RunTests \/ Explorer!StartItem \/ Explorer!ForgeEnds
  BY DEF Explorer!Next, explorerVars, Explorer!FileChanges, Explorer!ServerParses, Explorer!DebounceFires,
     Explorer!SetLanguageClient, Explorer!ListTests, Explorer!ListTestsFails, Explorer!Discovered, Explorer!runVars,
     Explorer!Cancel
<1>2. CASE Explorer!RunTests
  <2>1. verdict' = [i \in ExplorerItems |-> "none"]
    BY <1>2 DEF Explorer!RunTests, ExplorerItems
  <2> QED
    BY <1>t, <2>1
<1>3. CASE Explorer!StartItem
  <2>1. verdict' = verdict \/ verdict' = [verdict EXCEPT ![Head(queue)] = "started"]
    BY <1>3 DEF Explorer!StartItem
  <2> QED
    BY <1>t, <2>1 DEF ExplorerTypes
<1>4. CASE Explorer!ForgeEnds
  <2>1. current \in ExplorerItems
    BY <1>t, <1>4 DEF Explorer!ForgeEnds, ExplorerTypes
  <2>2. ~\E s \in {"broken", "skipped"} : verdict' = [verdict EXCEPT ![current] = s]
    BY <1>t DEF ExplorerTypes
  <2>3. PICK c \in {x[1] : x \in Explorer!Selected(current)} :
          \E reported \in Explorer!SetToSeqs({x \in Explorer!Selected(current) : x[1] = c}) :
            verdict' = Explorer!Report(current, reported)
    BY <1>4, <2>2 DEF Explorer!ForgeEnds, Explorer!NothingReported
  <2>4. PICK reported \in Explorer!SetToSeqs({x \in Explorer!Selected(current) : x[1] = c}) :
          verdict' = Explorer!Report(current, reported)
    BY <2>3
  <2>5. /\ reported \in Seq(ExplorerTests)
        /\ \A k \in 1 .. Len(reported) : reported[k] \in Explorer!Selected(current)
    BY <1>t, SuiteFacts
  <2>6. \E k \in 1 .. Len(reported) : /\ Explorer!ReportedOn(current, reported[k]) = t
                                      /\ verdict'[t] = Explorer!Outcome(reported[k])
    BY <1>t, <2>1, <2>4, <2>5, ReportFacts
  <2> QED
    BY <1>t, <2>1, <2>5, <2>6, OwnResult
<1> QED
  BY <1>1, <1>2, <1>3, <1>4

LEMMA ExplorerMoves == PartsSpec => Explorer!Init /\ [][Explorer!Next]_explorerVars
<1>1. PartsInit => Explorer!Init
  BY DEF PartsInit
<1>2. [PartsNext]_allVars => [Explorer!Next]_explorerVars
  BY DEF PartsNext, allVars
<1> QED
  BY <1>1, <1>2, PTL DEF PartsSpec

(* At rest the tree has the tests of the text, or none when the last       *)
(* listing failed, and every item a run marked as started got an end       *)
(* (discoverAllTests, runTests), but for the exceptions TestExplorer       *)
(* states.                                                                 *)
THEOREM TestsStayReported == PartsSpec => []TestsAreReported
<1>1. ExplorerInv => TestsAreReported
  BY TestsReported DEF TestsAreReported
<1> QED
  BY <1>1, ExplorerInit, ExplorerNext, ExplorerMoves, PTL

(* A test whose name and contract no other's contain is shown as passed or *)
(* failed only as it passed or failed itself (reportResults).              *)
THEOREM VerdictsAreOwn == PartsSpec => VerdictIsItsOwn
<1>1. ExplorerInv /\ [Explorer!Next]_explorerVars =>
        [\A t \in file : /\ Explorer!Alone(t) /\ verdict'[t] # verdict[t]
                         /\ verdict'[t] \in {"passed", "failed"}
                         => verdict'[t] = Explorer!Outcome(t)]_Explorer!vars
  BY VerdictsOwn
<1> QED
  BY <1>1, ExplorerInit, ExplorerNext, ExplorerMoves, PTL DEF VerdictIsItsOwn, Explorer!VerdictIsItsOwn

-----------------------------------------------------------------------------
(***************************************************************************)
(* The symbol tables.                                                      *)
(***************************************************************************)
\* The symbols, and the entries, that the present trees put in.
Declared(s) == s.filePath \in symbolFiles /\ s \in SymbolsOf(s.filePath, cache[s.filePath])
Occurs(e, n) == e[1] \in symbolFiles /\ <<n, e[2]>> \in cache[e[1]].uses

TreesOK ==
  /\ cache \in [Files -> Trees \cup {NoTree}]
  /\ symbolFiles \subseteq Files
  /\ \A f \in symbolFiles : cache[f] \in Trees

ByFile ==
  /\ symbolsByFile \in [Files -> SUBSET Symbols]
  /\ \A f \in Files : symbolsByFile[f] = IF f \in symbolFiles THEN SymbolsOf(f, cache[f]) ELSE {}

ByName ==
  /\ symbolsByName \in [Names -> SUBSET Symbols]
  /\ \A n \in Names, s \in Symbols : s \in symbolsByName[n] <=> s.name = n /\ Declared(s)

UsesByFile ==
  /\ fileSymbols \in [Files -> SUBSET Names]
  /\ \A f \in Files : fileSymbols[f] = IF f \in symbolFiles THEN UsedIn(cache[f]) ELSE {}

Uses ==
  /\ occurrences \in [Names -> SUBSET Entries]
  /\ \A n \in Names, e \in Entries : e \in occurrences[n] <=> Occurs(e, n)

Contracts == contractsByName \in [Names -> Files \cup {NoFile}] /\ ContractsFollow

Searchable ==
  /\ names \subseteq Names
  /\ \A n \in Names : n \in names <=> symbolsByName[n] # {}
  /\ postings = Postings(names)

TablesInv == TreesOK /\ ByFile /\ ByName /\ UsesByFile /\ Uses /\ Contracts /\ Searchable
-----------------------------------------------------------------------------
\* What the loops over a cache push.
LEMMA SymbolFacts ==
  ASSUME NEW f \in Files, NEW t \in Trees
  PROVE  /\ SymbolsOf(f, t) \subseteq Symbols
         /\ \A s \in Symbols : s \in SymbolsOf(f, t) <=>
              /\ s.filePath = f
              /\ \/ s.kind = "contract" /\ s.name \in t.contracts
                 \/ s.kind = "other" /\ s.name \in t.others
<1>1. t.contracts \subseteq Names /\ t.others \subseteq Names
  BY TableAssumption DEF TableAssumption
<1> QED
  BY <1>1 DEF SymbolsOf, Symbols

LEMMA UseFacts ==
  ASSUME NEW f \in Files, NEW t \in Trees, NEW n \in Names
  PROVE  /\ EntriesOf(f, t, n) \subseteq Entries
         /\ UsedIn(t) \subseteq Names
         /\ \A e \in Entries : e \in EntriesOf(f, t, n) <=> e[1] = f /\ <<n, e[2]>> \in t.uses
         /\ n \in UsedIn(t) <=> \E p \in Positions : <<n, p>> \in t.uses
<1>1. t.uses \subseteq Names \X Positions
  BY TableAssumption DEF TableAssumption
<1>2. \A u \in t.uses : u[1] \in Names /\ u[2] \in Positions /\ u = <<u[1], u[2]>>
  BY <1>1
<1>3. EntriesOf(f, t, n) \subseteq Entries
  BY <1>2 DEF EntriesOf, Entries
<1>4. UsedIn(t) \subseteq Names
  BY <1>2 DEF UsedIn
<1>5. ASSUME NEW e \in Entries PROVE e \in EntriesOf(f, t, n) <=> e[1] = f /\ <<n, e[2]>> \in t.uses
  <2>1. e = <<e[1], e[2]>> /\ e[2] \in Positions
    BY DEF Entries
  <2>2. ASSUME e \in EntriesOf(f, t, n) PROVE e[1] = f /\ <<n, e[2]>> \in t.uses
    <3>1. PICK u \in t.uses : u[1] = n /\ e = <<f, u[2]>>
      BY <2>2 DEF EntriesOf
    <3> QED
      BY <3>1, <1>2
  <2>3. ASSUME e[1] = f, <<n, e[2]>> \in t.uses PROVE e \in EntriesOf(f, t, n)
    BY <2>1, <2>3 DEF EntriesOf
  <2> QED
    BY <2>2, <2>3
<1>6. n \in UsedIn(t) <=> \E p \in Positions : <<n, p>> \in t.uses
  BY <1>2 DEF UsedIn
<1> QED
  BY <1>3, <1>4, <1>5, <1>6

\* removeFileSymbols takes out the symbols of f, all of them and no others.
LEMMA WithoutFacts ==
  ASSUME TablesInv, NEW f \in Files, NEW n \in Names
  PROVE  /\ Without(f)[n] \subseteq Symbols
         /\ \A s \in Symbols : s \in Without(f)[n] <=> s.name = n /\ Declared(s) /\ s.filePath # f
<1>1. Without(f)[n] = IF \E s \in symbolsByFile[f] : s.name = n
                      THEN {s \in symbolsByName[n] : s.filePath # f} ELSE symbolsByName[n]
  BY DEF Without
<1>2. symbolsByName[n] \subseteq Symbols
  BY DEF TablesInv, ByName
<1>3. ASSUME NEW s \in symbolsByName[n], s.filePath = f PROVE s \in symbolsByFile[f] /\ s.name = n
  BY <1>2, <1>3 DEF TablesInv, ByName, ByFile, Declared
<1>4. Without(f)[n] = {s \in symbolsByName[n] : s.filePath # f}
  BY <1>1, <1>3
<1> QED
  BY <1>2, <1>4 DEF TablesInv, ByName

\* ReferenceIndex.removeFile takes out the entries of f.
LEMMA OccurrenceFacts ==
  ASSUME TablesInv, NEW f \in Files, NEW n \in Names
  PROVE  LET others == IF n \in fileSymbols[f] THEN {e \in occurrences[n] : e[1] # f} ELSE occurrences[n]
         IN  /\ others \subseteq Entries
             /\ \A e \in Entries : e \in others <=> Occurs(e, n) /\ e[1] # f
<1> DEFINE others == IF n \in fileSymbols[f] THEN {e \in occurrences[n] : e[1] # f} ELSE occurrences[n]
<1>1. occurrences[n] \subseteq Entries
  BY DEF TablesInv, Uses
<1>2. ASSUME NEW e \in occurrences[n], e[1] = f PROVE n \in fileSymbols[f]
  <2>1. f \in symbolFiles /\ <<n, e[2]>> \in cache[f].uses /\ cache[f] \in Trees /\ e[2] \in Positions
    BY <1>1, <1>2 DEF TablesInv, Uses, Occurs, TreesOK, Entries
  <2>2. n \in UsedIn(cache[f])
    BY <2>1, UseFacts
  <2> QED
    BY <2>1, <2>2 DEF TablesInv, UsesByFile
<1>3. others = {e \in occurrences[n] : e[1] # f}
  BY <1>2
<1>4. others \subseteq Entries /\ \A e \in Entries : e \in others <=> Occurs(e, n) /\ e[1] # f
  BY <1>1, <1>3 DEF TablesInv, Uses
<1> QED
  BY <1>4

\* The names that leave the trigram index: nobody declares them but f.
LEMMA GoneFacts ==
  ASSUME TablesInv, NEW f \in Files
  PROVE  \A n \in Names : n \in names \ Gone(f) <=> Without(f)[n] # {}
<1> SUFFICES ASSUME NEW n \in Names PROVE n \in names \ Gone(f) <=> Without(f)[n] # {}
  OBVIOUS
<1>1. n \in names <=> symbolsByName[n] # {}
  BY DEF TablesInv, Searchable
<1>2. Without(f)[n] = IF \E s \in symbolsByFile[f] : s.name = n
                      THEN {s \in symbolsByName[n] : s.filePath # f} ELSE symbolsByName[n]
  BY DEF Without
<1>3. n \in Gone(f) <=> (\E s \in symbolsByFile[f] : s.name = n) /\ Without(f)[n] = {}
  BY DEF Gone
<1> QED
  BY <1>1, <1>2, <1>3

\* A contract that inherits a name declares it, in a file that stays.
LEMMA HeirFacts ==
  ASSUME TablesInv, NEW f \in Files, NEW n \in Names, NEW c \in Heirs(f, n)
  PROVE  LET others == Declaring(n) \ {f}
         IN  /\ c \in Files \cup {NoFile}
             /\ IF others = {} THEN c = NoFile ELSE c \in others
<1> DEFINE others == Declaring(n) \ {f}
<1>1. \A s \in Symbols : s \in Without(f)[n] <=> s.name = n /\ Declared(s) /\ s.filePath # f
  BY WithoutFacts
<1>2. Without(f)[n] \subseteq Symbols
  BY WithoutFacts
<1>3. Remaining(f, n) = others
  <2>1. ASSUME NEW g \in Remaining(f, n) PROVE g \in others
    <3>1. PICK s \in Without(f)[n] :
            /\ s.kind = "contract"
            /\ g = IF cache[s.filePath] # NoTree /\ n \in cache[s.filePath].contracts
                  THEN s.filePath ELSE NoFile
      BY <2>1 DEF Remaining
    <3>2. s \in Symbols /\ s.name = n /\ Declared(s) /\ s.filePath # f
      BY <1>1, <1>2
    <3>3. s.filePath \in Declaring(n)
      <4>1. s.filePath \in symbolFiles /\ s \in SymbolsOf(s.filePath, cache[s.filePath])
        BY <3>2 DEF Declared
      <4>2. s.filePath \in Files /\ cache[s.filePath] \in Trees
        BY <3>2, <4>1 DEF Symbols, TablesInv, TreesOK
      <4>3. n \in cache[s.filePath].contracts
        BY <3>1, <3>2, <4>1, <4>2, SymbolFacts
      <4> QED
        BY <4>1, <4>3 DEF Declaring
    <3>4. cache[s.filePath] # NoTree /\ n \in cache[s.filePath].contracts
      BY <3>3, TableAssumption DEF Declaring, TablesInv, TreesOK, TableAssumption
    <3> QED
      BY <3>1, <3>2, <3>3, <3>4
  <2>2. ASSUME NEW g \in others PROVE g \in Remaining(f, n)
    <3>1. g \in Files /\ g \in symbolFiles /\ g # f /\ n \in cache[g].contracts /\ cache[g] \in Trees
      BY <2>2 DEF Declaring, TablesInv, TreesOK
    <3> DEFINE s == [name |-> n, kind |-> "contract", filePath |-> g]
    <3>2. s \in Symbols
      BY <3>1 DEF Symbols
    <3>3. Declared(s)
      BY <3>1, <3>2, SymbolFacts DEF Declared
    <3>4. s \in Without(f)[n] /\ s.kind = "contract" /\ s.filePath = g
      BY <1>1, <3>1, <3>2, <3>3
    <3>5. cache[g] # NoTree
      BY <3>1, TableAssumption DEF TableAssumption
    <3> QED
      BY <3>1, <3>4, <3>5 DEF Remaining
  <2> QED
    BY <2>1, <2>2
<1>4. contractsByName[n] \in Files \cup {NoFile}
  BY DEF TablesInv, Contracts
<1>5. IF Declaring(n) = {} THEN contractsByName[n] = NoFile ELSE contractsByName[n] \in Declaring(n)
  BY DEF TablesInv, Contracts, ContractsFollow
<1>6. others \subseteq Files /\ NoFile \notin Files
  BY TableAssumption DEF TableAssumption, Declaring, TablesInv, TreesOK
<1>7. ASSUME contractsByName[n] = f PROVE \E s \in symbolsByFile[f] : s.kind = "contract" /\ s.name = n
  <2>1. f \in Declaring(n)
    BY <1>5, <1>6, <1>7
  <2>2. f \in symbolFiles /\ n \in cache[f].contracts /\ cache[f] \in Trees
    BY <2>1 DEF Declaring, TablesInv, TreesOK
  <2> DEFINE s == [name |-> n, kind |-> "contract", filePath |-> f]
  <2>3. s \in Symbols /\ s.filePath = f /\ s.kind = "contract" /\ s.name = n
    BY DEF Symbols
  <2>4. s \in SymbolsOf(f, cache[f])
    BY <2>2, <2>3, SymbolFacts
  <2> QED
    BY <2>2, <2>3, <2>4 DEF TablesInv, ByFile
<1>8. CASE contractsByName[n] = f
  BY <1>3, <1>6, <1>7, <1>8 DEF Heirs
<1>9. CASE contractsByName[n] # f
  <2>1. c = contractsByName[n]
    BY <1>9 DEF Heirs
  <2> QED
    BY <2>1, <1>4, <1>5, <1>9
<1> QED
  BY <1>8, <1>9
-----------------------------------------------------------------------------
LEMMA InitTables == Init => TablesInv
<1> SUFFICES ASSUME Init PROVE TablesInv
  OBVIOUS
<1> USE DEF Init
<1>1. TreesOK /\ ByFile /\ UsesByFile
  BY DEF TreesOK, ByFile, UsesByFile
<1>2. ByName /\ Uses
  BY DEF ByName, Declared, Uses, Occurs
<1>3. Contracts
  BY DEF Contracts, ContractsFollow, Declaring
<1>4. Searchable
  BY DEF Searchable, Postings
<1> QED
  BY <1>1, <1>2, <1>3, <1>4 DEF TablesInv

\* A posting is a trigram of a name, beside the name.
LEMMA PostingFacts ==
  ASSUME NEW T, NEW p
  PROVE  p \in Postings(T) <=> \E n \in T : \E g \in UniqueTrigrams(n) : p = <<g, n>>
  BY DEF Postings

LEMMA UpdateTables ==
  ASSUME TablesInv, NEW f \in Files, NEW t \in Trees, UpdateFile(f, t)
  PROVE  TablesInv'
<1> DEFINE declared == t.contracts \cup t.others
<1>1. /\ cache' = [cache EXCEPT ![f] = t] /\ symbolFiles' = symbolFiles \cup {f}
      /\ cache \in [Files -> Trees \cup {NoTree}] /\ symbolFiles \subseteq Files
  BY DEF UpdateFile, TablesInv, TreesOK
<1>2. TreesOK'
  BY <1>1 DEF TablesInv, TreesOK
<1>3. ByFile'
  <2>1. symbolsByFile' = [symbolsByFile EXCEPT ![f] = SymbolsOf(f, t)]
    BY DEF UpdateFile
  <2> QED
    BY <1>1, <2>1, SymbolFacts DEF TablesInv, ByFile
<1>4. ByName'
  <2>1. symbolsByName' = [n \in Names |-> Without(f)[n] \cup {s \in SymbolsOf(f, t) : s.name = n}]
    BY DEF UpdateFile
  <2>2. ASSUME NEW n \in Names PROVE symbolsByName'[n] \subseteq Symbols
    BY <2>1, WithoutFacts, SymbolFacts
  <2>3. ASSUME NEW n \in Names, NEW s \in Symbols
        PROVE  s \in symbolsByName'[n] <=> s.name = n /\ Declared(s)'
    <3>1. s.filePath \in Files
      BY DEF Symbols
    <3>2. CASE s.filePath = f
      BY <1>1, <2>1, <3>2, WithoutFacts DEF Declared
    <3>3. CASE s.filePath # f
      <4>1. s \notin SymbolsOf(f, t)
        BY <3>3, SymbolFacts
      <4>2. Declared(s)' <=> Declared(s)
        BY <1>1, <3>1, <3>3 DEF Declared
      <4> QED
        BY <2>1, <3>3, <4>1, <4>2, WithoutFacts
    <3> QED
      BY <3>2, <3>3
  <2> QED
    BY <2>1, <2>2, <2>3 DEF ByName
<1>5. UsesByFile'
  <2>1. fileSymbols' = [fileSymbols EXCEPT ![f] = UsedIn(t)]
    BY DEF UpdateFile, IndexReferences
  <2>2. UsedIn(t) \subseteq Names
    <3>1. CASE Names = {}
      BY <3>1, TableAssumption DEF TableAssumption, UsedIn
    <3> QED
      BY <3>1, UseFacts
  <2> QED
    BY <1>1, <2>1, <2>2 DEF TablesInv, UsesByFile
<1>6. Uses'
  <2> DEFINE others(n) == IF n \in fileSymbols[f] THEN {e \in occurrences[n] : e[1] # f} ELSE occurrences[n]
  <2>1. occurrences' = [n \in Names |-> others(n) \cup EntriesOf(f, t, n)]
    BY DEF UpdateFile, IndexReferences
  <2>2. ASSUME NEW n \in Names
        PROVE  others(n) \subseteq Entries /\ \A e \in Entries : e \in others(n) <=> Occurs(e, n) /\ e[1] # f
    BY OccurrenceFacts
  <2> HIDE DEF others
  <2>3. ASSUME NEW n \in Names PROVE occurrences'[n] \subseteq Entries
    BY <2>1, <2>2, UseFacts
  <2>4. ASSUME NEW n \in Names, NEW e \in Entries PROVE e \in occurrences'[n] <=> Occurs(e, n)'
    <3>1. e[1] \in Files
      BY DEF Entries
    <3>2. e \in EntriesOf(f, t, n) <=> e[1] = f /\ <<n, e[2]>> \in t.uses
      BY UseFacts
    <3>3. CASE e[1] = f
      BY <1>1, <2>1, <2>2, <3>2, <3>3 DEF Occurs
    <3>4. CASE e[1] # f
      BY <1>1, <2>1, <2>2, <3>1, <3>2, <3>4 DEF Occurs
    <3> QED
      BY <3>3, <3>4
  <2> QED
    BY <2>1, <2>3, <2>4 DEF Uses
<1>7. Contracts'
  <2>1. /\ contractsByName' \in [Names -> Files \cup {NoFile}]
        /\ \A n \in Names : contractsByName'[n] \in IF n \in t.contracts THEN {f} ELSE Heirs(f, n)
    BY DEF UpdateFile
  <2>2. ASSUME NEW n \in Names
        PROVE  IF Declaring(n)' = {} THEN contractsByName'[n] = NoFile
               ELSE contractsByName'[n] \in Declaring(n)'
    <3>1. CASE n \in t.contracts
      BY <1>1, <2>1, <3>1 DEF Declaring
    <3>2. CASE n \notin t.contracts
      <4>1. Declaring(n)' = Declaring(n) \ {f}
        BY <1>1, <3>2 DEF Declaring
      <4>2. contractsByName'[n] \in Heirs(f, n)
        BY <2>1, <3>2
      <4> QED
        BY <4>1, <4>2, HeirFacts
    <3> QED
      BY <3>1, <3>2
  <2> QED
    BY <2>1, <2>2 DEF Contracts, ContractsFollow
<1>8. Searchable'
  <2>1. /\ names' = (names \ Gone(f)) \cup declared
        /\ postings' = Dropped(postings, Gone(f)) \cup Postings(declared \ (names \ Gone(f)))
        /\ symbolsByName' = [n \in Names |-> Without(f)[n] \cup {s \in SymbolsOf(f, t) : s.name = n}]
    BY DEF UpdateFile
  <2>2. declared \subseteq Names
    BY TableAssumption DEF TableAssumption
  <2>3. ASSUME NEW n \in Names PROVE n \in declared <=> {s \in SymbolsOf(f, t) : s.name = n} # {}
    <3>1. ASSUME n \in t.contracts PROVE [name |-> n, kind |-> "contract", filePath |-> f] \in SymbolsOf(f, t)
      BY <3>1 DEF SymbolsOf
    <3>2. ASSUME n \in t.others PROVE [name |-> n, kind |-> "other", filePath |-> f] \in SymbolsOf(f, t)
      BY <3>2 DEF SymbolsOf
    <3>3. ASSUME NEW s \in SymbolsOf(f, t), s.name = n PROVE n \in declared
      BY <3>3, SymbolFacts
    <3> QED
      BY <3>1, <3>2, <3>3
  <2>4. \A n \in Names : n \in names' <=> symbolsByName'[n] # {}
    BY <2>1, <2>2, <2>3, GoneFacts
  <2>5. postings' = Postings(names')
    <3> DEFINE rest == declared \ (names \ Gone(f))
    <3> SUFFICES ASSUME NEW p PROVE p \in postings' <=> p \in Postings(names')
      OBVIOUS
    <3>1. /\ p \in Postings(names) <=> \E n \in names : \E g \in UniqueTrigrams(n) : p = <<g, n>>
          /\ p \in Postings(rest) <=> \E n \in rest : \E g \in UniqueTrigrams(n) : p = <<g, n>>
          /\ p \in Postings(names') <=> \E n \in names' : \E g \in UniqueTrigrams(n) : p = <<g, n>>
      BY PostingFacts
    <3>2. p \in postings' <=> (p \in Postings(names) /\ p[2] \notin Gone(f)) \/ p \in Postings(rest)
      BY <2>1 DEF TablesInv, Searchable, Dropped
    <3>3. \A n : n \in names' <=> (n \in names /\ n \notin Gone(f)) \/ n \in rest
      BY <2>1
    <3> HIDE DEF rest, declared
    <3> QED
      BY <3>1, <3>2, <3>3
  <2>6. names' \subseteq Names
    BY <2>1, <2>2 DEF TablesInv, Searchable
  <2> QED
    BY <2>4, <2>5, <2>6 DEF Searchable
<1> QED
  BY <1>2, <1>3, <1>4, <1>5, <1>6, <1>7, <1>8 DEF TablesInv
LEMMA RemoveTables ==
  ASSUME TablesInv, NEW f \in Files, RemoveFile(f)
  PROVE  TablesInv'
<1>1. /\ cache' = [cache EXCEPT ![f] = NoTree] /\ symbolFiles' = symbolFiles \ {f}
      /\ cache \in [Files -> Trees \cup {NoTree}] /\ symbolFiles \subseteq Files
  BY DEF RemoveFile, TablesInv, TreesOK
<1>2. TreesOK'
  BY <1>1 DEF TablesInv, TreesOK
<1>3. ByFile'
  <2>1. symbolsByFile' = [symbolsByFile EXCEPT ![f] = {}]
    BY DEF RemoveFile
  <2> QED
    BY <1>1, <2>1 DEF TablesInv, ByFile
<1>4. ByName'
  <2>1. symbolsByName' = [n \in Names |-> Without(f)[n]]
    BY DEF RemoveFile, Without
  <2>2. ASSUME NEW n \in Names, NEW s \in Symbols
        PROVE  s \in symbolsByName'[n] <=> s.name = n /\ Declared(s)'
    <3>1. s.filePath \in Files
      BY DEF Symbols
    <3>2. Declared(s)' <=> Declared(s) /\ s.filePath # f
      BY <1>1, <3>1 DEF Declared
    <3> QED
      BY <2>1, <3>2, WithoutFacts
  <2>3. symbolsByName' \in [Names -> SUBSET Symbols]
    BY <2>1, WithoutFacts
  <2> QED
    BY <2>2, <2>3 DEF ByName
<1>5. UsesByFile'
  <2>1. fileSymbols' = [fileSymbols EXCEPT ![f] = {}]
    BY DEF RemoveFile, RemoveReferences
  <2> QED
    BY <1>1, <2>1 DEF TablesInv, UsesByFile
<1>6. Uses'
  <2> DEFINE others(n) == IF n \in fileSymbols[f] THEN {e \in occurrences[n] : e[1] # f} ELSE occurrences[n]
  <2>1. occurrences' = [n \in Names |-> others(n)]
    BY DEF RemoveFile, RemoveReferences
  <2>2. ASSUME NEW n \in Names
        PROVE  others(n) \subseteq Entries /\ \A e \in Entries : e \in others(n) <=> Occurs(e, n) /\ e[1] # f
    BY OccurrenceFacts
  <2> HIDE DEF others
  <2>3. ASSUME NEW n \in Names, NEW e \in Entries PROVE e \in occurrences'[n] <=> Occurs(e, n)'
    <3>1. e[1] \in Files
      BY DEF Entries
    <3> QED
      BY <1>1, <2>1, <2>2, <3>1 DEF Occurs
  <2>4. occurrences' \in [Names -> SUBSET Entries]
    BY <2>1, <2>2
  <2> QED
    BY <2>3, <2>4 DEF Uses
<1>7. Contracts'
  <2>1. /\ contractsByName' \in [Names -> Files \cup {NoFile}]
        /\ \A n \in Names : contractsByName'[n] \in Heirs(f, n)
    BY DEF RemoveFile
  <2>2. ASSUME NEW n \in Names
        PROVE  IF Declaring(n)' = {} THEN contractsByName'[n] = NoFile
               ELSE contractsByName'[n] \in Declaring(n)'
    <3>1. Declaring(n)' = Declaring(n) \ {f}
      BY <1>1 DEF Declaring
    <3> QED
      BY <2>1, <3>1, HeirFacts
  <2> QED
    BY <2>1, <2>2 DEF Contracts, ContractsFollow
<1>8. Searchable'
  <2>1. /\ names' = names \ Gone(f)
        /\ postings' = Dropped(postings, Gone(f))
        /\ symbolsByName' = [n \in Names |-> Without(f)[n]]
    BY DEF RemoveFile, Without
  <2>2. \A n \in Names : n \in names' <=> symbolsByName'[n] # {}
    BY <2>1, GoneFacts
  <2>4. postings = Postings(names)
    BY DEF TablesInv, Searchable
  <2>5. postings' = Postings(names')
    <3> SUFFICES ASSUME NEW p PROVE p \in postings' <=> p \in Postings(names')
      BY <2>1
    <3>1. /\ p \in Postings(names) <=> \E n \in names : \E g \in UniqueTrigrams(n) : p = <<g, n>>
          /\ p \in Postings(names') <=> \E n \in names' : \E g \in UniqueTrigrams(n) : p = <<g, n>>
      BY PostingFacts
    <3>2. p \in postings' <=> p \in Postings(names) /\ p[2] \notin Gone(f)
      BY <2>1, <2>4 DEF Dropped
    <3>3. \A n : n \in names' <=> n \in names /\ n \notin Gone(f)
      BY <2>1
    <3> QED
      BY <3>1, <3>2, <3>3
  <2>6. names' \subseteq Names
    BY <2>1 DEF TablesInv, Searchable
  <2> QED
    BY <2>2, <2>5, <2>6 DEF Searchable
<1> QED
  BY <1>2, <1>3, <1>4, <1>5, <1>6, <1>7, <1>8 DEF TablesInv

\* listTests only touches a file without a cache, which is not indexed.
LEMMA ListTables ==
  ASSUME TablesInv, NEW f \in Files, NEW t \in Trees, ListTests(f, t)
  PROVE  TablesInv'
<1>1. /\ cache' = [cache EXCEPT ![f] = t] /\ symbolFiles' = symbolFiles
      /\ cache \in [Files -> Trees \cup {NoTree}] /\ symbolFiles \subseteq Files
  BY DEF ListTests, TablesInv, TreesOK
<1>2. f \notin symbolFiles
  BY TableAssumption DEF ListTests, TablesInv, TreesOK, TableAssumption
<1>3. \A g \in symbolFiles : cache'[g] = cache[g]
  BY <1>1, <1>2
<1>4. UNCHANGED <<symbolsByFile, symbolsByName, contractsByName, occurrences, fileSymbols, names, postings>>
  BY DEF ListTests
<1>5. TreesOK' /\ ByFile' /\ UsesByFile'
  BY <1>1, <1>3, <1>4 DEF TablesInv, TreesOK, ByFile, UsesByFile
<1>6. ByName' /\ Uses'
  BY <1>1, <1>3, <1>4 DEF TablesInv, ByName, Declared, Uses, Occurs
<1>7. Contracts' /\ Searchable'
  <2>1. \A n \in Names : Declaring(n)' = Declaring(n)
    BY <1>1, <1>3 DEF Declaring
  <2> QED
    BY <1>4, <2>1 DEF TablesInv, Contracts, ContractsFollow, Searchable
<1> QED
  BY <1>5, <1>6, <1>7 DEF TablesInv

LEMMA StepTables == TablesInv /\ [Next]_vars => TablesInv'
<1> SUFFICES ASSUME TablesInv, [Next]_vars PROVE TablesInv'
  OBVIOUS
<1>1. ASSUME NEW f \in Files, NEW t \in Trees, UpdateFile(f, t) PROVE TablesInv'
  BY <1>1, UpdateTables
<1>2. ASSUME NEW f \in Files, RemoveFile(f) PROVE TablesInv'
  BY <1>2, RemoveTables
<1>3. ASSUME NEW f \in Files, NEW t \in Trees, ListTests(f, t) PROVE TablesInv'
  BY <1>3, ListTables
<1>4. CASE UNCHANGED vars
  BY <1>4 DEF vars, TablesInv, TreesOK, ByFile, ByName, Declared, UsesByFile, Uses, Occurs,
              Contracts, ContractsFollow, Declaring, Searchable
<1> QED
  BY <1>1, <1>2, <1>3, <1>4 DEF Next

(* The invariant of the tables holds however files come, change and go.    *)
THEOREM TablesInvariant == Spec => []TablesInv
  BY InitTables, StepTables, PTL DEF Spec
-----------------------------------------------------------------------------
\* The invariant, entry by entry, is the equality with the rebuilt tables.
LEMMA InvGivesSymbols == TablesInv => SymbolsRebuilt
<1> SUFFICES ASSUME TablesInv, NEW n \in Names
             PROVE  symbolsByName[n] = UNION {{s \in SymbolsOf(f, cache[f]) : s.name = n} : f \in symbolFiles}
  BY DEF SymbolsRebuilt
<1> DEFINE rebuilt == UNION {{s \in SymbolsOf(f, cache[f]) : s.name = n} : f \in symbolFiles}
<1>1. symbolsByName[n] \subseteq Symbols /\ \A s \in Symbols : s \in symbolsByName[n] <=> s.name = n /\ Declared(s)
  BY DEF TablesInv, ByName
<1>2. ASSUME NEW s \in rebuilt PROVE s \in symbolsByName[n]
  <2>1. PICK f \in symbolFiles : s \in SymbolsOf(f, cache[f]) /\ s.name = n
    BY <1>2
  <2>2. f \in Files /\ cache[f] \in Trees
    BY DEF TablesInv, TreesOK
  <2>3. s \in Symbols /\ s.filePath = f
    BY <2>1, <2>2, SymbolFacts
  <2> QED
    BY <1>1, <2>1, <2>3 DEF Declared
<1>3. ASSUME NEW s \in symbolsByName[n] PROVE s \in rebuilt
  BY <1>1, <1>3 DEF Declared
<1> QED
  BY <1>2, <1>3

LEMMA InvGivesReferences == TablesInv => ReferencesRebuilt
<1> SUFFICES ASSUME TablesInv, NEW n \in Names
             PROVE  occurrences[n] = UNION {EntriesOf(f, cache[f], n) : f \in symbolFiles}
  BY DEF ReferencesRebuilt
<1>1. occurrences[n] \subseteq Entries /\ \A e \in Entries : e \in occurrences[n] <=> Occurs(e, n)
  BY DEF TablesInv, Uses
<1>2. ASSUME NEW f \in symbolFiles
      PROVE  /\ EntriesOf(f, cache[f], n) \subseteq Entries
             /\ \A e \in Entries : e \in EntriesOf(f, cache[f], n) <=> e[1] = f /\ <<n, e[2]>> \in cache[f].uses
  <2>1. f \in Files /\ cache[f] \in Trees
    BY DEF TablesInv, TreesOK
  <2> QED
    BY <2>1, UseFacts
<1>3. ASSUME NEW e \in occurrences[n] PROVE \E f \in symbolFiles : e \in EntriesOf(f, cache[f], n)
  BY <1>1, <1>2 DEF Occurs
<1>4. ASSUME NEW f \in symbolFiles, NEW e \in EntriesOf(f, cache[f], n) PROVE e \in occurrences[n]
  BY <1>1, <1>2 DEF Occurs
<1> QED
  BY <1>3, <1>4

(* Whatever files were updated, removed and parsed, every table is what
   indexing the present trees would give. *)
THEOREM TablesAreRebuilt == Spec => []TablesRebuilt
<1>1. TablesInv => TrigramsRebuilt
  BY DEF TablesInv, Searchable, TrigramsRebuilt
<1>2. TablesInv => TablesRebuilt
  BY <1>1, InvGivesSymbols, InvGivesReferences DEF TablesRebuilt
<1> QED
  BY <1>2, TablesInvariant, PTL

(* A name stands for a contract of an indexed file as long as there is one. *)
THEOREM ContractsAreFollowed == Spec => []ContractsFollow
<1>1. TablesInv => ContractsFollow
  BY DEF TablesInv, Contracts
<1> QED
  BY <1>1, TablesInvariant, PTL

\* The trigrams of a query are trigrams of every name that includes it.
LEMMA TrigramFacts ==
  ASSUME NEW n \in Seq(Nat), NEW q \in Seq(Nat), Includes(n, q), NEW g \in UniqueTrigrams(q)
  PROVE  g \in UniqueTrigrams(n)
<1>1. PICK k \in 0..Len(n) : k + Len(q) <= Len(n) /\ \A i \in 1..Len(q) : n[k + i] = q[i]
  BY DEF Includes
<1>2. PICK i \in 1..(Len(q) - 2) : g = <<q[i], q[i + 1], q[i + 2]>>
  BY DEF UniqueTrigrams
<1>3. Len(n) \in Nat /\ Len(q) \in Nat /\ k \in Nat /\ i \in Nat
  OBVIOUS
<1>4. i \in 1..Len(q) /\ i + 1 \in 1..Len(q) /\ i + 2 \in 1..Len(q) /\ k + i \in 1..(Len(n) - 2)
  BY <1>1, <1>3
<1>5. k + (i + 1) = (k + i) + 1 /\ k + (i + 2) = (k + i) + 2
  BY <1>3
<1>6. g = <<n[k + i], n[(k + i) + 1], n[(k + i) + 2]>>
  BY <1>1, <1>2, <1>4, <1>5
<1> QED
  BY <1>4, <1>6 DEF UniqueTrigrams

(* Workspace search misses no symbol whose name contains the query. *)
THEOREM SearchIsComplete == Spec => []SearchFindsSubstrings
<1>1. TablesInv => SearchFindsSubstrings
  <2> SUFFICES ASSUME TablesInv, NEW q \in Queries, NEW n \in Names, symbolsByName[n] # {}, Includes(n, q)
               PROVE  n \in Found(q)
    BY DEF SearchFindsSubstrings
  <2>1. n \in names /\ postings = Postings(names)
    BY DEF TablesInv, Searchable
  <2>2. n \in Seq(Nat) /\ q \in Seq(Nat)
    BY TableAssumption DEF TableAssumption
  <2>3. ASSUME NEW g \in UniqueTrigrams(q) PROVE <<g, n>> \in postings
    <3>1. g \in UniqueTrigrams(n)
      BY <2>2, TrigramFacts
    <3> QED
      BY <2>1, <3>1, PostingFacts
  <2>4. n \in Candidates(q)
    BY <2>1, <2>3 DEF Candidates
  <2> QED
    BY <2>4 DEF Found, Scores
<1> QED
  BY <1>1, TablesInvariant, PTL

(* What the run checks of the tables, in one. *)
THEOREM TablesFollow == Spec => []TablesFollowTheTrees
<1>1. TablesRebuilt /\ ContractsFollow /\ SearchFindsSubstrings => TablesFollowTheTrees
  BY DEF TablesFollowTheTrees
<1> QED
  BY <1>1, TablesAreRebuilt, ContractsAreFollowed, SearchIsComplete, PTL
-----------------------------------------------------------------------------
(***************************************************************************)
(* The Chisel panel.                                                       *)
(***************************************************************************)
Count == Chisel!Cardinality(DOMAIN sentTo)
Sent == 1 .. Count
ChiselStates == {"none", "starting", "live", "term", "dead", "failed"}
Over == {"dead", "failed"}

ChiselTypes ==
  /\ active \in BOOLEAN /\ panel \in BOOLEAN /\ quietTimer \in BOOLEAN
  /\ overlapped \in BOOLEAN /\ muddled \in BOOLEAN
  /\ spawned \in 0 .. MaxSpawns /\ process \in {0, spawned}
  /\ pst \in [Chisel!Procs -> ChiselStates]
  /\ \A p \in Chisel!Procs : p > spawned => pst[p] = "none"
  /\ restarting \in SUBSET Chisel!Procs /\ \A p \in restarting : pst[p] = "term"

(* Expressions are numbered as they are sent, those that wait for the      *)
(* banner after those that were.                                           *)
Sends ==
  /\ Count \in 0 .. MaxExprs /\ sentTo \in [Sent -> 1 .. spawned]
  /\ selections \in Seq(Nat) /\ Count + Len(selections) <= MaxExprs
  /\ \A i \in 1 .. Len(selections) : selections[i] = Count + i

Flows ==
  /\ input \in [Chisel!Procs -> Seq(Sent)] /\ err \in [Chisel!Procs -> Seq(Sent)]
  /\ out \in [Chisel!Procs -> Seq(Sent \cup {Chisel!Banner})] /\ buf \in [Chisel!Procs -> Seq(Sent)]
  /\ pending \in Seq(Sent) /\ \A c \in cards : c[1] \in {0} \cup Sent
  /\ quietTimer => spawned > 0
  /\ \A p \in Chisel!Procs : out[p] # <<>> => spawned > 0

(* As long as each was sent when the one before it was settled, only the   *)
(* last may be unsettled; it alone may be pending, and then has no card.   *)
Paired == \A c \in cards : c[1] # 0 => Chisel!Range(c[2]) = {c[1]}
Serial ==
  /\ \A x \in Sent : x < Count => Chisel!Settled(x)
  /\ pending # <<>> => /\ pending = <<Count>> /\ Count > 0 /\ sentTo[Count] = spawned
                       /\ \A c \in cards : c[1] # Count
  /\ Paired

ChiselInv == ChiselTypes /\ Sends /\ Flows /\ (~muddled => Serial) /\ Chisel!HeldOrTold

(* What is taken from a sequence, and what is in it.                       *)
LEMMA PipeFacts ==
  ASSUME NEW S, NEW s \in Seq(S), s # <<>>
  PROVE  /\ Len(s) \in Nat /\ Len(s) > 0 /\ Head(s) = s[1] /\ Head(s) \in S
         /\ Tail(s) \in Seq(S) /\ Len(Tail(s)) = Len(s) - 1
         /\ \A k \in 1 .. Len(s) - 1 : Tail(s)[k] = s[k + 1]
<1>1. Len(s) \in Nat /\ s \in [1 .. Len(s) -> S]
  BY LenProperties
<1>2. Len(s) # 0
  BY EmptySeq
<1>3. Head(s) = s[1] /\ Head(s) \in S /\ Tail(s) \in Seq(S)
  BY HeadTailProperties
<1>4. Len(Tail(s)) = Len(s) - 1 /\ \A k \in 1 .. Len(Tail(s)) : Tail(s)[k] = s[k + 1]
  BY HeadTailProperties
<1> QED
  BY <1>1, <1>2, <1>3, <1>4

LEMMA RangeFacts ==
  ASSUME NEW S
  PROVE  /\ Chisel!Range(<<>>) = {}
         /\ \A s \in Seq(S) : /\ Chisel!Range(s) \subseteq S /\ (s = <<>> <=> Chisel!Range(s) = {})
                              /\ \A i \in 1 .. Len(s) : s[i] \in Chisel!Range(s)
         /\ \A s \in Seq(S), e \in S : Chisel!Range(Append(s, e)) = Chisel!Range(s) \cup {e}
         /\ \A s, t \in Seq(S) : Chisel!Range(s \o t) = Chisel!Range(s) \cup Chisel!Range(t)
         /\ \A s \in Seq(S) : s # <<>> => Head(s) \in Chisel!Range(s) /\ Chisel!Range(Tail(s)) \subseteq Chisel!Range(s)
<1>1. \A s \in Seq(S) : /\ Len(s) \in Nat /\ DOMAIN s = 1 .. Len(s) /\ \A i \in 1 .. Len(s) : s[i] \in S
  BY LenProperties
<1>2. \A s \in Seq(S) : Chisel!Range(s) = {s[i] : i \in 1 .. Len(s)}
  BY <1>1 DEF Chisel!Range
<1>3. Chisel!Range(<<>>) = {}
  BY DEF Chisel!Range
<1>4. ASSUME NEW s \in Seq(S)
      PROVE  /\ Chisel!Range(s) \subseteq S /\ (s = <<>> <=> Chisel!Range(s) = {})
             /\ \A i \in 1 .. Len(s) : s[i] \in Chisel!Range(s)
  <2>1. s # <<>> => Len(s) # 0
    BY EmptySeq
  <2> QED
    BY <1>1, <1>2, <1>3, <2>1
<1>5. ASSUME NEW s \in Seq(S), NEW e \in S PROVE Chisel!Range(Append(s, e)) = Chisel!Range(s) \cup {e}
  <2> DEFINE a == Append(s, e)
  <2>1. /\ a \in Seq(S) /\ Len(a) = Len(s) + 1 /\ a[Len(s) + 1] = e /\ \A i \in 1 .. Len(s) : a[i] = s[i]
    BY AppendProperties
  <2> HIDE DEF a
  <2>2. Chisel!Range(a) = {a[i] : i \in 1 .. Len(a)} /\ Chisel!Range(s) = {s[i] : i \in 1 .. Len(s)} /\ Len(s) \in Nat
    BY <1>1, <1>2, <2>1
  <2>3. Chisel!Range(a) = Chisel!Range(s) \cup {e}
    BY <2>1, <2>2
  <2> QED
    BY <2>3 DEF a
<1>6. ASSUME NEW s \in Seq(S), NEW t \in Seq(S) PROVE Chisel!Range(s \o t) = Chisel!Range(s) \cup Chisel!Range(t)
  <2> DEFINE a == s \o t
  <2>1. /\ a \in Seq(S) /\ Len(a) = Len(s) + Len(t)
        /\ \A i \in 1 .. Len(s) + Len(t) : a[i] = IF i <= Len(s) THEN s[i] ELSE t[i - Len(s)]
    BY ConcatProperties
  <2> HIDE DEF a
  <2>2. Chisel!Range(a) = {a[i] : i \in 1 .. Len(a)} /\ Chisel!Range(s) = {s[i] : i \in 1 .. Len(s)}
        /\ Chisel!Range(t) = {t[i] : i \in 1 .. Len(t)} /\ Len(s) \in Nat /\ Len(t) \in Nat
    BY <1>1, <1>2, <2>1
  <2>3. Chisel!Range(a) \subseteq Chisel!Range(s) \cup Chisel!Range(t)
    <3>1. \A i \in 1 .. Len(a) : i <= Len(s) => i \in 1 .. Len(s)
      BY <2>2
    <3>2. \A i \in 1 .. Len(a) : ~(i <= Len(s)) => i - Len(s) \in 1 .. Len(t)
      BY <2>1, <2>2
    <3> QED
      BY <2>1, <2>2, <3>1, <3>2
  <2>4. Chisel!Range(s) \subseteq Chisel!Range(a)
    <3>1. \A i \in 1 .. Len(s) : i \in 1 .. Len(a) /\ a[i] = s[i]
      BY <2>1, <2>2
    <3> QED
      BY <2>2, <3>1
  <2>5. Chisel!Range(t) \subseteq Chisel!Range(a)
    <3>1. ASSUME NEW i \in 1 .. Len(t)
          PROVE  i + Len(s) \in 1 .. Len(a) /\ a[i + Len(s)] = t[i]
      <4>1. \A m, n \in Nat : \A k \in 1 .. n :
              /\ k + m \in 1 .. m + n /\ ~(k + m <= m) /\ (k + m) - m = k
        OBVIOUS
      <4>2. i + Len(s) \in 1 .. Len(s) + Len(t) /\ ~(i + Len(s) <= Len(s)) /\ (i + Len(s)) - Len(s) = i
        BY <2>2, <4>1
      <4>3. a[i + Len(s)] = IF i + Len(s) <= Len(s) THEN s[i + Len(s)] ELSE t[(i + Len(s)) - Len(s)]
        BY <2>1, <4>2
      <4> QED
        BY <2>1, <4>2, <4>3
    <3> QED
      BY <2>2, <3>1
  <2> QED
    BY <2>3, <2>4, <2>5 DEF a
<1>7. ASSUME NEW s \in Seq(S), s # <<>>
      PROVE  Head(s) \in Chisel!Range(s) /\ Chisel!Range(Tail(s)) \subseteq Chisel!Range(s)
  <2>1. /\ Len(s) \in Nat /\ Len(s) > 0 /\ Head(s) = s[1]
        /\ Tail(s) \in Seq(S) /\ Len(Tail(s)) = Len(s) - 1
        /\ \A k \in 1 .. Len(s) - 1 : Tail(s)[k] = s[k + 1]
    BY <1>7, PipeFacts
  <2>2. Chisel!Range(Tail(s)) = {Tail(s)[i] : i \in 1 .. Len(Tail(s))} /\ Chisel!Range(s) = {s[i] : i \in 1 .. Len(s)}
    BY <1>2, <2>1
  <2> QED
    BY <2>1, <2>2
<1> QED
  BY <1>3, <1>4, <1>5, <1>6, <1>7

(* What is settled stays so: nothing is written to a subprocess twice and  *)
(* none comes back to life.                                                *)
LEMMA SettledStays ==
  ASSUME NEW x, Chisel!Settled(x), cards \subseteq cards', sentTo'[x] = sentTo[x],
         process' = process \/ process' # sentTo[x],
         \A p \in Chisel!Procs :
           /\ x \in Chisel!Range(input'[p]) => x \in Chisel!Range(input[p]) /\ (pst[p] \in Over => pst'[p] \in Over)
           /\ x \in Chisel!Range(out'[p]) \cup Chisel!Range(err'[p]) \cup Chisel!Range(buf'[p]) =>
                \/ x \in Chisel!Range(out[p]) \cup Chisel!Range(err[p]) \cup Chisel!Range(buf[p])
                \/ x \in Chisel!Range(input[p]) /\ pst[p] \notin Over
  PROVE  Chisel!Settled(x)'
<1>1. {c[1] : c \in cards} \subseteq {c[1] : c \in cards'}
  OBVIOUS
<1> QED
  BY <1>1 DEF Chisel!Settled, Over

(* While expressions were sent one by one, an output is the last one's.    *)
LEMMA OutputsAreLast ==
  ASSUME Sends, Serial, NEW p \in Chisel!Procs, NEW x \in Sent,
         x \in Chisel!Range(out[p]) \cup Chisel!Range(err[p]) \cup Chisel!Range(buf[p])
  PROVE  x = Count
<1>1. ~Chisel!Settled(x)
  BY DEF Chisel!Settled
<1>2. x \in Nat /\ Count \in Nat /\ x <= Count
  BY DEF Sent, Sends
<1> QED
  BY <1>1, <1>2 DEF Serial

LEMMA ChiselCounts ==
  \A n \in Nat : Chisel!Cardinality(1 .. n) = n
<1>1. \A S : Chisel!Cardinality(S) = Cardinality(S)
  BY DEF Chisel!Cardinality, Cardinality
<1>2. \A n \in Nat : Cardinality(1 .. n) = n
  BY FS_Interval
<1> QED
  BY <1>1, <1>2

LEMMA SeqsWiden ==
  ASSUME NEW S, NEW T, S \subseteq T
  PROVE  Seq(S) \subseteq Seq(T)
<1> SUFFICES ASSUME NEW s \in Seq(S) PROVE s \in Seq(T)
  OBVIOUS
<1>1. Len(s) \in Nat /\ s \in [1 .. Len(s) -> S]
  BY LenProperties
<1>2. s \in [1 .. Len(s) -> T]
  BY <1>1
<1> QED
  BY <1>1, <1>2, SeqDef

LEMMA ChiselInit == Chisel!Init => ChiselInv
<1> SUFFICES ASSUME Chisel!Init PROVE ChiselInv
  OBVIOUS
<1> USE DEF Chisel!Init
<1>1. sentTo = <<>> /\ DOMAIN sentTo = {} /\ spawned = 0 /\ Count = 0 /\ Sent = {}
  <2>1. DOMAIN sentTo = {} /\ 1 .. 0 = {}
    OBVIOUS
  <2>2. Count = 0
    BY <2>1, ChiselCounts DEF Count
  <2> QED
    BY <2>1, <2>2 DEF Sent
<1>2. ChiselTypes
  <2>1. pst \in [Chisel!Procs -> ChiselStates] /\ \A p \in Chisel!Procs : pst[p] = "none"
    BY DEF ChiselStates
  <2>2. /\ active \in BOOLEAN /\ panel \in BOOLEAN /\ quietTimer \in BOOLEAN
        /\ overlapped \in BOOLEAN /\ muddled \in BOOLEAN
    OBVIOUS
  <2>3. spawned \in 0 .. MaxSpawns /\ process \in {0, spawned}
    BY PartsAssumption DEF Chisel!None
  <2>4. restarting \in SUBSET Chisel!Procs /\ \A p \in restarting : pst[p] = "term"
    OBVIOUS
  <2> QED
    BY <2>1, <2>2, <2>3, <2>4 DEF ChiselTypes
<1>3. \A S : <<>> \in Seq(S)
  BY EmptySeq
<1>4. Sends
  <2>1. selections = <<>> /\ Len(selections) = 0 /\ selections \in Seq(Nat)
    BY <1>3
  <2>2. sentTo \in [Sent -> 1 .. spawned]
    BY <1>1
  <2> QED
    BY <1>1, <2>1, <2>2, PartsAssumption DEF Sends
<1>5. Flows
  BY <1>3 DEF Flows
<1>6. ~muddled => Serial
  BY <1>1 DEF Serial, Paired
<1>7. Chisel!HeldOrTold
  BY DEF Chisel!HeldOrTold
<1> QED
  BY <1>2, <1>4, <1>5, <1>6, <1>7 DEF ChiselInv

(* A spawn loses no subprocess but by replacing one that runs.             *)
LEMMA ChiselSpawns ==
  ASSUME ChiselTypes, Chisel!HeldOrTold, NEW es, NEW closing \in [Chisel!Procs -> ChiselStates],
         \A p \in Chisel!Procs : closing[p] = pst[p] \/ (pst[p] \in {"live", "term"} /\ closing[p] = "dead"),
         Chisel!Spawn(es, closing)
  PROVE  /\ spawned \in Nat /\ spawned' = spawned + 1 /\ spawned' \in Chisel!Procs /\ spawned' \in 0 .. MaxSpawns
         /\ process' = spawned' /\ pending' = es
         /\ pst' \in [Chisel!Procs -> ChiselStates] /\ \A p \in Chisel!Procs : p > spawned' => pst'[p] = "none"
         /\ \A p \in Chisel!Procs : p # spawned' => pst'[p] = closing[p] /\ input'[p] = input[p]
         /\ pst[spawned'] = "none" /\ input' = [input EXCEPT ![spawned'] = es]
         /\ \A p \in Chisel!Procs : pst[p] \in Over => pst'[p] \in Over
         /\ overlapped' \in BOOLEAN /\ Chisel!HeldOrTold'
<1> DEFINE q == spawned + 1
<1>1. /\ spawned < MaxSpawns /\ spawned' = q /\ pst' = [closing EXCEPT ![q] = "starting"] /\ process' = q
      /\ pending' = es /\ input' = [input EXCEPT ![q] = es]
      /\ overlapped' = (overlapped \/ (process # 0 /\ closing[process] \in {"starting", "live"}))
  BY DEF Chisel!Spawn, Chisel!None
<1>2. spawned \in Nat /\ MaxSpawns \in Nat /\ q \in Chisel!Procs /\ q \in 0 .. MaxSpawns /\ q > spawned
  BY <1>1, PartsAssumption DEF ChiselTypes, Chisel!Procs
<1>3. pst[q] = "none"
  BY <1>2 DEF ChiselTypes
<1> HIDE DEF q
<1>4. \A p \in Chisel!Procs : pst'[p] = IF p = q THEN "starting" ELSE closing[p]
  BY <1>1, <1>2
<1>5. pst' \in [Chisel!Procs -> ChiselStates]
  BY <1>1, <1>2 DEF ChiselStates
<1>6. ASSUME NEW p \in Chisel!Procs, p > spawned' PROVE pst'[p] = "none"
  <2>1. p > spawned /\ p # q
    BY <1>1, <1>2, <1>6 DEF Chisel!Procs
  <2>2. pst[p] = "none"
    BY <2>1 DEF ChiselTypes
  <2> QED
    BY <1>4, <2>1, <2>2
<1>7. ASSUME NEW p \in Chisel!Procs, p # q PROVE pst'[p] = closing[p] /\ input'[p] = input[p]
  BY <1>1, <1>4, <1>7
<1>8. ASSUME NEW p \in Chisel!Procs, pst[p] \in Over PROVE pst'[p] \in Over
  BY <1>3, <1>4, <1>8 DEF Over
<1>9. overlapped' \in BOOLEAN
  BY <1>1 DEF ChiselTypes
<1>10. Chisel!HeldOrTold'
  <2> SUFFICES ASSUME ~overlapped', NEW p \in Chisel!Procs, pst'[p] \in {"starting", "live"}
               PROVE  p = process'
    BY DEF Chisel!HeldOrTold
  <2>1. ~overlapped /\ ~(process # 0 /\ closing[process] \in {"starting", "live"})
    BY <1>1
  <2>2. CASE p # q
    <3>1. closing[p] \in {"starting", "live"} /\ pst[p] \in {"starting", "live"}
      BY <1>4, <2>2
    <3>2. p = process
      BY <2>1, <3>1 DEF Chisel!HeldOrTold
    <3>3. p # 0
      BY DEF Chisel!Procs
    <3> QED
      BY <2>1, <3>1, <3>2, <3>3
  <2> QED
    BY <1>1, <2>2
<1> QED
  BY <1>1, <1>2, <1>3, <1>5, <1>6, <1>7, <1>8, <1>9, <1>10 DEF q

(* Results are shown, and their expressions no longer pending.             *)
LEMMA ConsumeFacts ==
  ASSUME ChiselInv, NEW rs \in Seq(Seq(Sent)),
         ~muddled => \A i \in 1 .. Len(rs) : Chisel!Range(rs[i]) = {Count}
  PROVE  LET rest == SubSeq(pending, Len(rs) + 1, Len(pending))
         IN  /\ cards \subseteq Chisel!Shown(rs)
             /\ \A c \in Chisel!Shown(rs) : c[1] \in {0} \cup Sent
             /\ ~muddled => \A c \in Chisel!Shown(rs) : c[1] # 0 => Chisel!Range(c[2]) = {c[1]}
             /\ rest \in Seq(Sent)
             /\ ~muddled /\ rest # <<>> => rest = pending /\ Chisel!Shown(rs) = cards
<1> DEFINE rest == SubSeq(pending, Len(rs) + 1, Len(pending))
<1>1. /\ pending \in Seq(Sent) /\ Len(pending) \in Nat /\ Len(rs) \in Nat /\ DOMAIN rs = 1 .. Len(rs)
      /\ \A i \in 1 .. Len(pending) : pending[i] \in Sent
  BY LenProperties DEF ChiselInv, Flows
<1>2. \A c \in Chisel!Shown(rs) : c \in cards \/ \E i \in 1 .. Len(rs) :
         c = <<IF i <= Len(pending) THEN pending[i] ELSE 0, rs[i]>>
  BY <1>1 DEF Chisel!Shown, Chisel!None
<1>3. cards \subseteq Chisel!Shown(rs)
  BY DEF Chisel!Shown
<1>4. \A c \in Chisel!Shown(rs) : c[1] \in {0} \cup Sent
  <2>1. \A c \in cards : c[1] \in {0} \cup Sent
    BY DEF ChiselInv, Flows
  <2>2. ASSUME NEW c, NEW i \in 1 .. Len(rs), c = <<IF i <= Len(pending) THEN pending[i] ELSE 0, rs[i]>>
        PROVE  c[1] \in {0} \cup Sent
    BY <1>1, <2>2
  <2> QED
    BY <1>2, <2>1, <2>2
<1>5. ~muddled => pending = <<>> \/ pending = <<Count>>
  BY DEF ChiselInv, Serial
<1>6. ASSUME ~muddled, NEW c \in Chisel!Shown(rs), c[1] # 0 PROVE Chisel!Range(c[2]) = {c[1]}
  <2>1. CASE c \in cards
    BY <1>6, <2>1 DEF ChiselInv, Serial, Paired
  <2>2. ASSUME NEW i \in 1 .. Len(rs), c = <<IF i <= Len(pending) THEN pending[i] ELSE 0, rs[i]>>
        PROVE  Chisel!Range(c[2]) = {c[1]}
    <3>1. i <= Len(pending) /\ c[1] = pending[i] /\ c[2] = rs[i]
      BY <1>6, <2>2
    <3>2. pending = <<Count>> /\ i = 1
      BY <1>5, <1>6, <3>1
    <3> QED
      BY <1>6, <3>1, <3>2
  <2> QED
    BY <1>2, <2>1, <2>2
<1>7. rest \in Seq(Sent)
  <2>1. \A i \in Len(rs) + 1 .. Len(pending) : i \in 1 .. Len(pending)
    BY <1>1
  <2>2. \A m, n \in Int : (\A i \in m .. n : pending[i] \in Sent) => SubSeq(pending, m, n) \in Seq(Sent)
    BY SubSeqProperties
  <2> QED
    BY <1>1, <2>1, <2>2
<1>8. ASSUME ~muddled, rest # <<>> PROVE rest = pending /\ Chisel!Shown(rs) = cards
  <2>1. CASE Len(rs) = 0
    <3>1. Chisel!Shown(rs) = cards
      <4>1. ~\E i \in 1 .. Len(rs) : TRUE
        BY <2>1
      <4> QED
        BY <1>2, <1>3, <4>1
    <3>2. SubSeq(pending, 1, Len(pending)) = pending
      BY <1>1, <1>5, <1>8
    <3> QED
      BY <2>1, <3>1, <3>2
  <2>2. CASE Len(rs) # 0
    <3>1. Len(pending) <= 1 /\ Len(rs) + 1 > Len(pending)
      BY <1>1, <1>5, <1>8, <2>2
    <3>2. \A m, n \in Int : m > n => SubSeq(pending, m, n) = <<>>
      OBVIOUS
    <3> QED
      BY <1>1, <1>8, <3>1, <3>2
  <2> QED
    BY <2>1, <2>2
<1> QED
  BY <1>3, <1>4, <1>6, <1>7, <1>8

(* Evaluation sends the expressions to the subprocess that runs, or to a   *)
(* new one; when that muddles nothing, all before are settled and this one *)
(* is alone pending.                                                       *)
LEMMA EvaluateFacts ==
  ASSUME ChiselInv, NEW es \in Seq(Nat), es # <<>>, \A i \in 1 .. Len(es) : es[i] = Count + i,
         Count + Len(es) <= MaxExprs, Chisel!Evaluate(es), cards' = cards, err' = err, buf' = buf,
         \A p \in Chisel!Procs : Chisel!Range(out'[p]) \cap Sent \subseteq Chisel!Range(out[p])
  PROVE  /\ spawned' \in 0 .. MaxSpawns /\ spawned' > 0 /\ process' = spawned' /\ spawned <= spawned'
         /\ pst' \in [Chisel!Procs -> ChiselStates] /\ \A p \in Chisel!Procs : p > spawned' => pst'[p] = "none"
         /\ \A p \in Chisel!Procs : pst[p] # "none" => pst'[p] = pst[p]
         /\ overlapped' \in BOOLEAN /\ muddled' \in BOOLEAN /\ Chisel!HeldOrTold'
         /\ Count' = Count + Len(es) /\ Sent \subseteq Sent' /\ sentTo' \in [Sent' -> 1 .. spawned']
         /\ pending' \in Seq(Sent') /\ input' \in [Chisel!Procs -> Seq(Sent')]
         /\ ~muddled' => /\ Len(es) = 1 /\ ~muddled /\ \A x \in Sent : Chisel!Settled(x)'
                         /\ pending' = <<Count'>> /\ sentTo'[Count'] = spawned'
<1>t. ChiselTypes /\ Sends /\ Flows /\ Chisel!HeldOrTold /\ (~muddled => Serial)
  BY DEF ChiselInv
<1>n. Count \in Nat /\ Len(es) \in Nat /\ Len(es) > 0 /\ Len(es) # 0 /\ spawned \in 0 .. MaxSpawns /\ MaxSpawns \in Nat /\ spawned \in Nat
  <2>1. Len(es) \in Nat
    BY LenProperties
  <2>2. Len(es) # 0
    BY EmptySeq
  <2> QED
    BY <1>t, <2>1, <2>2, PartsAssumption DEF ChiselTypes, Sends
<1> DEFINE more == 1 .. Count + Len(es)
<1>1. Chisel!Range(es) = Count + 1 .. Count + Len(es)
  <2> DEFINE k == Len(es)
  <2>1. Chisel!Range(es) = {es[i] : i \in 1 .. k}
    <3>1. DOMAIN es = 1 .. k
      BY LenProperties
    <3> QED
      BY <3>1 DEF Chisel!Range
  <2>2. k \in Nat /\ \A i \in 1 .. k : es[i] = Count + i
    BY <1>n
  <2> HIDE DEF k
  <2>3. \A y \in Count + 1 .. Count + k : y - Count \in 1 .. k /\ Count + (y - Count) = y
    BY <1>n, <2>2
  <2>4. \A i \in 1 .. k : Count + i \in Count + 1 .. Count + k
    BY <1>n, <2>2
  <2>5. Chisel!Range(es) = Count + 1 .. Count + k
    <3>1. Chisel!Range(es) = {Count + i : i \in 1 .. k}
      BY <2>1, <2>2
    <3> QED
      BY <2>3, <2>4, <3>1
  <2> QED
    BY <2>5 DEF k
<1>2. Sent \cup Chisel!Range(es) = more /\ Sent \cap Chisel!Range(es) = {} /\ DOMAIN sentTo = Sent
  <2>1. Sent \cup Chisel!Range(es) = more /\ Sent \cap Chisel!Range(es) = {}
    BY <1>1, <1>n DEF Sent
  <2> QED
    BY <1>t, <2>1 DEF Sends
<1>3. Len(es) = 1 => es = <<Count + 1>>
  BY <1>n
<1>4. es \in Seq(more)
  <2>1. es \in [1 .. Len(es) -> Nat] /\ \A i \in 1 .. Len(es) : es[i] \in more
    <3>1. es \in [1 .. Len(es) -> Nat]
      BY LenProperties
    <3>2. \A i \in 1 .. Len(es) : Count + i \in more
      BY <1>n
    <3> QED
      BY <3>1, <3>2
  <2>2. es \in [1 .. Len(es) -> more]
    BY <2>1
  <2> QED
    BY <1>n, <2>2, SeqDef
<1>5. Sent \subseteq more /\ Seq(Sent) \subseteq Seq(more)
  BY <1>2, SeqsWiden
<1>6. /\ muddled' \in BOOLEAN
      /\ ~muddled' => /\ ~muddled /\ ~(Len(es) > 1) /\ \A x \in Sent : Chisel!Settled(x)
  <2>1. muddled' = (muddled \/ Len(es) > 1 \/ \E e \in DOMAIN sentTo : ~Chisel!Settled(e))
    BY DEF Chisel!Evaluate
  <2> QED
    BY <1>2, <1>t, <2>1 DEF ChiselTypes
<1>o. ~(Len(es) > 1) => Len(es) = 1
  <2>1. \A n \in Nat : n # 0 /\ ~(n > 1) => n = 1
    OBVIOUS
  <2> QED
    BY <1>n, <2>1
(* What is common to both cases follows from what differs in them.         *)
<1>7. ASSUME NEW q \in 1 .. MaxSpawns, spawned <= q, spawned' = q, process' = q,
             sentTo' = [e \in DOMAIN sentTo \cup Chisel!Range(es) |-> IF e \in Chisel!Range(es) THEN q ELSE sentTo[e]],
             process' = process \/ process' > spawned,
             \A p \in Chisel!Procs : /\ pst[p] \in Over => pst'[p] \in Over
                                     /\ Chisel!Range(input'[p]) \subseteq Chisel!Range(input[p]) \cup Chisel!Range(es)
      PROVE  /\ Count' = Count + Len(es) /\ Sent' = more /\ sentTo' \in [Sent' -> 1 .. spawned']
             /\ ~muddled' => sentTo'[Count'] = spawned' /\ \A x \in Sent : Chisel!Settled(x)'
  <2>1. DOMAIN sentTo' = more
    BY <1>2, <1>7
  <2>2. Count' = Count + Len(es)
    <3> DEFINE k == Count + Len(es)
    <3>1. k \in Nat /\ Count' = Chisel!Cardinality(DOMAIN sentTo')
      BY <1>n DEF Count
    <3>2. Count' = Chisel!Cardinality(1 .. k)
      BY <2>1, <3>1
    <3> HIDE DEF k
    <3>3. Count' = k
      BY <3>1, <3>2, ChiselCounts
    <3> QED
      BY <3>3 DEF k
  <2>3. Sent' = more
    BY <2>2 DEF Sent
  <2>4. \A x \in more : sentTo'[x] = IF x \in Chisel!Range(es) THEN q ELSE sentTo[x]
    BY <1>2, <1>7
  <2>5. \A x \in Sent : sentTo[x] \in 1 .. spawned
    BY <1>t DEF Sends
  <2>6. sentTo' \in [Sent' -> 1 .. spawned']
    <3>1. q \in 1 .. q /\ 1 .. spawned \subseteq 1 .. q
      BY <1>7, <1>n
    <3>2. \A x \in more : sentTo'[x] \in 1 .. q
      BY <1>2, <2>4, <2>5, <3>1
    <3>3. sentTo' = [x \in more |-> sentTo'[x]]
      BY <1>2, <1>7
    <3> QED
      BY <1>7, <2>3, <3>2, <3>3
  <2>7. sentTo'[Count'] = spawned'
    <3>1. Count' \in Chisel!Range(es) /\ Count' \in more
      BY <1>1, <1>n, <2>2
    <3> QED
      BY <1>7, <2>4, <3>1
  <2>8. ASSUME ~muddled', NEW x \in Sent PROVE Chisel!Settled(x)'
    <3>1. Chisel!Settled(x) /\ x \notin Chisel!Range(es)
      BY <1>2, <1>6, <2>8
    <3>2. sentTo'[x] = sentTo[x]
      BY <1>2, <2>4, <3>1
    <3>3. process' = process \/ process' # sentTo[x]
      BY <1>7, <1>n, <2>5
    <3> QED
      BY <1>7, <3>1, <3>2, <3>3, SettledStays
  <2> QED
    BY <2>2, <2>3, <2>6, <2>7, <2>8
<1>8. CASE Chisel!Running(process)
  <2>1. /\ pending' = pending \o es /\ input' = [input EXCEPT ![process] = @ \o es]
        /\ sentTo' = [e \in DOMAIN sentTo \cup Chisel!Range(es) |-> IF e \in Chisel!Range(es) THEN process ELSE sentTo[e]]
        /\ spawned' = spawned /\ pst' = pst /\ process' = process /\ overlapped' = overlapped
    BY <1>8 DEF Chisel!Evaluate
  <2>2. process = spawned /\ spawned \in 1 .. MaxSpawns /\ process \in Chisel!Procs
    BY <1>8, <1>t, <1>n DEF Chisel!Running, Chisel!None, ChiselTypes, Chisel!Procs
  <2>3. input[process] \in Seq(Sent) /\ pending \in Seq(Sent) /\ input \in [Chisel!Procs -> Seq(Sent)]
    BY <1>t, <2>2 DEF Flows
  <2>4. ASSUME NEW s \in Seq(Sent)
        PROVE  s \o es \in Seq(more) /\ Chisel!Range(s \o es) = Chisel!Range(s) \cup Chisel!Range(es)
    <3>1. s \in Seq(more)
      BY <1>5
    <3>2. s \o es \in Seq(more)
      BY <1>4, <3>1, ConcatProperties
    <3> QED
      BY <1>4, <3>1, <3>2, RangeFacts
  <2>5. \A p \in Chisel!Procs : input'[p] = IF p = process THEN input[p] \o es ELSE input[p]
    BY <2>1, <2>2, <2>3
  <2>6. pending' \in Seq(more) /\ input' \in [Chisel!Procs -> Seq(more)]
    <3>1. \A p \in Chisel!Procs : input'[p] \in Seq(more)
      BY <1>5, <2>3, <2>4, <2>5
    <3>2. input' = [p \in Chisel!Procs |-> input'[p]]
      BY <2>1, <2>3
    <3> QED
      BY <2>1, <2>3, <2>4, <3>1, <3>2
  <2>7. \A p \in Chisel!Procs : Chisel!Range(input'[p]) \subseteq Chisel!Range(input[p]) \cup Chisel!Range(es)
    BY <2>3, <2>4, <2>5
  <2>8. /\ Count' = Count + Len(es) /\ Sent' = more /\ sentTo' \in [Sent' -> 1 .. spawned']
        /\ ~muddled' => sentTo'[Count'] = spawned' /\ \A x \in Sent : Chisel!Settled(x)'
    <3>1. /\ process \in 1 .. MaxSpawns /\ spawned <= process /\ spawned' = process /\ process' = process
      BY <1>n, <2>1, <2>2
    <3>2. \A p \in Chisel!Procs : pst[p] \in Over => pst'[p] \in Over
      BY <2>1
    <3> QED
      BY <1>7, <2>1, <2>7, <3>1, <3>2
  <2>9. ASSUME ~muddled' PROVE Len(es) = 1 /\ ~muddled /\ pending' = <<Count'>>
    <3>1. Len(es) = 1 /\ ~muddled /\ Serial
      BY <1>6, <1>o, <1>t, <2>9
    <3>2. pending = <<>>
      <4> SUFFICES ASSUME pending # <<>> PROVE FALSE
        OBVIOUS
      <4>1. Count > 0 /\ sentTo[Count] = spawned /\ \A c \in cards : c[1] # Count
        BY <3>1 DEF Serial
      <4>2. Chisel!Settled(Count)
        BY <1>6, <1>n, <2>9, <4>1 DEF Sent
      <4> QED
        BY <2>2, <4>1, <4>2 DEF Chisel!Settled
    <3>3. <<>> \o es = es
      BY ConcatEmptySeq
    <3> QED
      BY <1>3, <2>1, <2>8, <3>1, <3>2, <3>3
  <2>10. Chisel!HeldOrTold'
    BY <1>t, <2>1 DEF Chisel!HeldOrTold
  <2>11. /\ pst' \in [Chisel!Procs -> ChiselStates] /\ overlapped' \in BOOLEAN
         /\ \A p \in Chisel!Procs : p > spawned' => pst'[p] = "none"
    BY <1>t, <2>1 DEF ChiselTypes
  <2> QED
    BY <1>5, <1>6, <1>n, <2>1, <2>2, <2>6, <2>8, <2>9, <2>10, <2>11
<1>9. CASE ~Chisel!Running(process)
  <2>1. /\ Chisel!Spawn(es, pst)
        /\ sentTo' = [e \in DOMAIN sentTo \cup Chisel!Range(es) |-> IF e \in Chisel!Range(es) THEN spawned + 1 ELSE sentTo[e]]
    BY <1>9 DEF Chisel!Evaluate
  <2>2. pst \in [Chisel!Procs -> ChiselStates]
    BY <1>t DEF ChiselTypes
  <2>3. /\ spawned' = spawned + 1 /\ spawned' \in Chisel!Procs /\ spawned' \in 0 .. MaxSpawns
        /\ process' = spawned' /\ pending' = es
        /\ pst' \in [Chisel!Procs -> ChiselStates] /\ \A p \in Chisel!Procs : p > spawned' => pst'[p] = "none"
        /\ \A p \in Chisel!Procs : p # spawned' => pst'[p] = pst[p] /\ input'[p] = input[p]
        /\ pst[spawned'] = "none" /\ input' = [input EXCEPT ![spawned'] = es]
        /\ \A p \in Chisel!Procs : pst[p] \in Over => pst'[p] \in Over
        /\ overlapped' \in BOOLEAN /\ Chisel!HeldOrTold'
    BY <1>t, <2>1, <2>2, ChiselSpawns
  <2>4. input \in [Chisel!Procs -> Seq(Sent)]
    BY <1>t DEF Flows
  <2>5. \A p \in Chisel!Procs : input'[p] = IF p = spawned' THEN es ELSE input[p]
    BY <2>3, <2>4
  <2>6. pending' \in Seq(more) /\ input' \in [Chisel!Procs -> Seq(more)]
    <3>1. \A p \in Chisel!Procs : input'[p] \in Seq(more)
      BY <1>4, <1>5, <2>4, <2>5
    <3>2. input' = [p \in Chisel!Procs |-> input'[p]]
      BY <2>3, <2>4
    <3> QED
      BY <1>4, <2>3, <3>1, <3>2
  <2>7. \A p \in Chisel!Procs : Chisel!Range(input'[p]) \subseteq Chisel!Range(input[p]) \cup Chisel!Range(es)
    BY <2>5
  <2>8. spawned' \in 1 .. MaxSpawns /\ spawned <= spawned' /\ process' > spawned /\ spawned' > 0
    BY <1>n, <2>3
  <2>9. /\ Count' = Count + Len(es) /\ Sent' = more /\ sentTo' \in [Sent' -> 1 .. spawned']
        /\ ~muddled' => sentTo'[Count'] = spawned' /\ \A x \in Sent : Chisel!Settled(x)'
    <3> DEFINE q == spawned'
    <3>1. /\ q \in 1 .. MaxSpawns /\ spawned <= q /\ process' = q
          /\ sentTo' = [e \in DOMAIN sentTo \cup Chisel!Range(es) |-> IF e \in Chisel!Range(es) THEN q ELSE sentTo[e]]
      BY <2>1, <2>3, <2>8
    <3> QED
      BY <1>7, <2>3, <2>7, <2>8, <3>1
  <2>10. ASSUME ~muddled' PROVE Len(es) = 1 /\ ~muddled /\ pending' = <<Count'>>
    <3>1. Len(es) = 1 /\ ~muddled
      BY <1>6, <1>o, <2>10
    <3> QED
      BY <1>3, <2>3, <2>9, <3>1
  <2> QED
    BY <1>5, <1>6, <1>n, <2>3, <2>6, <2>8, <2>9, <2>10
<1> QED
  BY <1>8, <1>9

(* What a step that sends nothing has to keep.                             *)
LEMMA NothingSent ==
  ASSUME ChiselInv, sentTo' = sentTo, muddled' = muddled, ChiselTypes', Chisel!HeldOrTold',
         spawned <= spawned', process' = process \/ process' = 0 \/ process' > spawned,
         selections' \in Seq(Nat), Count + Len(selections') <= MaxExprs,
         \A i \in 1 .. Len(selections') : selections'[i] = Count + i,
         input' \in [Chisel!Procs -> Seq(Sent)], err' \in [Chisel!Procs -> Seq(Sent)],
         out' \in [Chisel!Procs -> Seq(Sent \cup {Chisel!Banner})], buf' \in [Chisel!Procs -> Seq(Sent)],
         quietTimer' => spawned' > 0, \A p \in Chisel!Procs : out'[p] # <<>> => spawned' > 0,
         pending' \in Seq(Sent), cards \subseteq cards', \A c \in cards' : c[1] \in {0} \cup Sent,
         ~muddled => \A c \in cards' : c[1] # 0 => Chisel!Range(c[2]) = {c[1]},
         ~muddled /\ pending' # <<>> => pending' = pending /\ cards' = cards /\ spawned' = spawned,
         \A p \in Chisel!Procs : pst[p] \in Over => pst'[p] \in Over,
         \A p \in Chisel!Procs : Chisel!Range(input'[p]) \subseteq Chisel!Range(input[p]),
         \A p \in Chisel!Procs, x \in Sent :
           x \in Chisel!Range(out'[p]) \cup Chisel!Range(err'[p]) \cup Chisel!Range(buf'[p]) =>
             \/ x \in Chisel!Range(out[p]) \cup Chisel!Range(err[p]) \cup Chisel!Range(buf[p])
             \/ x \in Chisel!Range(input[p]) /\ pst[p] \notin Over
  PROVE  ChiselInv'
<1>t. ChiselTypes /\ Sends /\ Flows /\ Chisel!HeldOrTold /\ (~muddled => Serial)
  BY DEF ChiselInv
<1>1. Count' = Count /\ Sent' = Sent
  BY DEF Count, Sent
<1>2. Sends'
  <2>1. sentTo \in [Sent -> 1 .. spawned] /\ spawned \in Nat /\ spawned' \in Nat /\ Count \in 0 .. MaxExprs
    BY <1>t, PartsAssumption DEF Sends, ChiselTypes
  <2>2. 1 .. spawned \subseteq 1 .. spawned'
    BY <2>1
  <2>3. sentTo' \in [Sent' -> 1 .. spawned']
    BY <1>1, <2>1, <2>2
  <2> QED
    BY <1>1, <2>1, <2>3 DEF Sends
<1>3. Flows'
  BY <1>1 DEF Flows, Chisel!Banner
<1>4. ASSUME ~muddled', NEW x \in Sent, x < Count PROVE Chisel!Settled(x)'
  <2>1. Chisel!Settled(x)
    BY <1>t, <1>4 DEF Serial
  <2>2. sentTo[x] \in 1 .. spawned /\ spawned \in Nat
    BY <1>t, PartsAssumption DEF Sends, ChiselTypes
  <2>3. process' = process \/ process' # sentTo[x]
    BY <2>2
  <2> QED
    BY <2>1, <2>3, SettledStays
<1>5. ~muddled' => Serial'
  <2> SUFFICES ASSUME ~muddled' PROVE Serial'
    OBVIOUS
  <2>1. ~muddled /\ Serial
    BY <1>t
  <2>2. Paired'
    BY <2>1 DEF Paired
  <2>3. \A x \in Sent' : x < Count' => Chisel!Settled(x)'
    BY <1>1, <1>4
  <2>4. ASSUME pending' # <<>>
        PROVE  /\ pending' = <<Count'>> /\ Count' > 0 /\ sentTo'[Count'] = spawned'
               /\ \A c \in cards' : c[1] # Count'
    BY <1>1, <2>1, <2>4 DEF Serial
  <2> QED
    BY <2>2, <2>3, <2>4 DEF Serial
<1> QED
  BY <1>2, <1>3, <1>5 DEF ChiselInv

(* What a step keeps that sends expressions.                               *)
LEMMA SomethingSent ==
  ASSUME ChiselInv, NEW es \in Seq(Nat), es # <<>>, \A i \in 1 .. Len(es) : es[i] = Count + i,
         Count + Len(es) <= MaxExprs, Chisel!Evaluate(es), cards' = cards, err' = err, buf' = buf,
         out' \in [Chisel!Procs -> Seq(Sent \cup {Chisel!Banner})],
         \A p \in Chisel!Procs : Chisel!Range(out'[p]) \cap Sent \subseteq Chisel!Range(out[p]),
         selections' = <<>>, restarting' = restarting, {active', panel', quietTimer'} \subseteq BOOLEAN
  PROVE  ChiselInv'
<1>t. ChiselTypes /\ Sends /\ Flows /\ Chisel!HeldOrTold /\ (~muddled => Serial)
  BY DEF ChiselInv
<1>0. /\ spawned' \in 0 .. MaxSpawns /\ spawned' > 0 /\ process' = spawned' /\ spawned <= spawned'
      /\ pst' \in [Chisel!Procs -> ChiselStates] /\ \A p \in Chisel!Procs : p > spawned' => pst'[p] = "none"
      /\ \A p \in Chisel!Procs : pst[p] # "none" => pst'[p] = pst[p]
      /\ overlapped' \in BOOLEAN /\ muddled' \in BOOLEAN /\ Chisel!HeldOrTold'
      /\ Count' = Count + Len(es) /\ Sent \subseteq Sent' /\ sentTo' \in [Sent' -> 1 .. spawned']
      /\ pending' \in Seq(Sent') /\ input' \in [Chisel!Procs -> Seq(Sent')]
      /\ ~muddled' => /\ Len(es) = 1 /\ ~muddled /\ \A x \in Sent : Chisel!Settled(x)'
                      /\ pending' = <<Count'>> /\ sentTo'[Count'] = spawned'
  BY EvaluateFacts
<1>1. ChiselTypes'
  <2>1. restarting' \in SUBSET Chisel!Procs /\ \A p \in restarting' : pst'[p] = "term"
    BY <1>0, <1>t DEF ChiselTypes
  <2> QED
    BY <1>0, <2>1 DEF ChiselTypes
<1>n. Count \in Nat /\ Len(es) \in Nat /\ MaxExprs \in Nat /\ Len(es) # 0
  <2>1. Len(es) \in Nat /\ Len(es) # 0
    BY LenProperties, EmptySeq
  <2> QED
    BY <1>t, <2>1, PartsAssumption DEF Sends
<1>2. Sends'
  <2>1. Count' \in 0 .. MaxExprs /\ selections' \in Seq(Nat) /\ Len(selections') = 0
    BY <1>0, <1>n, EmptySeq
  <2> QED
    BY <1>0, <2>1, PartsAssumption DEF Sends
<1>3. Flows'
  <2>1. /\ Seq(Sent) \subseteq Seq(Sent')
        /\ Seq(Sent \cup {Chisel!Banner}) \subseteq Seq(Sent' \cup {Chisel!Banner})
    <3>1. Sent \subseteq Sent' /\ Sent \cup {Chisel!Banner} \subseteq Sent' \cup {Chisel!Banner}
      BY <1>0
    <3> QED
      BY <3>1, SeqsWiden
  <2>2. /\ err' \in [Chisel!Procs -> Seq(Sent')] /\ buf' \in [Chisel!Procs -> Seq(Sent')]
        /\ out' \in [Chisel!Procs -> Seq(Sent' \cup {Chisel!Banner})]
    BY <1>t, <2>1 DEF Flows
  <2>3. \A c \in cards' : c[1] \in {0} \cup Sent'
    BY <1>0, <1>t DEF Flows
  <2> QED
    BY <1>0, <2>2, <2>3 DEF Flows, Chisel!Banner
<1>4. ~muddled' => Serial'
  <2> SUFFICES ASSUME ~muddled' PROVE Serial'
    OBVIOUS
  <2>1. Len(es) = 1 /\ ~muddled /\ pending' = <<Count'>> /\ sentTo'[Count'] = spawned' /\ Count' = Count + 1
    BY <1>0
  <2>2. \A x \in Sent : Chisel!Settled(x)'
    BY <1>0
  <2>3. \A x \in Sent' : x < Count' => x \in Sent
    BY <1>n, <2>1 DEF Sent
  <2>4. Paired'
    BY <1>t, <2>1 DEF Serial, Paired
  <2>5. Count' > 0 /\ \A c \in cards' : c[1] # Count'
    <3>1. \A c \in cards' : c[1] \in {0} \cup Sent
      BY <1>t DEF Flows
    <3> QED
      BY <1>n, <2>1, <3>1 DEF Sent
  <2>6. \A x \in Sent' : x < Count' => Chisel!Settled(x)'
    BY <2>2, <2>3
  <2> QED
    BY <2>1, <2>4, <2>5, <2>6 DEF Serial
<1> QED
  BY <1>0, <1>1, <1>2, <1>3, <1>4 DEF ChiselInv

(* A spawn without an expression, by a command or after a restart; an exit *)
(* before it shows what was buffered.                                      *)
LEMMA SpawnsEmpty ==
  ASSUME ChiselInv, NEW closing \in [Chisel!Procs -> ChiselStates],
         \A p \in Chisel!Procs : closing[p] = pst[p] \/ (pst[p] \in {"live", "term"} /\ closing[p] = "dead"),
         Chisel!Spawn(<<>>, closing), sentTo' = sentTo, muddled' = muddled,
         active' \in BOOLEAN, panel' \in BOOLEAN, quietTimer' = quietTimer \/ quietTimer' = FALSE,
         restarting' \subseteq restarting, \A p \in restarting' : closing[p] = pst[p],
         out' = out, err' = err, buf' \in [Chisel!Procs -> Seq(Sent)],
         \A p \in Chisel!Procs : buf'[p] = buf[p] \/ buf'[p] = <<>>,
         cards \subseteq cards', \A c \in cards' : c[1] \in {0} \cup Sent,
         ~muddled => \A c \in cards' : c[1] # 0 => Chisel!Range(c[2]) = {c[1]},
         selections' \in Seq(Nat), Count + Len(selections') <= MaxExprs,
         \A i \in 1 .. Len(selections') : selections'[i] = Count + i
  PROVE  ChiselInv'
<1>t. ChiselTypes /\ Sends /\ Flows /\ Chisel!HeldOrTold
  BY DEF ChiselInv
<1>1. /\ spawned \in Nat /\ spawned' = spawned + 1 /\ spawned' \in Chisel!Procs /\ spawned' \in 0 .. MaxSpawns
      /\ process' = spawned' /\ pending' = <<>>
      /\ pst' \in [Chisel!Procs -> ChiselStates] /\ \A p \in Chisel!Procs : p > spawned' => pst'[p] = "none"
      /\ \A p \in Chisel!Procs : p # spawned' => pst'[p] = closing[p] /\ input'[p] = input[p]
      /\ pst[spawned'] = "none" /\ input' = [input EXCEPT ![spawned'] = <<>>]
      /\ \A p \in Chisel!Procs : pst[p] \in Over => pst'[p] \in Over
      /\ overlapped' \in BOOLEAN /\ Chisel!HeldOrTold'
  BY <1>t, ChiselSpawns
<1>2. ChiselTypes'
  <2>1. restarting' \in SUBSET Chisel!Procs /\ \A p \in restarting' : pst'[p] = "term"
    BY <1>1, <1>t DEF ChiselTypes
  <2>2. quietTimer' \in BOOLEAN /\ muddled' \in BOOLEAN
    BY <1>t DEF ChiselTypes
  <2> QED
    BY <1>1, <2>1, <2>2 DEF ChiselTypes
<1>3. \A S : <<>> \in Seq(S) /\ Chisel!Range(<<>>) = {}
  BY EmptySeq, RangeFacts
<1>4. input' \in [Chisel!Procs -> Seq(Sent)] /\ \A p \in Chisel!Procs : Chisel!Range(input'[p]) \subseteq Chisel!Range(input[p])
  <2>1. input \in [Chisel!Procs -> Seq(Sent)]
    BY <1>t DEF Flows
  <2>2. \A p \in Chisel!Procs : input'[p] = IF p = spawned' THEN <<>> ELSE input[p]
    BY <1>1, <2>1
  <2>3. input' = [p \in Chisel!Procs |-> input'[p]]
    BY <1>1, <2>1
  <2>4. \A p \in Chisel!Procs : input'[p] \in Seq(Sent)
    BY <1>3, <2>1, <2>2
  <2> QED
    BY <1>3, <2>2, <2>3, <2>4
<1>5. \A p \in Chisel!Procs : Chisel!Range(buf'[p]) \subseteq Chisel!Range(buf[p])
  BY <1>3
<1>6. spawned' > 0 /\ spawned <= spawned' /\ process' > spawned
  BY <1>1
<1>7. pending' \in Seq(Sent)
  BY <1>1, <1>3
<1>8. err' \in [Chisel!Procs -> Seq(Sent)] /\ out' \in [Chisel!Procs -> Seq(Sent \cup {Chisel!Banner})]
  BY <1>t DEF Flows
<1>9. \A p \in Chisel!Procs, x \in Sent :
        x \in Chisel!Range(out'[p]) \cup Chisel!Range(err'[p]) \cup Chisel!Range(buf'[p]) =>
          x \in Chisel!Range(out[p]) \cup Chisel!Range(err[p]) \cup Chisel!Range(buf[p])
  BY <1>5
<1> QED
  BY <1>1, <1>2, <1>4, <1>6, <1>7, <1>8, <1>9, NothingSent

(* A step of the pipes and the process states that neither spawns nor      *)
(* sends.                                                                  *)
LEMMA NothingSpawned ==
  ASSUME ChiselInv, UNCHANGED <<spawned, sentTo, muddled, overlapped>>,
         {active', panel', quietTimer'} \subseteq BOOLEAN, process' = process \/ process' = 0,
         quietTimer' => spawned > 0,
         pst' \in [Chisel!Procs -> ChiselStates],
         \A p \in Chisel!Procs :
           /\ pst[p] = "none" => pst'[p] = "none"
           /\ pst[p] \in Over => pst'[p] \in Over
           /\ pst'[p] \in {"starting", "live"} => pst[p] \in {"starting", "live"} /\ (p = process => p = process'),
         restarting' \in SUBSET Chisel!Procs, \A p \in restarting' : pst'[p] = "term",
         selections' \in Seq(Nat), Count + Len(selections') <= MaxExprs,
         \A i \in 1 .. Len(selections') : selections'[i] = Count + i,
         input' \in [Chisel!Procs -> Seq(Sent)], err' \in [Chisel!Procs -> Seq(Sent)],
         out' \in [Chisel!Procs -> Seq(Sent \cup {Chisel!Banner})], buf' \in [Chisel!Procs -> Seq(Sent)],
         \A p \in Chisel!Procs : out'[p] # <<>> => spawned > 0,
         pending' \in Seq(Sent), cards \subseteq cards', \A c \in cards' : c[1] \in {0} \cup Sent,
         ~muddled => \A c \in cards' : c[1] # 0 => Chisel!Range(c[2]) = {c[1]},
         ~muddled /\ pending' # <<>> => pending' = pending /\ cards' = cards,
         \A p \in Chisel!Procs : Chisel!Range(input'[p]) \subseteq Chisel!Range(input[p]),
         \A p \in Chisel!Procs, x \in Sent :
           x \in Chisel!Range(out'[p]) \cup Chisel!Range(err'[p]) \cup Chisel!Range(buf'[p]) =>
             \/ x \in Chisel!Range(out[p]) \cup Chisel!Range(err[p]) \cup Chisel!Range(buf[p])
             \/ x \in Chisel!Range(input[p]) /\ pst[p] \notin Over
  PROVE  ChiselInv'
<1>t. ChiselTypes /\ Chisel!HeldOrTold
  BY DEF ChiselInv
<1>1. ChiselTypes'
  BY <1>t DEF ChiselTypes
<1>2. Chisel!HeldOrTold'
  BY <1>t DEF Chisel!HeldOrTold
<1>3. spawned' = spawned /\ spawned \in Nat /\ spawned <= spawned' /\ (quietTimer' => spawned' > 0)
  BY <1>t, PartsAssumption DEF ChiselTypes
<1> QED
  BY <1>1, <1>2, <1>3, NothingSent

(* The selections that wait are numbered after what was sent.              *)
LEMMA SelectionFacts ==
  ASSUME Sends
  PROVE  /\ Count + Len(selections) < MaxExprs =>
              LET s == Append(selections, Count + Len(selections) + 1)
              IN  s \in Seq(Nat) /\ Count + Len(s) <= MaxExprs /\ \A i \in 1 .. Len(s) : s[i] = Count + i
         /\ selections # <<>> =>
              LET s == Chisel!Front(selections)
              IN  s \in Seq(Nat) /\ Count + Len(s) <= MaxExprs /\ \A i \in 1 .. Len(s) : s[i] = Count + i
<1>1. Count \in Nat /\ Len(selections) \in Nat /\ MaxExprs \in Nat /\ selections \in Seq(Nat)
  BY LenProperties, PartsAssumption DEF Sends
<1> DEFINE n == Len(selections)
<1>2. ASSUME Count + n < MaxExprs
      PROVE  LET s == Append(selections, Count + n + 1)
             IN  s \in Seq(Nat) /\ Count + Len(s) <= MaxExprs /\ \A i \in 1 .. Len(s) : s[i] = Count + i
  <2> DEFINE s == Append(selections, Count + n + 1)
  <2>1. s \in Seq(Nat) /\ Len(s) = n + 1 /\ s[n + 1] = Count + n + 1 /\ \A i \in 1 .. n : s[i] = selections[i]
    BY <1>1, AppendProperties
  <2> HIDE DEF s
  <2>2. \A i \in 1 .. Len(s) : i \in 1 .. n \/ i = n + 1
    BY <1>1, <2>1
  <2>3. Count + Len(s) <= MaxExprs
    BY <1>1, <1>2, <2>1
  <2>4. \A i \in 1 .. n : selections[i] = Count + i
    BY DEF Sends
  <2>5. Count + n + 1 = Count + (n + 1)
    BY <1>1
  <2>6. \A i \in 1 .. Len(s) : s[i] = Count + i
    BY <2>1, <2>2, <2>4, <2>5
  <2> QED
    BY <2>1, <2>3, <2>6 DEF s
<1>3. ASSUME selections # <<>>
      PROVE  LET s == Chisel!Front(selections)
             IN  s \in Seq(Nat) /\ Count + Len(s) <= MaxExprs /\ \A i \in 1 .. Len(s) : s[i] = Count + i
  <2> DEFINE s == SubSeq(selections, 1, n - 1)
  <2>1. n > 0
    BY <1>1, <1>3, EmptySeq
  <2>2. \A i \in 1 .. n : selections[i] \in Nat /\ selections[i] = Count + i
    BY <1>1, LenProperties DEF Sends
  <2>3. \A i \in 1 .. n - 1 : i \in 1 .. n
    BY <1>1
  <2>4. s \in Seq(Nat) /\ Len(s) = n - 1 /\ \A i \in 1 .. n - 1 : s[i] = selections[i]
    <3>1. n - 1 \in Nat
      BY <1>1, <2>1
    <3> DEFINE k == n - 1
    <3>2. \A i \in 1 .. k : selections[i] \in Nat
      BY <2>2, <2>3
    <3> HIDE DEF k
    <3>3. SubSeq(selections, 1, k) = [i \in 1 .. k |-> selections[i]]
      BY <1>1, <3>1 DEF k
    <3>4. [i \in 1 .. k |-> selections[i]] \in [1 .. k -> Nat]
      BY <3>2
    <3>5. [i \in 1 .. k |-> selections[i]] \in Seq(Nat) /\ Len([i \in 1 .. k |-> selections[i]]) = k
      BY <3>1, <3>4, SeqDef DEF k
    <3> QED
      BY <3>3, <3>5 DEF k
  <2> HIDE DEF s
  <2>5. Count + Len(s) <= MaxExprs
    BY <1>1, <2>1, <2>4 DEF Sends
  <2>6. \A i \in 1 .. Len(s) : s[i] = Count + i
    BY <2>2, <2>3, <2>4
  <2>7. Chisel!Front(selections) = s
    BY DEF Chisel!Front, s
  <2> QED
    BY <2>4, <2>5, <2>6, <2>7
<1> QED
  BY <1>2, <1>3

(* The commands of the panel and the extension.                            *)
LEMMA CommandsNext ==
  ASSUME ChiselInv,
         \/ Chisel!OnEvaluate \/ Chisel!Start \/ Chisel!SendSelection \/ Chisel!ReadyTimeout \/ Chisel!Restart
         \/ Chisel!Dispose \/ Chisel!Deactivate \/ \E p \in Chisel!Procs : Chisel!KillTimeout(p)
  PROVE  ChiselInv'
<1>t. ChiselTypes /\ Sends /\ Flows /\ Chisel!HeldOrTold /\ (~muddled => Serial)
  BY DEF ChiselInv
<1>n. Count \in Nat /\ Len(selections) \in Nat /\ MaxExprs \in Nat /\ Len(<<>>) = 0
  BY <1>t, LenProperties, PartsAssumption DEF Sends
<1>p. pst \in [Chisel!Procs -> ChiselStates]
  BY <1>t DEF ChiselTypes
<1>b. buf \in [Chisel!Procs -> Seq(Sent)] /\ \A c \in cards : c[1] \in {0} \cup Sent
  BY <1>t DEF Flows
<1>c. ~muddled => \A c \in cards : c[1] # 0 => Chisel!Range(c[2]) = {c[1]}
  BY <1>t DEF Serial, Paired
<1>s. /\ selections \in Seq(Nat) /\ Count + Len(selections) <= MaxExprs
      /\ \A i \in 1 .. Len(selections) : selections[i] = Count + i
  BY <1>t DEF Sends
<1>x. Chisel!NextExpr = Count + Len(selections) + 1
  BY DEF Chisel!NextExpr, Count
(* One expression is sent.                                                 *)
<1>e. ASSUME Chisel!NextExpr <= MaxExprs, selections = <<>>, Chisel!Evaluate(<<Chisel!NextExpr>>),
             UNCHANGED <<out, err, buf, restarting, selections, cards>>,
             {active', panel', quietTimer'} \subseteq BOOLEAN
      PROVE  ChiselInv'
  <2> DEFINE es == <<Count + 1>>
  <2>1. Chisel!NextExpr = Count + 1
    BY <1>e, <1>n, <1>x
  <2>2. es \in Seq(Nat) /\ es # <<>> /\ Len(es) = 1 /\ es[1] = Count + 1
    BY <1>n
  <2>3. Count + Len(es) <= MaxExprs /\ \A i \in 1 .. Len(es) : es[i] = Count + i
    BY <1>e, <2>1, <2>2
  <2>4. Chisel!Evaluate(es)
    BY <1>e, <2>1
  <2> HIDE DEF es
  <2>5. out' \in [Chisel!Procs -> Seq(Sent \cup {Chisel!Banner})]
    BY <1>e, <1>t DEF Flows
  <2>6. \A p \in Chisel!Procs : Chisel!Range(out'[p]) \cap Sent \subseteq Chisel!Range(out[p])
    BY <1>e
  <2> QED
    BY <1>e, <2>2, <2>3, <2>4, <2>5, <2>6, SomethingSent
(* A subprocess is started for nothing.                                    *)
<1>f. ASSUME Chisel!Spawn(<<>>, pst), UNCHANGED <<out, err, buf, cards, sentTo, muddled>>,
             active' \in BOOLEAN, panel' \in BOOLEAN, quietTimer' = quietTimer \/ quietTimer' = FALSE,
             restarting' \subseteq restarting,
             selections' \in Seq(Nat), Count + Len(selections') <= MaxExprs,
             \A i \in 1 .. Len(selections') : selections'[i] = Count + i
      PROVE  ChiselInv'
  BY <1>b, <1>c, <1>f, <1>p, SpawnsEmpty
(* The process states change, or the selections, and nothing else.         *)
<1>g. ASSUME UNCHANGED <<spawned, sentTo, muddled, overlapped, input, out, err, buf, pending, cards>>,
             {active', panel'} \subseteq BOOLEAN, quietTimer' = quietTimer \/ quietTimer' = FALSE,
             \/ pst' = pst /\ process' = process
             \/ pst' = Chisel!Told /\ process' = 0,
             restarting' \in SUBSET Chisel!Procs, \A p \in restarting' : pst'[p] = "term",
             selections' \in Seq(Nat), Count + Len(selections') <= MaxExprs,
             \A i \in 1 .. Len(selections') : selections'[i] = Count + i
      PROVE  ChiselInv'
  <2>1. /\ pst' \in [Chisel!Procs -> ChiselStates]
        /\ \A p \in Chisel!Procs :
           /\ pst[p] = "none" => pst'[p] = "none"
           /\ pst[p] \in Over => pst'[p] \in Over
           /\ pst'[p] \in {"starting", "live"} => pst[p] \in {"starting", "live"} /\ (p = process => p = process')
    <3>1. CASE pst' = pst /\ process' = process
      BY <1>p, <3>1
    <3>2. CASE pst' = Chisel!Told /\ process' = 0 /\ ~Chisel!Running(process)
      <4>1. pst' = pst /\ (process \in Chisel!Procs => pst[process] \notin {"starting", "live"})
        BY <3>2 DEF Chisel!Told, Chisel!Running, Chisel!None, Chisel!Procs
      <4> QED
        BY <1>p, <4>1
    <3>3. CASE pst' = Chisel!Told /\ process' = 0 /\ Chisel!Running(process)
      <4>1. pst' = [pst EXCEPT ![process] = "term"] /\ pst[process] \in {"starting", "live", "term"}
        BY <3>3 DEF Chisel!Told, Chisel!Running
      <4>2. process = spawned /\ spawned \in 0 .. MaxSpawns /\ process # 0
        BY <1>t, <3>3 DEF Chisel!Running, Chisel!None, ChiselTypes
      <4>3. process \in Chisel!Procs
        BY <4>2, PartsAssumption DEF Chisel!Procs
      <4> QED
        BY <1>p, <3>3, <4>1, <4>3 DEF ChiselStates, Over
    <3> QED
      BY <1>g, <3>1, <3>2, <3>3
  <2>2. /\ input' \in [Chisel!Procs -> Seq(Sent)] /\ err' \in [Chisel!Procs -> Seq(Sent)]
        /\ out' \in [Chisel!Procs -> Seq(Sent \cup {Chisel!Banner})] /\ buf' \in [Chisel!Procs -> Seq(Sent)]
        /\ (\A p \in Chisel!Procs : out'[p] # <<>> => spawned > 0) /\ pending' \in Seq(Sent)
        /\ quietTimer' => spawned > 0
    BY <1>g, <1>t DEF Flows
  <2>3. quietTimer' \in BOOLEAN
    BY <1>g, <1>t DEF ChiselTypes
  <2>4. UNCHANGED <<spawned, sentTo, muddled, overlapped>> /\ (process' = process \/ process' = 0)
    BY <1>g
  <2>5. cards \subseteq cards' /\ (\A c \in cards' : c[1] \in {0} \cup Sent)
        /\ (~muddled => \A c \in cards' : c[1] # 0 => Chisel!Range(c[2]) = {c[1]})
    BY <1>b, <1>c, <1>g
  <2>6. \A p \in Chisel!Procs, x \in Sent :
          x \in Chisel!Range(out'[p]) \cup Chisel!Range(err'[p]) \cup Chisel!Range(buf'[p]) =>
             \/ x \in Chisel!Range(out[p]) \cup Chisel!Range(err[p]) \cup Chisel!Range(buf[p])
             \/ x \in Chisel!Range(input[p]) /\ pst[p] \notin Over
    BY <1>g
  <2> QED
    BY <1>g, <2>1, <2>2, <2>3, <2>4, <2>5, <2>6, NothingSpawned
<1>bool. {active, panel, quietTimer} \subseteq BOOLEAN /\ TRUE \in BOOLEAN /\ FALSE \in BOOLEAN
  BY <1>t DEF ChiselTypes
<1>r. restarting \in SUBSET Chisel!Procs /\ \A p \in restarting : pst[p] = "term"
  BY <1>t DEF ChiselTypes
<1>1. CASE Chisel!OnEvaluate
  BY <1>1, <1>bool, <1>e DEF Chisel!OnEvaluate
<1>2. CASE Chisel!Start
  BY <1>2, <1>bool, <1>f, <1>s DEF Chisel!Start, Chisel!sendVars
<1>3. CASE Chisel!SendSelection
  <2>1. CASE panel /\ selections = <<>> /\ Chisel!Evaluate(<<Chisel!NextExpr>>) /\ UNCHANGED <<panel, selections>>
    BY <1>3, <1>bool, <1>e, <2>1 DEF Chisel!SendSelection
  <2>2. CASE /\ panel' = TRUE /\ Chisel!Spawn(<<>>, pst) /\ selections' = Append(selections, Chisel!NextExpr)
             /\ UNCHANGED <<sentTo, muddled>>
    <3>1. Chisel!NextExpr <= MaxExprs /\ UNCHANGED <<active, out, err, buf, ready, quietTimer, restarting, cards>>
      BY <1>3 DEF Chisel!SendSelection
    <3>2. Count + Len(selections) < MaxExprs /\ selections' = Append(selections, Count + Len(selections) + 1)
      BY <1>n, <1>x, <2>2, <3>1
    <3>3. /\ selections' \in Seq(Nat) /\ Count + Len(selections') <= MaxExprs
          /\ \A i \in 1 .. Len(selections') : selections'[i] = Count + i
      BY <1>t, <3>2, SelectionFacts
    <3> QED
      BY <1>bool, <1>f, <2>2, <3>1, <3>3
  <2> QED
    BY <1>3, <2>1, <2>2 DEF Chisel!SendSelection, Chisel!sendVars
<1>4. CASE Chisel!ReadyTimeout
  <2>1. selections # <<>> /\ selections' = Chisel!Front(selections)
    BY <1>4 DEF Chisel!ReadyTimeout
  <2>2. /\ selections' \in Seq(Nat) /\ Count + Len(selections') <= MaxExprs
        /\ \A i \in 1 .. Len(selections') : selections'[i] = Count + i
    BY <1>t, <2>1, SelectionFacts
  <2>3. /\ UNCHANGED <<spawned, sentTo, muddled, overlapped, input, out, err, buf, pending, cards>>
        /\ UNCHANGED <<active, panel, quietTimer, pst, process, restarting>>
    BY <1>4 DEF Chisel!ReadyTimeout, Chisel!procVars, Chisel!resultVars, Chisel!sendVars
  <2> QED
    BY <1>bool, <1>g, <1>r, <2>2, <2>3
<1>5. CASE Chisel!Restart
  <2>1. /\ quietTimer' = FALSE /\ UNCHANGED <<active, panel, out, err, buf, ready, selections, cards, sentTo, muddled>>
    BY <1>5 DEF Chisel!Restart, Chisel!sendVars
  <2>2. CASE /\ Chisel!Running(process) /\ pst' = Chisel!Told /\ process' = 0 /\ restarting' = restarting \cup {process}
             /\ UNCHANGED <<spawned, pending, input, overlapped>>
    <3>1. process = spawned /\ spawned \in 0 .. MaxSpawns /\ process # 0
      BY <1>t, <2>2 DEF Chisel!Running, Chisel!None, ChiselTypes
    <3>2. process \in Chisel!Procs
      BY <3>1, PartsAssumption DEF Chisel!Procs
    <3>3. restarting' \in SUBSET Chisel!Procs /\ \A p \in restarting' : pst'[p] = "term"
      BY <1>p, <1>r, <2>2, <3>2 DEF Chisel!Told
    <3> QED
      BY <1>bool, <1>g, <1>s, <2>1, <2>2, <3>3
  <2>3. CASE Chisel!Spawn(<<>>, pst) /\ UNCHANGED restarting
    BY <1>bool, <1>f, <1>s, <2>1, <2>3
  <2> QED
    BY <1>5, <2>2, <2>3 DEF Chisel!Restart, Chisel!None
<1>6. CASE Chisel!Dispose \/ Chisel!Deactivate
  <2>1. /\ UNCHANGED <<spawned, sentTo, muddled, overlapped, input, out, err, buf, pending, cards, restarting, selections>>
        /\ {active', panel'} \subseteq BOOLEAN /\ quietTimer' = FALSE /\ pst' = Chisel!Told /\ process' = 0
    BY <1>6, <1>bool DEF Chisel!Dispose, Chisel!Deactivate, Chisel!procVars, Chisel!resultVars, Chisel!sendVars, Chisel!None
  <2>2. \A p \in restarting : pst'[p] = "term"
    BY <1>p, <1>r, <2>1 DEF Chisel!Told
  <2> QED
    BY <1>g, <1>r, <1>s, <2>1, <2>2
<1>7. ASSUME NEW p \in Chisel!Procs, Chisel!KillTimeout(p) PROVE ChiselInv'
  BY <1>7, <1>bool, <1>f, <1>s DEF Chisel!KillTimeout, Chisel!sendVars
<1> QED
  BY <1>1, <1>2, <1>3, <1>4, <1>5, <1>6, <1>7

(* While expressions were sent one by one, all that is buffered and all    *)
(* that comes on stderr is the last one's.                                 *)
LEMMA BufferedIsLast ==
  ASSUME ChiselInv, ~muddled, NEW p \in Chisel!Procs
  PROVE  /\ buf[p] # <<>> => Chisel!Range(buf[p]) = {Count}
         /\ err[p] # <<>> => Head(err[p]) = Count
<1>1. Sends /\ Serial /\ buf[p] \in Seq(Sent) /\ err[p] \in Seq(Sent)
  BY DEF ChiselInv, Flows
<1>2. \A x \in Sent : x \in Chisel!Range(buf[p]) \/ x \in Chisel!Range(err[p]) => x = Count
  BY <1>1, OutputsAreLast
<1>3. Chisel!Range(buf[p]) \subseteq Sent /\ (buf[p] = <<>> <=> Chisel!Range(buf[p]) = {})
  BY <1>1, RangeFacts
<1>4. err[p] # <<>> => Head(err[p]) \in Chisel!Range(err[p]) /\ Head(err[p]) \in Sent
  BY <1>1, RangeFacts, PipeFacts
<1> QED
  BY <1>2, <1>3, <1>4

LEMMA SubprocessNext ==
  ASSUME ChiselInv,
         \/ Chisel!QuietFlush
         \/ \E p \in Chisel!Procs : \/ Chisel!Begin(p) \/ Chisel!SpawnFails(p) \/ Chisel!Reply(p)
                                    \/ Chisel!Stdout(p) \/ Chisel!Stderr(p) \/ Chisel!Exit(p)
  PROVE  ChiselInv'
<1>t. ChiselTypes /\ Sends /\ Flows /\ Chisel!HeldOrTold /\ (~muddled => Serial)
  BY DEF ChiselInv
<1>n. /\ Count \in Nat /\ spawned \in 0 .. MaxSpawns /\ spawned \in Nat /\ MaxExprs \in Nat /\ MaxSpawns \in Nat
      /\ Count <= MaxExprs
  BY <1>t, PartsAssumption DEF Sends, ChiselTypes
<1>p. /\ pst \in [Chisel!Procs -> ChiselStates] /\ restarting \in SUBSET Chisel!Procs
      /\ \A p \in restarting : pst[p] = "term"
  BY <1>t DEF ChiselTypes
<1>q. \A p \in Chisel!Procs : pst[p] # "none" => spawned > 0
  BY <1>n, <1>t DEF ChiselTypes, Chisel!Procs
<1>f. /\ input \in [Chisel!Procs -> Seq(Sent)] /\ err \in [Chisel!Procs -> Seq(Sent)]
      /\ out \in [Chisel!Procs -> Seq(Sent \cup {Chisel!Banner})] /\ buf \in [Chisel!Procs -> Seq(Sent)]
      /\ pending \in Seq(Sent) /\ \A c \in cards : c[1] \in {0} \cup Sent
      /\ quietTimer => spawned > 0
      /\ \A p \in Chisel!Procs : out[p] # <<>> => spawned > 0
  BY <1>t DEF Flows
<1>c. ~muddled => \A c \in cards : c[1] # 0 => Chisel!Range(c[2]) = {c[1]}
  BY <1>t DEF Serial, Paired
<1>s. /\ selections \in Seq(Nat) /\ Count + Len(selections) <= MaxExprs
      /\ \A i \in 1 .. Len(selections) : selections[i] = Count + i
  BY <1>t DEF Sends
<1>b. {active, panel, quietTimer} \subseteq BOOLEAN /\ TRUE \in BOOLEAN /\ FALSE \in BOOLEAN
  BY <1>t DEF ChiselTypes
<1>r. \A S : <<>> \in Seq(S) /\ Chisel!Range(<<>>) = {}
  BY EmptySeq, RangeFacts
<1>1. ASSUME NEW p \in Chisel!Procs, Chisel!Begin(p) PROVE ChiselInv'
  <2>1. /\ pst[p] = "starting" /\ pst' = [pst EXCEPT ![p] = "live"] /\ out' = [out EXCEPT ![p] = <<Chisel!Banner>>]
        /\ UNCHANGED <<active, panel, process, spawned, input, err, buf, ready, pending, cards, quietTimer,
                       restarting, selections, sentTo, muddled, overlapped>>
    BY <1>1 DEF Chisel!Begin, Chisel!resultVars, Chisel!sendVars
  <2>2. /\ pst' \in [Chisel!Procs -> ChiselStates] /\ \A q \in restarting : pst'[q] = "term"
        /\ \A q \in Chisel!Procs :
           /\ pst[q] = "none" => pst'[q] = "none"
           /\ pst[q] \in Over => pst'[q] \in Over
           /\ pst'[q] \in {"starting", "live"} => pst[q] \in {"starting", "live"}
    BY <1>p, <2>1 DEF ChiselStates, Over
  <2>3. <<Chisel!Banner>> \in Seq(Sent \cup {Chisel!Banner}) /\ Chisel!Range(<<Chisel!Banner>>) = {Chisel!Banner}
    BY DEF Chisel!Range
  <2>4. Chisel!Banner \notin Sent
    BY <1>n DEF Sent, Chisel!Banner
  <2>5. \A q \in Chisel!Procs : out'[q] = IF q = p THEN <<Chisel!Banner>> ELSE out[q]
    BY <1>f, <2>1
  <2>6. out' \in [Chisel!Procs -> Seq(Sent \cup {Chisel!Banner})]
    BY <1>f, <2>1, <2>3
  <2>7. spawned > 0
    BY <1>q, <2>1
  <2>8. \A q \in Chisel!Procs, x \in Sent : x \in Chisel!Range(out'[q]) => x \in Chisel!Range(out[q])
    BY <2>3, <2>4, <2>5
  <2> QED
    BY <1>b, <1>c, <1>f, <1>p, <1>s, <2>1, <2>2, <2>6, <2>7, <2>8, NothingSpawned
<1>2. ASSUME NEW p \in Chisel!Procs, Chisel!SpawnFails(p) PROVE ChiselInv'
  <2>1. /\ pst[p] = "starting" /\ pst' = [pst EXCEPT ![p] = "failed"] /\ input' = [input EXCEPT ![p] = <<>>]
        /\ UNCHANGED <<active, panel, process, spawned, out, err, buf, ready, pending, cards, quietTimer,
                       restarting, selections, sentTo, muddled, overlapped>>
    BY <1>2 DEF Chisel!SpawnFails, Chisel!resultVars, Chisel!sendVars
  <2>2. /\ pst' \in [Chisel!Procs -> ChiselStates] /\ \A q \in restarting : pst'[q] = "term"
        /\ \A q \in Chisel!Procs :
           /\ pst[q] = "none" => pst'[q] = "none"
           /\ pst[q] \in Over => pst'[q] \in Over
           /\ pst'[q] \in {"starting", "live"} => pst[q] \in {"starting", "live"}
    BY <1>p, <2>1 DEF ChiselStates, Over
  <2>3. input' \in [Chisel!Procs -> Seq(Sent)]
    BY <1>f, <1>r, <2>1
  <2>4. \A q \in Chisel!Procs : Chisel!Range(input'[q]) \subseteq Chisel!Range(input[q])
    BY <1>f, <1>r, <2>1
  <2> QED
    BY <1>b, <1>c, <1>f, <1>p, <1>s, <2>1, <2>2, <2>3, <2>4, NothingSpawned
<1>3. ASSUME NEW p \in Chisel!Procs, Chisel!Reply(p) PROVE ChiselInv'
  <2> DEFINE e == Head(input[p])
  <2>1. PICK toOut \in {<<>>, <<e>>}, toErr \in {<<>>, <<e>>} :
          out' = [out EXCEPT ![p] = @ \o toOut] /\ err' = [err EXCEPT ![p] = @ \o toErr]
    BY <1>3 DEF Chisel!Reply
  <2>2. /\ pst[p] \in {"live", "term"} /\ input[p] # <<>> /\ input' = [input EXCEPT ![p] = Tail(@)]
        /\ UNCHANGED <<active, panel, process, spawned, pst, buf, ready, pending, cards, quietTimer,
                       restarting, selections, sentTo, muddled, overlapped>>
    BY <1>3 DEF Chisel!Reply, Chisel!resultVars, Chisel!sendVars
  <2>3. /\ e \in Sent /\ Tail(input[p]) \in Seq(Sent)
        /\ e \in Chisel!Range(input[p]) /\ Chisel!Range(Tail(input[p])) \subseteq Chisel!Range(input[p])
    BY <1>f, <2>2, PipeFacts, RangeFacts
  <2> HIDE DEF e
  <2>4. \A s \in {<<>>, <<e>>} : s \in Seq(Sent) /\ s \in Seq(Sent \cup {Chisel!Banner}) /\ Chisel!Range(s) \subseteq {e}
    <3>1. <<e>> \in Seq(Sent) /\ <<e>> \in Seq(Sent \cup {Chisel!Banner}) /\ Chisel!Range(<<e>>) = {e}
      BY <2>3 DEF Chisel!Range
    <3> QED
      BY <1>r, <3>1
  <2>5. /\ out[p] \o toOut \in Seq(Sent \cup {Chisel!Banner}) /\ err[p] \o toErr \in Seq(Sent)
        /\ Chisel!Range(out[p] \o toOut) \subseteq Chisel!Range(out[p]) \cup {e}
        /\ Chisel!Range(err[p] \o toErr) \subseteq Chisel!Range(err[p]) \cup {e}
    <3>1. toOut \in Seq(Sent \cup {Chisel!Banner}) /\ out[p] \in Seq(Sent \cup {Chisel!Banner})
      BY <1>f, <2>4
    <3>2. toErr \in Seq(Sent) /\ err[p] \in Seq(Sent)
      BY <1>f, <2>4
    <3>3. out[p] \o toOut \in Seq(Sent \cup {Chisel!Banner}) /\ err[p] \o toErr \in Seq(Sent)
      BY <3>1, <3>2, ConcatProperties
    <3>4. /\ Chisel!Range(out[p] \o toOut) = Chisel!Range(out[p]) \cup Chisel!Range(toOut)
          /\ Chisel!Range(err[p] \o toErr) = Chisel!Range(err[p]) \cup Chisel!Range(toErr)
      BY <3>1, <3>2, RangeFacts
    <3> QED
      BY <2>4, <3>3, <3>4
  <2>6. /\ out' \in [Chisel!Procs -> Seq(Sent \cup {Chisel!Banner})] /\ err' \in [Chisel!Procs -> Seq(Sent)]
        /\ input' \in [Chisel!Procs -> Seq(Sent)]
    BY <1>f, <2>1, <2>2, <2>3, <2>5
  <2>7. \A q \in Chisel!Procs : Chisel!Range(input'[q]) \subseteq Chisel!Range(input[q])
    BY <1>f, <2>2, <2>3
  <2>8. \A q \in Chisel!Procs : q # p => out'[q] = out[q] /\ err'[q] = err[q]
    BY <1>f, <2>1
  <2>9. out'[p] = out[p] \o toOut /\ err'[p] = err[p] \o toErr
    BY <1>f, <2>1
  <2>10. \A q \in Chisel!Procs, x \in Sent :
           x \in Chisel!Range(out'[q]) \cup Chisel!Range(err'[q]) \cup Chisel!Range(buf'[q]) =>
             \/ x \in Chisel!Range(out[q]) \cup Chisel!Range(err[q]) \cup Chisel!Range(buf[q])
             \/ x \in Chisel!Range(input[q]) /\ pst[q] \notin Over
    BY <2>2, <2>3, <2>5, <2>8, <2>9 DEF Over
  <2>11. spawned > 0
    BY <1>q, <2>2
  <2> QED
    BY <1>b, <1>c, <1>f, <1>p, <1>s, <2>2, <2>6, <2>7, <2>10, <2>11, NothingSpawned
<1>4. ASSUME NEW p \in Chisel!Procs, Chisel!Stdout(p) PROVE ChiselInv'
  <2>1. /\ out[p] # <<>> /\ out' = [out EXCEPT ![p] = Tail(@)] /\ quietTimer' = TRUE
        /\ UNCHANGED <<active, panel, err, restarting, cards>>
    BY <1>4 DEF Chisel!Stdout
  <2>2. /\ Head(out[p]) \in Sent \cup {Chisel!Banner} /\ Tail(out[p]) \in Seq(Sent \cup {Chisel!Banner})
        /\ Head(out[p]) \in Chisel!Range(out[p]) /\ Chisel!Range(Tail(out[p])) \subseteq Chisel!Range(out[p])
    BY <1>f, <2>1, PipeFacts, RangeFacts
  <2>3. /\ out' \in [Chisel!Procs -> Seq(Sent \cup {Chisel!Banner})]
        /\ \A q \in Chisel!Procs : Chisel!Range(out'[q]) \subseteq Chisel!Range(out[q])
    BY <1>f, <2>1, <2>2
  <2>4. spawned > 0
    BY <1>f, <2>1
  <2>5. CASE Chisel!Evaluate(selections) /\ selections # <<>> /\ selections' = <<>> /\ UNCHANGED buf
    BY <1>b, <1>s, <2>1, <2>3, <2>5, SomethingSent
  <2>6. CASE /\ UNCHANGED <<process, spawned, pst, input, pending, overlapped, sentTo, muddled>>
             /\ \/ selections' = selections /\ Head(out[p]) # Chisel!Banner
                   /\ buf' = [buf EXCEPT ![p] = Append(@, Head(out[p]))]
                \/ selections' = selections /\ buf' = buf
    <3>1. /\ buf' \in [Chisel!Procs -> Seq(Sent)]
          /\ \A q \in Chisel!Procs : Chisel!Range(buf'[q]) \subseteq Chisel!Range(buf[q]) \cup Chisel!Range(out[q])
      <4>1. CASE Head(out[p]) # Chisel!Banner /\ buf' = [buf EXCEPT ![p] = Append(@, Head(out[p]))]
        <5>1. buf[p] \in Seq(Sent) /\ Head(out[p]) \in Sent
          BY <1>f, <2>2, <4>1
        <5>2. /\ Append(buf[p], Head(out[p])) \in Seq(Sent)
              /\ Chisel!Range(Append(buf[p], Head(out[p]))) = Chisel!Range(buf[p]) \cup {Head(out[p])}
          BY <5>1, AppendProperties, RangeFacts
        <5> QED
          BY <1>f, <2>2, <4>1, <5>2
      <4>2. CASE buf' = buf
        BY <1>f, <4>2
      <4> QED
        BY <2>6, <4>1, <4>2
    <3>2. \A q \in Chisel!Procs, x \in Sent :
            x \in Chisel!Range(out'[q]) \cup Chisel!Range(err'[q]) \cup Chisel!Range(buf'[q]) =>
              x \in Chisel!Range(out[q]) \cup Chisel!Range(err[q]) \cup Chisel!Range(buf[q])
      BY <2>1, <2>3, <3>1
    <3>3. selections' = selections /\ pst' = pst /\ process' = process
      BY <2>6
    <3> QED
      BY <1>b, <1>c, <1>f, <1>p, <1>s, <2>1, <2>3, <2>4, <2>6, <3>1, <3>2, <3>3, NothingSpawned
  <2> QED
    BY <1>4, <2>5, <2>6 DEF Chisel!Stdout, Chisel!sendVars
<1>5. ASSUME NEW p \in Chisel!Procs, Chisel!Stderr(p) PROVE ChiselInv'
  <2> DEFINE rs == << <<Head(err[p])>> >>
  <2>1. /\ err[p] # <<>> /\ err' = [err EXCEPT ![p] = Tail(@)] /\ Chisel!Consume(rs)
        /\ UNCHANGED <<active, panel, process, spawned, pst, input, out, buf, ready, quietTimer,
                       restarting, selections, sentTo, muddled, overlapped>>
    BY <1>5 DEF Chisel!Stderr, Chisel!sendVars
  <2>2. /\ Head(err[p]) \in Sent /\ Tail(err[p]) \in Seq(Sent) /\ Chisel!Range(Tail(err[p])) \subseteq Chisel!Range(err[p])
    BY <1>f, <2>1, PipeFacts, RangeFacts
  <2>3. rs \in Seq(Seq(Sent)) /\ Len(rs) = 1 /\ rs[1] = <<Head(err[p])>>
    BY <2>2
  <2>4. Chisel!Range(<<Head(err[p])>>) = {Head(err[p])}
    BY DEF Chisel!Range
  <2> HIDE DEF rs
  <2>5. ~muddled => \A i \in 1 .. Len(rs) : Chisel!Range(rs[i]) = {Count}
    BY <2>1, <2>3, <2>4, BufferedIsLast
  <2>6. /\ cards \subseteq cards' /\ (\A c \in cards' : c[1] \in {0} \cup Sent)
        /\ (~muddled => \A c \in cards' : c[1] # 0 => Chisel!Range(c[2]) = {c[1]})
        /\ pending' \in Seq(Sent) /\ (~muddled /\ pending' # <<>> => pending' = pending /\ cards' = cards)
    BY <2>1, <2>3, <2>5, ConsumeFacts DEF Chisel!Consume
  <2>7. /\ err' \in [Chisel!Procs -> Seq(Sent)]
        /\ \A q \in Chisel!Procs : Chisel!Range(err'[q]) \subseteq Chisel!Range(err[q])
    BY <1>f, <2>1, <2>2
  <2> QED
    BY <1>b, <1>c, <1>f, <1>p, <1>s, <2>1, <2>6, <2>7, NothingSpawned
<1>6. CASE Chisel!QuietFlush
  <2>1. /\ quietTimer /\ quietTimer' = FALSE
        /\ UNCHANGED <<active, panel, process, spawned, pst, input, out, err, ready, restarting,
                       selections, sentTo, muddled, overlapped>>
    BY <1>6 DEF Chisel!QuietFlush, Chisel!sendVars
  <2>2. spawned \in Chisel!Procs
    BY <1>f, <1>n, <2>1 DEF Chisel!Procs
  <2>3. CASE /\ buf[spawned] # <<>> /\ buf' = [buf EXCEPT ![spawned] = <<>>] /\ Chisel!Consume(<<buf[spawned]>>)
    <3> DEFINE rs == <<buf[spawned]>>
    <3>1. rs \in Seq(Seq(Sent)) /\ Len(rs) = 1 /\ rs[1] = buf[spawned]
      BY <1>f, <2>2
    <3>2. Chisel!Consume(rs)
      BY <2>3
    <3> HIDE DEF rs
    <3>3. ~muddled => \A i \in 1 .. Len(rs) : Chisel!Range(rs[i]) = {Count}
      <4>1. ~muddled => Chisel!Range(buf[spawned]) = {Count}
        BY <2>2, <2>3, BufferedIsLast
      <4>2. \A i \in 1 .. Len(rs) : rs[i] = buf[spawned]
        BY <3>1
      <4> QED
        BY <4>1, <4>2
    <3>4. /\ cards \subseteq cards' /\ (\A c \in cards' : c[1] \in {0} \cup Sent)
          /\ (~muddled => \A c \in cards' : c[1] # 0 => Chisel!Range(c[2]) = {c[1]})
          /\ pending' \in Seq(Sent) /\ (~muddled /\ pending' # <<>> => pending' = pending /\ cards' = cards)
      BY <3>1, <3>2, <3>3, ConsumeFacts DEF Chisel!Consume
    <3>5. /\ buf' \in [Chisel!Procs -> Seq(Sent)]
          /\ \A q \in Chisel!Procs : Chisel!Range(buf'[q]) \subseteq Chisel!Range(buf[q])
      BY <1>f, <1>r, <2>3
    <3> QED
      BY <1>b, <1>c, <1>f, <1>p, <1>s, <2>1, <3>4, <3>5, NothingSpawned
  <2>4. CASE UNCHANGED <<buf, pending, cards>>
    BY <1>b, <1>c, <1>f, <1>p, <1>s, <2>1, <2>4, NothingSpawned
  <2> QED
    BY <1>6, <2>3, <2>4 DEF Chisel!QuietFlush, Chisel!resultVars
<1>7. ASSUME NEW p \in Chisel!Procs, Chisel!Exit(p) PROVE ChiselInv'
  <2> DEFINE rs == [i \in DOMAIN buf[p] |-> <<buf[p][i]>>]
             dead == [pst EXCEPT ![p] = "dead"]
  <2>1. /\ pst[p] \in {"live", "term"} /\ buf' = [buf EXCEPT ![p] = <<>>]
        /\ UNCHANGED <<active, panel, out, err, ready, quietTimer, selections, sentTo, muddled>>
    BY <1>7 DEF Chisel!Exit, Chisel!sendVars
  <2>2. rs \in Seq(Seq(Sent)) /\ (~muddled => \A i \in 1 .. Len(rs) : Chisel!Range(rs[i]) = {Count})
    <3>1. buf[p] \in Seq(Sent) /\ Len(buf[p]) \in Nat /\ DOMAIN buf[p] = 1 .. Len(buf[p])
          /\ \A i \in 1 .. Len(buf[p]) : buf[p][i] \in Sent
      BY <1>f, LenProperties
    <3>2. \A y \in Sent : <<y>> \in Seq(Sent)
      OBVIOUS
    <3>3. rs \in [1 .. Len(buf[p]) -> Seq(Sent)]
      BY <3>1, <3>2
    <3>4. rs \in Seq(Seq(Sent)) /\ DOMAIN rs = 1 .. Len(buf[p])
      BY <3>1, <3>3, SeqDef
    <3>5. Len(rs) = Len(buf[p])
      BY <3>1, <3>4, LenProperties
    <3>6. \A y : Chisel!Range(<<y>>) = {y}
      BY DEF Chisel!Range
    <3>7. ASSUME ~muddled, NEW i \in 1 .. Len(rs) PROVE Chisel!Range(rs[i]) = {Count}
      <4>1. i \in 1 .. Len(buf[p]) /\ rs[i] = <<buf[p][i]>>
        BY <3>1, <3>5
      <4>2. buf[p][i] \in Chisel!Range(buf[p]) /\ buf[p] # <<>>
        BY <3>1, <4>1, RangeFacts
      <4>3. Chisel!Range(buf[p]) = {Count}
        BY <3>7, <4>2, BufferedIsLast
      <4>4. buf[p][i] = Count
        BY <4>2, <4>3
      <4> QED
        BY <3>6, <4>1, <4>4
    <3> QED
      BY <3>4, <3>7
  <2>3. /\ cards \subseteq Chisel!Shown(rs) /\ (\A c \in Chisel!Shown(rs) : c[1] \in {0} \cup Sent)
        /\ (~muddled => \A c \in Chisel!Shown(rs) : c[1] # 0 => Chisel!Range(c[2]) = {c[1]})
        /\ SubSeq(pending, Len(rs) + 1, Len(pending)) \in Seq(Sent)
        /\ ~muddled /\ SubSeq(pending, Len(rs) + 1, Len(pending)) # <<>> =>
             SubSeq(pending, Len(rs) + 1, Len(pending)) = pending /\ Chisel!Shown(rs) = cards
    <3> HIDE DEF rs
    <3> QED
      BY <2>2, ConsumeFacts
  <2>4. /\ dead \in [Chisel!Procs -> ChiselStates] /\ dead[p] = "dead"
        /\ \A q \in Chisel!Procs : q # p => dead[q] = pst[q]
    BY <1>p DEF ChiselStates
  <2>5. /\ buf' \in [Chisel!Procs -> Seq(Sent)]
        /\ \A q \in Chisel!Procs : /\ buf'[q] = buf[q] \/ buf'[q] = <<>>
                                   /\ Chisel!Range(buf'[q]) \subseteq Chisel!Range(buf[q])
    BY <1>f, <1>r, <2>1
  <2>6. CASE restarting' = restarting \ {p} /\ cards' = Chisel!Shown(rs) /\ Chisel!Spawn(<<>>, dead)
    <3> HIDE DEF rs, dead
    <3>1. \A q \in Chisel!Procs : dead[q] = pst[q] \/ (pst[q] \in {"live", "term"} /\ dead[q] = "dead")
      BY <2>1, <2>4
    <3>2. restarting' \subseteq restarting /\ \A q \in restarting' : dead[q] = pst[q]
      BY <1>p, <2>4, <2>6
    <3>3. active' \in BOOLEAN /\ panel' \in BOOLEAN /\ quietTimer' = quietTimer
      BY <1>b, <2>1
    <3> QED
      BY <1>s, <2>1, <2>3, <2>4, <2>5, <2>6, <3>1, <3>2, <3>3, SpawnsEmpty
  <2>7. CASE /\ p \notin restarting /\ process' = Chisel!ForgetProcess(p) /\ pst' = dead /\ Chisel!Consume(rs)
             /\ UNCHANGED <<input, restarting, spawned, overlapped>>
    <3> HIDE DEF rs, dead
    <3>1. cards' = Chisel!Shown(rs) /\ pending' = SubSeq(pending, Len(rs) + 1, Len(pending))
      BY <2>7 DEF Chisel!Consume
    <3>2. process' = IF process = p THEN 0 ELSE process
      BY <2>7 DEF Chisel!ForgetProcess, Chisel!None
    <3>3. /\ \A q \in restarting : pst'[q] = "term"
          /\ \A q \in Chisel!Procs :
             /\ pst[q] = "none" => pst'[q] = "none"
             /\ pst[q] \in Over => pst'[q] \in Over
             /\ pst'[q] \in {"starting", "live"} => pst[q] \in {"starting", "live"} /\ (q = process => q = process')
      BY <1>p, <2>1, <2>4, <2>7, <3>2 DEF Over
    <3> QED
      BY <1>b, <1>f, <1>p, <1>s, <2>1, <2>3, <2>4, <2>5, <2>7, <3>1, <3>2, <3>3, NothingSpawned
  <2> QED
    BY <1>7, <2>6, <2>7 DEF Chisel!Exit
<1> QED
  BY <1>1, <1>2, <1>3, <1>4, <1>5, <1>6, <1>7

LEMMA ChiselNext == ChiselInv /\ [Chisel!Next]_chiselVars => ChiselInv'
<1>1. ASSUME ChiselInv, UNCHANGED chiselVars PROVE ChiselInv'
  <2>1. /\ ChiselTypes' = ChiselTypes /\ Sends' = Sends /\ Flows' = Flows
        /\ (~muddled => Serial)' = (~muddled => Serial) /\ Chisel!HeldOrTold' = Chisel!HeldOrTold
    BY <1>1 DEF chiselVars, ChiselTypes, Sends, Flows, Serial, Paired, Sent, Count, Chisel!Settled, Chisel!HeldOrTold
  <2> QED
    BY <1>1, <2>1 DEF ChiselInv
<1> QED
  BY <1>1, CommandsNext, SubprocessNext DEF Chisel!Next

(* The inductive invariant gives the types and what is checked.            *)
LEMMA EvaluationsFit == ChiselInv => Chisel!TypeOK /\ Chisel!EvaluationsAreKept
<1> SUFFICES ASSUME ChiselInv PROVE Chisel!TypeOK /\ Chisel!EvaluationsAreKept
  OBVIOUS
<1>1. ChiselTypes /\ Sends /\ Flows /\ Chisel!HeldOrTold /\ (~muddled => Serial)
  BY DEF ChiselInv
<1>2. Chisel!EvaluationsAreKept
  BY <1>1 DEF Chisel!EvaluationsAreKept, Chisel!PairedWhenSerial, Serial, Paired, Chisel!None
<1>n. Count \in Nat /\ MaxExprs \in Nat /\ Count <= MaxExprs /\ spawned \in 0 .. MaxSpawns /\ MaxSpawns \in Nat
  BY <1>1, PartsAssumption DEF Sends, ChiselTypes
<1>3. Sent \subseteq Chisel!Exprs /\ DOMAIN sentTo = Sent
  BY <1>1, <1>n DEF Sends, Sent, Chisel!Exprs
<1>4. Chisel!Range(pending) \subseteq Chisel!Exprs
  BY <1>1, <1>3, RangeFacts DEF Flows
<1>5. Chisel!Range(selections) \subseteq Chisel!Exprs
  <2>1. selections \in Seq(Nat) /\ Len(selections) \in Nat /\ DOMAIN selections = 1 .. Len(selections)
    BY <1>1, LenProperties DEF Sends
  <2>2. \A i \in 1 .. Len(selections) : selections[i] \in Chisel!Exprs
    BY <1>1, <1>n, <2>1 DEF Sends, Chisel!Exprs
  <2> QED
    BY <2>1, <2>2 DEF Chisel!Range
<1>6. Chisel!TypeOK
  <2>1. process \in 0 .. spawned
    BY <1>1, <1>n DEF ChiselTypes
  <2> QED
    BY <1>1, <1>3, <1>4, <1>5, <2>1 DEF Chisel!TypeOK, ChiselTypes, ChiselStates
<1> QED
  BY <1>2, <1>6

LEMMA ChiselMoves == PartsSpec => Chisel!Init /\ [][Chisel!Next]_chiselVars
<1>1. PartsInit => Chisel!Init
  BY DEF PartsInit
<1>2. [PartsNext]_allVars => [Chisel!Next]_chiselVars
  BY DEF PartsNext, allVars
<1> QED
  BY <1>1, <1>2, PTL DEF PartsSpec
-----------------------------------------------------------------------------
(* No subprocess of the panel is lost that was not told to end, unless one *)
(* was started over it; and as long as expressions are sent one at a time, *)
(* a result is shown under its own expression, whatever restarts, exits    *)
(* and closings cross it (evaluate, restart, consumeResult).               *)
THEOREM EvaluationsStayKept == PartsSpec => []EvaluationsAreKept
<1>1. ChiselInv => EvaluationsAreKept
  BY EvaluationsFit DEF EvaluationsAreKept
<1> QED
  BY <1>1, ChiselInit, ChiselNext, ChiselMoves, PTL
-----------------------------------------------------------------------------
(***************************************************************************)
(* The parts together.                                                     *)
(***************************************************************************)
LEMMA LintMoves == PartsSpec => Lint!Init /\ [][Lint!Next]_lintVars
<1>1. PartsInit => Lint!Init
  BY DEF PartsInit
<1>2. [PartsNext]_allVars => [Lint!Next]_lintVars
  BY DEF PartsNext, allVars
<1> QED
  BY <1>1, <1>2, PTL DEF PartsSpec

LEMMA AnvilMoves == PartsSpec => Anvil!Init /\ [][Anvil!Next]_anvilVars
<1>1. PartsInit => Anvil!Init
  BY DEF PartsInit
<1>2. [PartsNext]_allVars => [Anvil!Next]_anvilVars
  BY DEF PartsNext, allVars
<1> QED
  BY <1>1, <1>2, PTL DEF PartsSpec

LEMMA MutationMoves == PartsSpec => Mutation!Init /\ [][Mutation!Next]_mutationVars
<1>1. PartsInit => Mutation!Init
  BY DEF PartsInit
<1>2. [PartsNext]_allVars => [Mutation!Next]_mutationVars
  BY DEF PartsNext, allVars
<1> QED
  BY <1>1, <1>2, PTL DEF PartsSpec

(* Whatever texts are typed, saved, built, closed and deleted in whatever  *)
(* order, a document without a lint timer shows its last text's lint, and  *)
(* builds that do not overlap show the errors of the last one              *)
(* (DiagnosticsProvider).                                                  *)
THEOREM ProblemsStayCurrent == PartsSpec => []ProblemsAreCurrent
<1>1. LintInv => ProblemsAreCurrent
  BY DEF LintInv, ProblemsAreCurrent, Lint!ProblemsAreCurrent
<1> QED
  BY <1>1, LintInit, LintNext, LintMoves, PTL

(* For any commands, ports and presets: the search gives no port to two    *)
(* instances that run, unless two searches crossed, and an instance whose  *)
(* exit was reported is not shown as running (AnvilManager).               *)
THEOREM InstancesStayApart == PartsSpec => []InstancesAreApart
<1>1. AnvilInv => InstancesAreApart
  BY DEF AnvilInv, InstancesAreApart, Anvil!InstancesAreApart
<1> QED
  BY <1>1, AnvilInit, AnvilNext, AnvilMoves, PTL

(* For any files, saves and candidates: forge runs on one mutant at a time *)
(* in the text it was found in, whatever is saved or cancelled meanwhile,  *)
(* and no directory is left when the campaign ends (runCandidate, run).    *)
THEOREM MutantsStayApart == PartsSpec => []MutantsAreApart
<1>1. MutationInv => MutantsAreApart
  <2>1. MutationInv => Mutation!NothingLeft
    BY DEF MutationInv, DirsOf, ResultsFit, Mutation!NothingLeft
  <2> QED
    BY <2>1 DEF MutationInv, MutantsAreApart, Mutation!MutantsAreApart
<1> QED
  BY <1>1, MutationInit, MutationNext, MutationMoves, PTL
-----------------------------------------------------------------------------
(* The tables' invariant is theirs as a part, too, and gives their types.  *)
LEMMA TablesStay == PartsSpec => []TablesInv
<1>1. PartsInit => TablesInv
  BY InitTables DEF PartsInit
<1>2. [PartsNext]_allVars => [Next]_vars
  BY DEF PartsNext, allVars, tableVars
<1> QED
  BY <1>1, <1>2, StepTables, PTL DEF PartsSpec

LEMMA TableTypes == TablesInv => TypeOK
<1> SUFFICES ASSUME TablesInv PROVE TypeOK
  OBVIOUS
<1>1. /\ cache \in [Files -> Trees \cup {NoTree}] /\ symbolFiles \subseteq Files
      /\ symbolsByFile \in [Files -> SUBSET Symbols] /\ symbolsByName \in [Names -> SUBSET Symbols]
      /\ contractsByName \in [Names -> Files \cup {NoFile}]
      /\ occurrences \in [Names -> SUBSET Entries] /\ fileSymbols \in [Files -> SUBSET Names]
      /\ names \subseteq Names /\ postings = Postings(names)
  BY DEF TablesInv, TreesOK, ByFile, ByName, UsesByFile, Uses, Contracts, Searchable
<1>2. ASSUME NEW n \in Names PROVE UniqueTrigrams(n) \subseteq Seq(Nat)
  <2>1. n \in Seq(Nat)
    BY TableAssumption DEF TableAssumption
  <2>2. Len(n) \in Nat /\ \A i \in 1 .. Len(n) : n[i] \in Nat
    BY <2>1, LenProperties
  <2>3. ASSUME NEW i \in 1 .. (Len(n) - 2) PROVE n[i] \in Nat /\ n[i + 1] \in Nat /\ n[i + 2] \in Nat
    <3>1. i \in 1 .. Len(n) /\ i + 1 \in 1 .. Len(n) /\ i + 2 \in 1 .. Len(n)
      BY <2>2
    <3> QED
      BY <2>2, <3>1
  <2>4. \A a, b, c \in Nat : <<a, b, c>> \in Seq(Nat)
    OBVIOUS
  <2> QED
    BY <2>3, <2>4 DEF UniqueTrigrams
<1>3. Postings(names) \subseteq Seq(Nat) \X Names
  BY <1>1, <1>2 DEF Postings
<1> QED
  BY <1>1, <1>3 DEF TypeOK

LEMMA InstanceTypes == AnvilInv => Anvil!TypeOK
BY DEF AnvilInv, AnvilTypes, Anvil!TypeOK, StatusNames, ProcNames

LEMMA MutationTypesFit == MutationInv => Mutation!TypeOK
<1> SUFFICES ASSUME MutationInv PROVE Mutation!TypeOK
  OBVIOUS
<1>1. /\ disk \in [Sources -> Mutation!Texts] /\ running \in 0 .. Len(candidates)
      /\ sandbox \in [Sources -> [text : {0} \cup Mutation!Texts, mutants : SUBSET (1 .. MaxCandidates)]]
  BY DEF MutationInv, MutationTypes, SandboxFile
<1>2. dirs \subseteq {"source", "mutants", "sandbox", "own"}
  BY DEF MutationInv, MutationTypes, DirsOf
<1> QED
  BY <1>1, <1>2 DEF Mutation!TypeOK

LEMMA DiagnosticTypes == LintInv => Lint!TypeOK
BY DEF LintInv

(* Every part keeps its types, the queues, pipes and searches of its       *)
(* handlers among them.                                                    *)
THEOREM PartsKeepTypes == PartsSpec => []PartsTypeOK
<1>1. TablesInv /\ ChiselInv /\ AnvilInv /\ DebugInv /\ ExplorerInv /\ MutationInv /\ LintInv => PartsTypeOK
  BY TableTypes, EvaluationsFit, InstanceTypes, ContextsFit, TestsReported, MutationTypesFit, DiagnosticTypes
     DEF PartsTypeOK
<1>2. PartsSpec => []ChiselInv
  BY ChiselInit, ChiselNext, ChiselMoves, PTL
<1>3. PartsSpec => []AnvilInv
  BY AnvilInit, AnvilNext, AnvilMoves, PTL
<1>4. PartsSpec => []DebugInv
  BY DebugInit, DebugNext, DebugMoves, PTL
<1>5. PartsSpec => []ExplorerInv
  BY ExplorerInit, ExplorerNext, ExplorerMoves, PTL
<1>6. PartsSpec => []MutationInv
  BY MutationInit, MutationNext, MutationMoves, PTL
<1>7. PartsSpec => []LintInv
  BY LintInit, LintNext, LintMoves, PTL
<1> QED
  BY <1>1, <1>2, <1>3, <1>4, <1>5, <1>6, <1>7, TablesStay, PTL
=============================================================================
