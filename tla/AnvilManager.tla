---------------------------- MODULE AnvilManager ----------------------------
(***************************************************************************)
(* The manager of local Anvil chains.  startInstance chooses a port, which *)
(* takes one asynchronous probe per candidate, spawns anvil, and gives it  *)
(* 500 ms to fail; a preset starts its instances one after the other.      *)
(* Commands run concurrently: each is a request with a place in            *)
(* startInstance.  Ports are counted from BASE_PORT, instances from        *)
(* anvil-1.                                                                *)
(***************************************************************************)
EXTENDS Naturals, FiniteSets

CONSTANTS Commands,      \* commands that start instances
          MaxInstances,  \* bound on instances
          LastPort,      \* last port findAvailablePort tries, from 0
          PresetSize     \* instances of a preset

Ids    == 1..MaxInstances
Ports  == 0..LastPort
NoPort == LastPort + 1

VARIABLES
  at,         \* command -> "idle", "probe" or "wait": its place in startInstance
  left,       \* command -> instances its preset has still to start
  used,       \* command -> usedPorts, the snapshot its search took
  port,       \* command -> the port it tries
  nextId,     \* this.nextId - 1, the instances spawned so far
  waitsFor,   \* command -> the instance whose 500 ms it waits for
  listed,     \* the keys of this.instances
  status,     \* instance -> its status, "none" before it is spawned
  proc,       \* instance -> "none", "up", "bound", "dead" or "reported"
  auto,       \* instances on a port found by the search
  ports,      \* instance -> its port
  foreign,    \* ports bound by other programs
  crowded     \* history: an auto port was searched while another start was open

vars == <<at, left, used, port, nextId, waitsFor, listed, status, proc, auto, ports,
          foreign, crowded>>
instanceVars == <<nextId, listed, status, proc, auto, ports>>

\* getRunning
GetRunning == {i \in listed : status[i] \in {"running", "starting"}}

\* Mutant of UsedPorts: the instances that are still starting are left out.
UsedByRunning == {ports[i] : i \in {j \in listed : status[j] = "running"}}

UsedPorts == {ports[i] : i \in GetRunning}

\* Ports some program listens on: what a probe sees.
Bound == foreign \cup {ports[i] : i \in {j \in Ids : proc[j] = "bound"}}

Others(c) == \E d \in Commands \ {c} : at[d] = "probe"

\* findAvailablePort begins: take the snapshot and try the first port.
Search(c) ==
  /\ at' = [at EXCEPT ![c] = "probe"]
  /\ used' = [used EXCEPT ![c] = UsedPorts']
  /\ port' = [port EXCEPT ![c] = 0]
  /\ crowded' = (crowded \/ Others(c))

(* startInstance without a port, and startPreset with n instances. *)
Begin(c, n) ==
  /\ at[c] = "idle" /\ nextId < MaxInstances
  /\ left' = [left EXCEPT ![c] = n]
  /\ UNCHANGED <<instanceVars, waitsFor, foreign>>
  /\ Search(c)

(* The candidate is in the snapshot, or the probe finds somebody listening on
   it: a program, or another search's probe. *)
NextPort(c) ==
  /\ at[c] = "probe"
  /\ port[c] \in used[c] \cup Bound \/ \E d \in Commands \ {c} : at[d] = "probe" /\ port[d] = port[c]
  /\ IF port[c] < LastPort
       THEN port' = [port EXCEPT ![c] = @ + 1] /\ UNCHANGED <<at, left, used>>
       ELSE /\ at' = [at EXCEPT ![c] = "idle"]      \* "No available ports"
            /\ left' = [left EXCEPT ![c] = 0]
            /\ used' = [used EXCEPT ![c] = {}] /\ port' = [port EXCEPT ![c] = 0]
  /\ UNCHANGED <<instanceVars, waitsFor, foreign, crowded>>

(* The port is free: spawn anvil and list the instance. *)
SpawnOn(c, p, found) ==
  LET i == nextId + 1
  IN  /\ i <= MaxInstances
      /\ nextId' = i
      /\ listed' = listed \cup {i}
      /\ status' = [status EXCEPT ![i] = "starting"]
      /\ proc' = [proc EXCEPT ![i] = "up"]
      /\ ports' = [ports EXCEPT ![i] = p]
      /\ auto' = IF found THEN auto \cup {i} ELSE auto
      /\ at' = [at EXCEPT ![c] = "wait"]
      /\ waitsFor' = [waitsFor EXCEPT ![c] = i]
      /\ used' = [used EXCEPT ![c] = {}] /\ port' = [port EXCEPT ![c] = 0]
      /\ UNCHANGED foreign

PortFound(c) ==
  /\ at[c] = "probe" /\ port[c] \notin used[c] \cup Bound
  /\ SpawnOn(c, port[c], TRUE)
  /\ UNCHANGED <<left, crowded>>

(* startInstance with a port of the user's choice: no search, no check. *)
StartOn(c, p) ==
  /\ at[c] = "idle"
  /\ SpawnOn(c, p, FALSE)
  /\ left' = [left EXCEPT ![c] = 1]
  /\ UNCHANGED crowded

\* status is still "starting" and exitCode is null.
Alive(i) == status[i] = "starting"

(* The 500 ms are over: "starting" becomes "running", and the preset goes on. *)
WaitOver(c) ==
  /\ at[c] = "wait"
  /\ status' = IF Alive(waitsFor[c]) THEN [status EXCEPT ![waitsFor[c]] = "running"] ELSE status
  /\ left' = [left EXCEPT ![c] = @ - 1]
  /\ waitsFor' = [waitsFor EXCEPT ![c] = 0]
  /\ UNCHANGED <<nextId, listed, proc, auto, ports, foreign>>
  /\ IF left[c] > 1
       THEN Search(c)
       ELSE at' = [at EXCEPT ![c] = "idle"] /\ UNCHANGED <<used, port, crowded>>
-----------------------------------------------------------------------------
(* stopInstance; stopAll is stopInstance on each. *)
StopInstance(S) ==
  /\ S # {}
  /\ status' = [i \in Ids |-> IF i \in S THEN "stopped" ELSE status[i]]
  /\ listed' = listed \ S
  /\ UNCHANGED <<at, left, used, port, nextId, waitsFor, proc, auto, ports, foreign, crowded>>

Stop == \E i \in listed : StopInstance({i})

StopAll == StopInstance(listed)
-----------------------------------------------------------------------------
(* anvil binds its port, or fails to if somebody listens on it. *)
Bind(i) ==
  /\ proc[i] = "up"
  /\ proc' = [proc EXCEPT ![i] = IF ports[i] \in Bound THEN "dead" ELSE "bound"]
  /\ UNCHANGED <<at, left, used, port, waitsFor, nextId, listed, status, auto, ports, foreign, crowded>>

(* stdout "Listening on". *)
Listening(i) ==
  /\ proc[i] = "bound" /\ status[i] = "starting"
  /\ status' = [status EXCEPT ![i] = "running"]
  /\ UNCHANGED <<at, left, used, port, waitsFor, nextId, listed, proc, auto, ports, foreign, crowded>>

(* anvil ends: killed, stopped or by itself. *)
Die(i) ==
  /\ proc[i] \in {"up", "bound"}
  /\ proc' = [proc EXCEPT ![i] = "dead"]
  /\ UNCHANGED <<at, left, used, port, waitsFor, nextId, listed, status, auto, ports, foreign, crowded>>

(* "exit": code 0 is "stopped", anything else "error"; a stopped instance stays
   stopped.  The instance stays listed. *)
ExitReported(i) ==
  /\ proc[i] = "dead"
  /\ proc' = [proc EXCEPT ![i] = "reported"]
  /\ IF status[i] = "stopped" THEN UNCHANGED status
     ELSE \E s \in {"stopped", "error"} : status' = [status EXCEPT ![i] = s]
  /\ UNCHANGED <<at, left, used, port, waitsFor, nextId, listed, auto, ports, foreign, crowded>>
-----------------------------------------------------------------------------
Init ==
  /\ at = [c \in Commands |-> "idle"] /\ left = [c \in Commands |-> 0]
  /\ used = [c \in Commands |-> {}] /\ port = [c \in Commands |-> 0]
  /\ nextId = 0 /\ waitsFor = [c \in Commands |-> 0] /\ listed = {}
  /\ status = [i \in Ids |-> "none"] /\ proc = [i \in Ids |-> "none"]
  /\ auto = {} /\ ports = [i \in Ids |-> NoPort]
  /\ foreign \in {{}, {0}} /\ crowded = FALSE

Next ==
  \/ \E c \in Commands :
       \/ \E n \in {1, PresetSize} : Begin(c, n)
       \/ \E p \in Ports : StartOn(c, p)
       \/ NextPort(c) \/ PortFound(c) \/ WaitOver(c)
  \/ Stop \/ StopAll
  \/ \E i \in Ids : Bind(i) \/ Listening(i) \/ Die(i) \/ ExitReported(i)

Spec == Init /\ [][Next]_vars
-----------------------------------------------------------------------------
TypeOK ==
  /\ at \in [Commands -> {"idle", "probe", "wait"}]
  /\ left \in [Commands -> 0..PresetSize] /\ waitsFor \in [Commands -> 0..nextId]
  /\ used \in [Commands -> SUBSET Ports] /\ port \in [Commands -> Ports]
  /\ listed \cup auto \subseteq 1..nextId
  /\ status \in [Ids -> {"none", "starting", "running", "stopped", "error"}]
  /\ proc \in [Ids -> {"none", "up", "bound", "dead", "reported"}]
  /\ ports \in [Ids -> Ports \cup {NoPort}]

(* The search never gives a port to two instances that are both starting or
   running, although anvil binds it long after the search.  Two commands that
   search at once are the exception: neither sees the other's choice. *)
DistinctPorts ==
  crowded \/ \A i, j \in auto \cap GetRunning : ports[i] = ports[j] => i = j

(* An instance whose exit was reported is never shown as starting or running,
   in whatever order "Listening on", the exit, a stop and the end of the
   500 ms come. *)
NoGhost == \A i \in Ids : proc[i] = "reported" => status[i] \in {"stopped", "error"}

(* Instances do not share ports and none runs that the manager does not have,
   but for the exceptions above.
   About start and stop, whose steps cross those of anvil. *)
InstancesAreApart == DistinctPorts /\ NoGhost
=============================================================================
