------------------------ MODULE DocumentIndex_proofs -------------------------
(***************************************************************************)
(* Proofs about DocumentIndex for any files, imports, tiers, batch size,   *)
(* workspace folders and number of activities.                             *)
(***************************************************************************)
EXTENDS DocumentIndex, TLAPS

Activities == [kind : Kinds, todo : SUBSET Files, rest : SUBSET Files, seen : SUBSET Files]

(* What the two properties need to know of the activities: which files a   *)
(* watcher's handler or a sweep has still to read, and which are read or   *)
(* parsed.                                                                 *)
WatchHas(f) == \E j \in Jobs : job[j].kind = "watch" /\ f \in job[j].todo
SweepHas(f) == \E j \in Jobs : Sweeping(j) /\ f \in job[j].todo
UnderWay(f) == \E j \in Jobs : <<j, f>> \in reading \/ \E v \in Versions : <<j, f, v>> \in parsing
BlockingSweepRuns == \E j \in Jobs : job[j].kind = "sweep"

(* The watcher's last report of a file fits what is on disk. *)
NoticeFits ==
  \A f \in Files : /\ notice[f] = "deleted" => disk[f] = 0
                   /\ notice[f] = "changed" => disk[f] # 0

(* An open document is indexed, as it is shown if its updates came one at  *)
(* a time.                                                                 *)
OpenIsShown ==
  \A f \in Files : buffer[f] # 0 => /\ indexed[f] # 0
                                    /\ f \notin raced => indexed[f] = buffer[f]

(* EveryFileHasAnIndexer for the files of the folders, listed or not.      *)
RootsHaveAnIndexer ==
  \A f \in roots : disk[f] # 0 /\ indexed[f] = 0 =>
    UnderWay(f) \/ notice[f] = "changed" \/ WatchHas(f) \/ SweepHas(f)
      \/ (f \in Deps \cap listed /\ BlockingSweepRuns)

(* An activity awaits one reading or one parsing of a file, not two. *)
OneAwaitPerFile ==
  \A j \in Jobs, f \in Files, v, w \in Versions :
    <<j, f, v>> \in parsing => <<j, f>> \notin reading /\ (<<j, f, w>> \in parsing => v = w)

(* The rest is about closed files whose updates came one at a time and     *)
(* that the watcher has nothing to say about.                              *)
Settled(f) == buffer[f] = 0 /\ f \notin raced /\ notice[f] = "none"

(* The file will be indexed as it is on disk, whatever is indexed before.  *)
WillBeRead(f) ==
  WatchHas(f) \/ \E j \in Jobs : <<j, f>> \in reading \/ <<j, f, disk[f]>> \in parsing

GoneIsForgotten ==
  \A f \in Files : Settled(f) /\ disk[f] = 0 =>
    indexed[f] = 0 /\ \A j \in Jobs, v \in Versions : <<j, f, v>> \notin parsing

ParsesAreFollowed ==
  \A f \in Files, j \in Jobs, v \in Versions :
    Settled(f) /\ <<j, f, v>> \in parsing => v = disk[f] \/ WillBeRead(f)

ClosedIsFollowed ==
  \A f \in roots \cup Deps :
    Settled(f) => indexed[f] \in {0, disk[f]} \/ WillBeRead(f) \/ SweepHas(f)

IndexInv ==
  /\ TypeOK
  /\ NoticeFits
  /\ OpenIsShown
  /\ RootsHaveAnIndexer
  /\ SweepSkipsFresh
  /\ OneAwaitPerFile
  /\ GoneIsForgotten
  /\ ParsesAreFollowed
  /\ ClosedIsFollowed
-----------------------------------------------------------------------------
LEMMA ActivityType ==
  ASSUME NEW kind \in Kinds, NEW todo \in SUBSET Files, NEW seen \in SUBSET Files,
         NEW rest \in SUBSET Files
  PROVE  Activity(kind, todo, rest, seen) \in Activities
BY DEF Activity, Activities, Kinds

(* Taking files out of the queues of sweeps. *)
LEMMA UnqueueFacts ==
  ASSUME NEW J \in [Jobs -> Activities], NEW f \in Files
  PROVE  /\ Unqueue(J, f) \in [Jobs -> Activities]
         /\ \A i \in Jobs :
              LET swept == J[i].kind \in {"sweep", "deps"}
              IN  /\ Unqueue(J, f)[i].kind = J[i].kind
                  /\ Unqueue(J, f)[i].todo = IF swept THEN J[i].todo \ {f} ELSE J[i].todo
                  /\ Unqueue(J, f)[i].seen = IF swept THEN J[i].seen \cup {f} ELSE J[i].seen
<1>1. \A i \in Jobs : Refreshed(J[i], {f}) \in Activities
  BY DEF Refreshed, Activity, Activities
<1> QED
  BY <1>1 DEF Unqueue, Refreshed, Activity, Activities

(* A step leaves activity i alone, or takes the files X out of its queue.  *)
Kept(i, X) ==
  /\ job'[i].kind = job[i].kind
  /\ \/ job'[i].todo = job[i].todo /\ job'[i].seen = job[i].seen
     \/ /\ Sweeping(i) /\ job'[i].todo = job[i].todo \ X
        /\ job'[i].seen \in {job[i].seen, job[i].seen \cup X}

(* An activity that owes nobody anything: it is free, or it is a walk. *)
OwesNothing(k) == ~Sweeping(k) /\ (job[k].kind = "watch" => job[k].todo = {})

LEMMA FreeOwesNothing == \A k \in Jobs : Free(k) => OwesNothing(k)
BY DEF Free, OwesNothing, Sweeping

(* Replacing such activities, and taking the files X out of sweeps, leaves *)
(* all other files their readers.                                          *)
LEMMA QueuesKept ==
  ASSUME NEW K \in SUBSET Jobs, \A k \in K : OwesNothing(k), NEW X,
         \A i \in Jobs \ K : Kept(i, X)
  PROVE  /\ \A g \in Files : /\ WatchHas(g) => WatchHas(g)'
                             /\ SweepHas(g) /\ g \notin X => SweepHas(g)'
         /\ BlockingSweepRuns => BlockingSweepRuns'
         /\ SweepSkipsFresh => \A i \in Jobs \ K : Sweeping(i)' => job'[i].todo \cap job'[i].seen = {}
<1>1. \A k \in K : ~Sweeping(k) /\ (job[k].kind = "watch" => job[k].todo = {})
  BY DEF OwesNothing
<1> QED
  BY <1>1 DEF WatchHas, SweepHas, BlockingSweepRuns, Sweeping, Kept, SweepSkipsFresh
-----------------------------------------------------------------------------
LEMMA JobType == TypeOK => job \in [Jobs -> Activities]
BY DEF TypeOK, Activities

LEMMA TypeInit == Init => TypeOK
<1> SUFFICES ASSUME Init PROVE TypeOK
  OBVIOUS
<1>1. BlockingSweep(listed) \in Activities /\ Idle \in Activities
  BY IndexAssumption, ActivityType DEF Init, BlockingSweep, Idle, Kinds, OnDisk
<1>2. job \in [Jobs -> Activities]
  BY <1>1 DEF Init
<1>3. 0 \in Versions /\ 1 \in Versions
  BY IndexAssumption DEF Versions
<1>4. disk \in [Files -> Versions] /\ buffer \in [Files -> Versions] /\ indexed \in [Files -> Versions]
  BY <1>3 DEF Init
<1>5. roots \in SUBSET Files /\ listed \in SUBSET roots
  BY IndexAssumption DEF Init, OnDisk
<1> QED
  BY <1>2, <1>3, <1>4, <1>5 DEF Init, TypeOK, Activities

LEMMA FoundType == ASSUME TypeOK, NEW f \in Files PROVE Found(f) \in SUBSET Files
BY IndexAssumption DEF Found, OnDisk, TypeOK

(* What a document's event does to the queues. *)
LEMMA ContentFacts ==
  ASSUME TypeOK, NEW f \in Files, NEW v \in Versions, OnDidChangeContent(f, v)
  PROVE  /\ job' \in [Jobs -> Activities]
         /\ \E k \in Jobs : /\ Free(k) /\ job'[k].kind = "walk"
                            /\ \A i \in Jobs \ {k} : Kept(i, {f})
<1>1. PICK k \in Jobs : Free(k) /\ UpdateFile([job EXCEPT ![k] = Activity("walk", Found(f) \ {f}, {}, {f})], f, v)
  BY DEF OnDidChangeContent
<1> DEFINE W == Activity("walk", Found(f) \ {f}, {}, {f})
           J == [job EXCEPT ![k] = W]
<1>2. W \in Activities
  BY FoundType, ActivityType DEF Kinds
<1>3. J \in [Jobs -> Activities]
  BY <1>2, JobType
<1>4. job' = Unqueue(J, f)
  BY <1>1 DEF UpdateFile
<1>5. W.kind = "walk"
  BY DEF Activity
<1>6. \A i \in Jobs \ {k} : J[i] = job[i]
  BY <1>3
<1>7. J[k] = W
  BY JobType
<1> HIDE DEF W, J
<1>8. job' \in [Jobs -> Activities] /\ job'[k].kind = "walk"
  BY <1>3, <1>4, <1>5, <1>7, UnqueueFacts
<1>9. ASSUME NEW i \in Jobs \ {k} PROVE Kept(i, {f})
  <2>1. J[i] = job[i]
    BY <1>6
  <2>2. LET swept == J[i].kind \in {"sweep", "deps"}
        IN  /\ job'[i].kind = J[i].kind
            /\ job'[i].todo = IF swept THEN J[i].todo \ {f} ELSE J[i].todo
            /\ job'[i].seen = IF swept THEN J[i].seen \cup {f} ELSE J[i].seen
    BY <1>3, <1>4, UnqueueFacts, Zenon
  <2> QED
    BY <2>1, <2>2 DEF Sweeping, Kept
<1> QED
  BY <1>1, <1>8, <1>9

(* The watcher's handler queues the changed files it is given. *)
LEMMA WatchedFacts ==
  ASSUME TypeOK, NEW S \in SUBSET Files, OnDidChangeWatchedFiles(S)
  PROVE  LET removed == {f \in S : buffer[f] = 0 /\ notice[f] = "deleted"}
         IN  /\ job' \in [Jobs -> Activities]
             /\ indexed' = [f \in Files |-> IF f \in removed THEN 0 ELSE indexed[f]]
             /\ \E k \in Jobs : /\ Free(k) /\ job'[k].kind = "watch"
                                /\ job'[k].todo = {f \in S : buffer[f] = 0} \ removed
                                /\ \A i \in Jobs \ {k} : Kept(i, removed)
<1> DEFINE closed  == {f \in S : buffer[f] = 0}
           removed == {f \in closed : notice[f] = "deleted"}
           U == [j \in Jobs |-> IF Sweeping(j) THEN Refreshed(job[j], removed) ELSE job[j]]
           W == Activity("watch", closed \ removed, {}, {})
<1>1. PICK k \in Jobs : Free(k) /\ job' = [U EXCEPT ![k] = W]
  BY DEF OnDidChangeWatchedFiles
<1>2. W \in Activities /\ W.kind = "watch" /\ W.todo = closed \ removed
  BY ActivityType DEF Kinds, Activity
<1>3. \A j \in Jobs : job[j] \in Activities
  BY JobType
<1>4. \A j \in Jobs : Refreshed(job[j], removed) \in Activities
  BY <1>3 DEF Refreshed, Activity, Activities
<1>5. job' \in [Jobs -> Activities] /\ job'[k] = W
  BY <1>1, <1>2, <1>3, <1>4
<1>6. \A i \in Jobs \ {k} : Kept(i, removed)
  BY <1>1 DEF Kept, Refreshed, Activity
<1>7. removed = {f \in S : buffer[f] = 0 /\ notice[f] = "deleted"}
  OBVIOUS
<1>8. indexed' = [f \in Files |-> IF f \in removed THEN 0 ELSE indexed[f]]
  BY DEF OnDidChangeWatchedFiles
<1> QED
  BY <1>1, <1>2, <1>5, <1>6, <1>7, <1>8

LEMMA StartFacts ==
  ASSUME TypeOK, NEW k \in Jobs, NEW R \in SUBSET Files, NEW L \in SUBSET R, StartSweep(k, R, L)
  PROVE  /\ job' \in [Jobs -> Activities]
         /\ Free(k) /\ job'[k].kind = "sweep" /\ job'[k].todo = L \ Deps /\ job'[k].seen = {}
         /\ \A i \in Jobs \ {k} : Kept(i, {})
<1>1. BlockingSweep(L) \in Activities
  BY ActivityType DEF BlockingSweep, Kinds
<1> QED
  BY <1>1, JobType DEF StartSweep, BlockingSweep, Activity, Kept

LEMMA BatchFacts ==
  ASSUME TypeOK, NEW j \in Jobs, SweepBatch(j)
  PROVE  /\ job' \in [Jobs -> Activities] /\ Sweeping(j) /\ ~Awaits(j)
         /\ \A i \in Jobs \ {j} : Kept(i, {})
         /\ job'[j].kind = job[j].kind /\ job'[j].seen = job[j].seen
         /\ \E batch \in SUBSET job[j].todo : /\ job'[j].todo = job[j].todo \ batch
                                              /\ reading' = reading \cup ({j} \X batch)
<1> DEFINE slice == Slice(job[j].rest)
           batch == slice \cap job[j].todo
           W == Activity(job[j].kind, job[j].todo \ batch, job[j].rest \ slice, job[j].seen)
<1>1. job[j] \in Activities
  BY JobType
<1>2. W \in Activities
  BY <1>1 DEF Activities, Activity
<1>3. job' = [job EXCEPT ![j] = W]
  BY DEF SweepBatch
<1>4. job' \in [Jobs -> Activities] /\ job'[j] = W /\ \A i \in Jobs \ {j} : job'[i] = job[i]
  BY <1>2, <1>3, JobType
<1>5. W.kind = job[j].kind /\ W.todo = job[j].todo \ batch /\ W.seen = job[j].seen
  BY DEF Activity
<1>6. batch \in SUBSET job[j].todo /\ reading' = reading \cup ({j} \X batch)
  BY DEF SweepBatch
<1>7. Sweeping(j) /\ ~Awaits(j)
  BY DEF SweepBatch
<1> HIDE DEF slice, batch, W
<1> QED
  BY <1>4, <1>5, <1>6, <1>7 DEF Kept

LEMMA EndFacts ==
  ASSUME TypeOK, NEW j \in Jobs, SweepEnd(j)
  PROVE  /\ job' \in [Jobs -> Activities] /\ Sweeping(j) /\ job[j].todo = {}
         /\ \A i \in Jobs \ {j} : Kept(i, {})
         /\ job'[j].seen = {}
         /\ job[j].kind = "sweep" => /\ job'[j].kind = "deps"
                                     /\ job'[j].todo = {f \in listed \cap Deps : indexed[f] = 0}
<1> DEFINE D == IF job[j].kind = "deps" THEN Idle ELSE DependencySweep
<1>1. Idle \in Activities /\ DependencySweep \in Activities
  BY ActivityType, IndexAssumption DEF Idle, DependencySweep, Kinds, TypeOK
<1>2. D \in Activities
  BY <1>1
<1>3. job' = [job EXCEPT ![j] = D] /\ Sweeping(j) /\ job[j].todo = {}
  BY DEF SweepEnd
<1>4. job' \in [Jobs -> Activities] /\ job'[j] = D /\ \A i \in Jobs \ {j} : job'[i] = job[i]
  BY <1>2, <1>3, JobType
<1>5. Idle.seen = {} /\ DependencySweep.seen = {} /\ DependencySweep.kind = "deps"
      /\ DependencySweep.todo = {f \in listed \cap Deps : indexed[f] = 0}
  BY DEF Idle, DependencySweep, Activity
<1> QED
  BY <1>3, <1>4, <1>5 DEF Kept

LEMMA WalkFacts ==
  ASSUME TypeOK, NEW j \in Jobs, WalkStep(j)
  PROVE  /\ job' \in [Jobs -> Activities] /\ OwesNothing(j) /\ ~Awaits(j) /\ job'[j].kind = "walk"
         /\ \E F \in SUBSET Files : /\ \A i \in Jobs \ {j} : Kept(i, F)
                                    /\ reading' = reading \cup ({j} \X F)
<1>1. OwesNothing(j) /\ ~Awaits(j)
  BY DEF WalkStep, Running, OwesNothing, Sweeping
<1>2. job[j] \in Activities
  BY JobType
<1>3. PICK f \in job[j].todo :
       LET seen == job[j].seen \cup {f}
           through == [job EXCEPT ![j] = Activity("walk", (job[j].todo \cup Found(f)) \ seen, {}, seen)]
           taken == [i \in Jobs |-> IF Sweeping(i) THEN [job[i] EXCEPT !.todo = @ \ {f}] ELSE job[i]]
       IN  IF indexed[f] # 0
           THEN job' = through /\ UNCHANGED reading
           ELSE /\ job' = [taken EXCEPT ![j] = Activity("walk", job[j].todo \ {f}, {}, seen)]
                /\ reading' = reading \cup {<<j, f>>}
  BY DEF WalkStep
<1> DEFINE seen == job[j].seen \cup {f}
           A == Activity("walk", (job[j].todo \cup Found(f)) \ seen, {}, seen)
           B == Activity("walk", job[j].todo \ {f}, {}, seen)
           taken == [i \in Jobs |-> IF Sweeping(i) THEN [job[i] EXCEPT !.todo = @ \ {f}] ELSE job[i]]
<1>4. f \in Files /\ seen \in SUBSET Files
  BY <1>2 DEF Activities
<1>5. A \in Activities /\ A.kind = "walk"
  BY <1>2, <1>4, FoundType, ActivityType DEF Kinds, Activities, Activity
<1>6. B \in Activities /\ B.kind = "walk"
  BY <1>2, <1>4, ActivityType DEF Kinds, Activities, Activity
<1>7. taken \in [Jobs -> Activities]
  BY JobType DEF Activities
<1>8. \A i \in Jobs : /\ taken[i].kind = job[i].kind /\ taken[i].seen = job[i].seen
                      /\ taken[i].todo = IF Sweeping(i) THEN job[i].todo \ {f} ELSE job[i].todo
  BY JobType DEF Activities
<1> HIDE DEF seen, A, B, taken
<1>9. CASE indexed[f] # 0
  <2>1. job' = [job EXCEPT ![j] = A] /\ UNCHANGED reading
    BY <1>3, <1>9 DEF A, seen
  <2>2. job' \in [Jobs -> Activities] /\ job'[j].kind = "walk"
    BY <2>1, <1>5, JobType
  <2>3. \A i \in Jobs \ {j} : Kept(i, {})
    BY <2>1, JobType DEF Kept
  <2>4. reading' = reading \cup ({j} \X {})
    BY <2>1
  <2> QED
    BY <1>1, <2>2, <2>3, <2>4
<1>10. CASE indexed[f] = 0
  <2>1. job' = [taken EXCEPT ![j] = B] /\ reading' = reading \cup {<<j, f>>}
    BY <1>3, <1>10 DEF B, taken, seen
  <2>2. job' \in [Jobs -> Activities] /\ job'[j].kind = "walk"
    BY <2>1, <1>6, <1>7
  <2>3. \A i \in Jobs \ {j} : Kept(i, {f})
    BY <2>1, <1>7, <1>8 DEF Kept
  <2>4. reading' = reading \cup ({j} \X {f})
    BY <2>1
  <2> QED
    BY <1>1, <1>4, <2>2, <2>3, <2>4
<1> QED
  BY <1>9, <1>10

LEMMA WatchFacts ==
  ASSUME TypeOK, NEW j \in Jobs, WatchStep(j)
  PROVE  /\ job' \in [Jobs -> Activities] /\ ~Awaits(j)
         /\ job[j].kind = "watch" /\ job'[j].kind = "watch"
         /\ \A i \in Jobs \ {j} : Kept(i, {})
         /\ \E f \in Files : /\ job'[j].todo = job[j].todo \ {f}
                             /\ reading' = reading \cup {<<j, f>>}
<1>1. PICK f \in job[j].todo : /\ job' = [job EXCEPT ![j].todo = @ \ {f}]
                               /\ reading' = reading \cup {<<j, f>>}
  BY DEF WatchStep
<1>2. job[j].kind = "watch" /\ ~Awaits(j)
  BY DEF WatchStep, Running
<1>3. f \in Files
  BY JobType DEF Activities
<1> DEFINE W == [job[j] EXCEPT !.todo = @ \ {f}]
<1>4. job' = [job EXCEPT ![j] = W]
  BY <1>1
<1>5. W \in Activities /\ W.kind = job[j].kind /\ W.todo = job[j].todo \ {f}
  BY JobType DEF Activities
<1> HIDE DEF W
<1> QED
  BY <1>1, <1>2, <1>3, <1>4, <1>5, JobType DEF Kept

(* A walk goes on to the imports of a file that it waited for. *)
Onward(j, f) == [job EXCEPT ![j].todo = (@ \cup Found(f)) \ job[j].seen]

LEMMA OnwardFacts ==
  ASSUME TypeOK, NEW j \in Jobs, NEW f \in Files
  PROVE  /\ Onward(j, f) \in [Jobs -> Activities]
         /\ Onward(j, f)[j].kind = job[j].kind
         /\ \A i \in Jobs \ {j} : Onward(j, f)[i] = job[i]
<1> DEFINE W == [job[j] EXCEPT !.todo = (@ \cup Found(f)) \ job[j].seen]
<1>1. Onward(j, f) = [job EXCEPT ![j] = W]
  BY DEF Onward
<1>2. W \in Activities /\ W.kind = job[j].kind
  BY JobType, FoundType DEF Activities
<1> HIDE DEF W
<1> QED
  BY <1>1, <1>2, JobType

(* Neither the end of a reading nor that of a parsing takes anything but   *)
(* the file f out of a queue.                                              *)
LEMMA ReadFacts ==
  ASSUME TypeOK, NEW j \in Jobs, NEW f \in Files, ReadFile(j, f)
  PROVE  /\ job' \in [Jobs -> Activities]
         /\ \E K \in SUBSET Jobs : /\ \A k \in K : OwesNothing(k) /\ job'[k].kind = "walk"
                                   /\ \A i \in Jobs \ K : Kept(i, {})
<1>1. CASE UNCHANGED job
  <2>1. \A i \in Jobs \ {} : Kept(i, {})
    BY <1>1 DEF Kept
  <2> QED
    BY <1>1, <2>1, JobType
<1>2. CASE job[j].kind = "walk" /\ job' = Onward(j, f)
  <2>1. OwesNothing(j) /\ job'[j].kind = "walk"
    BY <1>2, OnwardFacts DEF OwesNothing, Sweeping
  <2>2. \A i \in Jobs \ {j} : Kept(i, {})
    BY <1>2, OnwardFacts DEF Kept
  <2> QED
    BY <1>2, <2>1, <2>2, OnwardFacts
<1> QED
  BY <1>1, <1>2 DEF ReadFile, Onward

LEMMA ParsedFacts ==
  ASSUME TypeOK, NEW j \in Jobs, NEW f \in Files, NEW v \in Versions, Parsed(j, f, v)
  PROVE  /\ job' \in [Jobs -> Activities]
         /\ \E K \in SUBSET Jobs : /\ \A k \in K : OwesNothing(k) /\ job'[k].kind = "walk"
                                   /\ \A i \in Jobs \ K : Kept(i, {f})
<1> DEFINE K == IF job[j].kind = "walk" THEN {j} ELSE {}
           J == IF job[j].kind = "walk" THEN Onward(j, f) ELSE job
<1>1. job' = Unqueue(J, f)
  BY DEF Parsed, UpdateFile, Onward
<1>2. J \in [Jobs -> Activities] /\ \A i \in Jobs \ K : J[i] = job[i]
  BY OnwardFacts, JobType
<1>3. \A k \in K : OwesNothing(k) /\ J[k].kind = "walk"
  BY OnwardFacts DEF OwesNothing, Sweeping
<1>4. K \in SUBSET Jobs
  OBVIOUS
<1> HIDE DEF K, J
<1>5. job' \in [Jobs -> Activities]
  BY <1>1, <1>2, UnqueueFacts
<1>6. \A i \in Jobs : LET swept == J[i].kind \in {"sweep", "deps"}
        IN  /\ job'[i].kind = J[i].kind
            /\ job'[i].todo = IF swept THEN J[i].todo \ {f} ELSE J[i].todo
            /\ job'[i].seen = IF swept THEN J[i].seen \cup {f} ELSE J[i].seen
  BY <1>1, <1>2, UnqueueFacts, Zenon
<1>7. \A i \in Jobs \ K : Kept(i, {f})
  BY <1>2, <1>6 DEF Kept, Sweeping
<1>8. \A k \in K : job'[k].kind = "walk"
  BY <1>3, <1>4, <1>6
<1> QED
  BY <1>3, <1>4, <1>5, <1>7, <1>8
-----------------------------------------------------------------------------
LEMMA TypeStep == TypeOK /\ [Next]_vars => TypeOK'
<1> SUFFICES ASSUME TypeOK, [Next]_vars PROVE TypeOK'
  OBVIOUS
<1>0. TypeOK' <=> /\ disk' \in [Files -> Versions] /\ buffer' \in [Files -> Versions]
                  /\ notice' \in [Files -> {"none", "changed", "deleted"}]
                  /\ roots' \in SUBSET Files /\ listed' \in SUBSET roots'
                  /\ indexed' \in [Files -> Versions]
                  /\ job' \in [Jobs -> Activities]
                  /\ reading' \in SUBSET (Jobs \X Files)
                  /\ parsing' \in SUBSET (Jobs \X Files \X (Versions \ {0}))
                  /\ clock' \in Versions /\ raced' \in SUBSET Files
  BY DEF TypeOK, Activities
<1> USE <1>0
<1>v. 0 \in Versions
  BY IndexAssumption DEF Versions
<1>c. ASSUME clock < MaxVersion PROVE clock + 1 \in Versions
  BY <1>c, IndexAssumption DEF Versions, TypeOK
<1>1. ASSUME NEW f \in Files, NEW v \in Versions, OnDidChangeContent(f, v),
             UNCHANGED <<disk, notice>>, clock' \in Versions
      PROVE  TypeOK'
  <2>1. job' \in [Jobs -> Activities]
    BY <1>1, ContentFacts
  <2>2. buffer' \in [Files -> Versions] /\ raced' \in SUBSET Files
        /\ UNCHANGED <<roots, listed, reading, parsing>>
    BY <1>1 DEF OnDidChangeContent, TypeOK, workspace
  <2>3. indexed' \in [Files -> Versions]
    BY <1>1 DEF OnDidChangeContent, UpdateFile, TypeOK
  <2> QED
    BY <1>1, <2>1, <2>2, <2>3 DEF TypeOK
<1>2. ASSUME NEW f \in Files, Open(f) PROVE TypeOK'
  <2>1. OnDidChangeContent(f, disk[f]) /\ disk[f] \in Versions /\ UNCHANGED <<disk, notice, clock>>
    BY <1>2 DEF Open, world, TypeOK
  <2> QED
    BY <1>1, <2>1 DEF TypeOK
<1>3. ASSUME NEW f \in Files, Edit(f) PROVE TypeOK'
  <2>1. OnDidChangeContent(f, clock + 1) /\ clock + 1 \in Versions /\ clock' = clock + 1
        /\ UNCHANGED <<disk, notice>>
    BY <1>3, <1>c DEF Edit
  <2> QED
    BY <1>1, <2>1
<1>4. ASSUME NEW f \in Files, Save(f) \/ Close(f) \/ Write(f) \/ Delete(f) PROVE TypeOK'
  <2>1. job' \in [Jobs -> Activities]
    BY <1>4, JobType DEF Save, Close, Write, Delete
  <2> QED
    BY <1>4, <1>v, <1>c, <2>1 DEF Save, Close, Write, Delete, TypeOK, world, workspace
<1>5. CASE WatcherReports
  <2>1. PICK S \in SUBSET Reports :
           /\ (S # {} /\ OnDidChangeWatchedFiles(S)) \/ ReloadWorkspace(S)
           /\ notice' = [f \in Files |-> IF f \in S THEN "none" ELSE notice[f]]
    BY <1>5 DEF WatcherReports
  <2>2. S \in SUBSET Files /\ UNCHANGED <<disk, clock, buffer>>
    BY <1>5 DEF WatcherReports, Reports
  <2>3. notice' \in [Files -> {"none", "changed", "deleted"}]
    BY <2>1 DEF TypeOK
  <2>4. CASE OnDidChangeWatchedFiles(S)
    <3>1. job' \in [Jobs -> Activities]
      BY <2>2, <2>4, WatchedFacts
    <3>2. indexed' \in [Files -> Versions]
      BY <2>2, <2>4, <1>v, WatchedFacts DEF TypeOK
    <3>3. raced' \in SUBSET Files /\ UNCHANGED <<roots, listed, reading, parsing>>
      BY <2>2, <2>4 DEF OnDidChangeWatchedFiles, TypeOK, workspace
    <3> QED
      BY <2>2, <2>3, <3>1, <3>2, <3>3 DEF TypeOK
  <2>5. CASE ReloadWorkspace(S)
    <3>1. PICK k \in Jobs : StartSweep(k, roots, OnDisk(roots))
      BY <2>5 DEF ReloadWorkspace
    <3>2. OnDisk(roots) \in SUBSET roots /\ roots \in SUBSET Files
      BY DEF OnDisk, TypeOK
    <3>3. job' \in [Jobs -> Activities]
      BY <3>1, <3>2, StartFacts
    <3>4. roots' = roots /\ listed' = OnDisk(roots) /\ UNCHANGED <<indexed, reading, parsing>>
      BY <3>1 DEF StartSweep
    <3>5. raced' \in SUBSET Files
      BY <2>2, <2>5 DEF ReloadWorkspace, TypeOK
    <3> QED
      BY <2>2, <2>3, <3>2, <3>3, <3>4, <3>5 DEF TypeOK
  <2> QED
    BY <2>1, <2>4, <2>5
<1>6. ASSUME NEW R \in RootSets, ChangeFolders(R) PROVE TypeOK'
  <2> DEFINE L == (listed \cap R) \cup OnDisk(R \ roots)
  <2>1. R \in SUBSET Files /\ L \in SUBSET R
    BY IndexAssumption DEF OnDisk
  <2>2. PICK k \in Jobs : StartSweep(k, R, L)
    BY <1>6 DEF ChangeFolders
  <2>3. job' \in [Jobs -> Activities]
    BY <2>1, <2>2, StartFacts
  <2>4. roots' = R /\ listed' = L /\ UNCHANGED <<indexed, reading, parsing>>
    BY <2>2 DEF StartSweep
  <2> QED
    BY <1>6, <2>1, <2>3, <2>4 DEF ChangeFolders, TypeOK, world
<1>7. ASSUME NEW j \in Jobs, SweepBatch(j) \/ SweepEnd(j) \/ WalkStep(j) \/ WatchStep(j)
      PROVE  TypeOK'
  <2>1. job' \in [Jobs -> Activities]
    BY <1>7, BatchFacts, EndFacts, WalkFacts, WatchFacts
  <2>2. job[j].todo \in SUBSET Files
    BY JobType DEF Activities
  <2>3. reading' \in SUBSET (Jobs \X Files)
    <3>1. CASE SweepBatch(j)
      BY <2>2, <3>1, BatchFacts DEF TypeOK
    <3>2. CASE WalkStep(j)
      <4>1. PICK F \in SUBSET Files : reading' = reading \cup ({j} \X F)
        BY <3>2, WalkFacts
      <4> QED
        BY <4>1 DEF TypeOK
    <3>3. CASE WatchStep(j)
      BY <3>3, WatchFacts DEF TypeOK
    <3>4. CASE SweepEnd(j)
      BY <3>4 DEF SweepEnd, TypeOK
    <3> QED
      BY <1>7, <3>1, <3>2, <3>3, <3>4
  <2>4. UNCHANGED <<world, buffer, workspace, indexed, parsing, raced>>
    BY <1>7 DEF SweepBatch, SweepEnd, WalkStep, WatchStep
  <2> QED
    BY <2>1, <2>3, <2>4 DEF TypeOK, world, workspace
<1>8. ASSUME NEW j \in Jobs, NEW f \in Files, ReadFile(j, f) PROVE TypeOK'
  <2>1. job' \in [Jobs -> Activities]
    BY <1>8, ReadFacts
  <2> QED
    BY <1>8, <2>1 DEF ReadFile, TypeOK, world, workspace
<1>9. ASSUME NEW j \in Jobs, NEW f \in Files, NEW v \in Versions, Parsed(j, f, v) PROVE TypeOK'
  <2>1. job' \in [Jobs -> Activities]
    BY <1>9, ParsedFacts
  <2> QED
    BY <1>9, <2>1 DEF Parsed, UpdateFile, TypeOK, world, workspace
<1>10. CASE UNCHANGED vars
  BY <1>10 DEF vars, TypeOK
<1> QED
  BY <1>2, <1>3, <1>4, <1>5, <1>6, <1>7, <1>8, <1>9, <1>10 DEF Next, JobStep

(* Every variable keeps its type; the listed files are files of the        *)
(* workspace folders, and only texts that exist are parsed.                *)
THEOREM TypeCorrect == Spec => []TypeOK
<1> QED
  BY TypeInit, TypeStep, PTL DEF Spec
-----------------------------------------------------------------------------
LEMMA AwaitsAre ==
  ASSUME TypeOK
  PROVE  /\ \A j \in Jobs, f \in Files : f \in Reading(j) <=> <<j, f>> \in reading
         /\ \A j \in Jobs, f \in Files :
              f \in Parsing(j) <=> \E v \in Versions : <<j, f, v>> \in parsing
<1>1. \A x \in reading : x = <<x[1], x[2]>> /\ x[1] \in Jobs /\ x[2] \in Files
  BY DEF TypeOK
<1>2. \A x \in parsing : x = <<x[1], x[2], x[3]>> /\ x[1] \in Jobs /\ x[2] \in Files /\ x[3] \in Versions
  BY DEF TypeOK
<1>3. ASSUME NEW j \in Jobs, NEW f \in Files PROVE f \in Reading(j) <=> <<j, f>> \in reading
  <2>1. ASSUME f \in Reading(j) PROVE <<j, f>> \in reading
    <3>1. PICK x \in reading : x[1] = j /\ x[2] = f
      BY <2>1 DEF Reading
    <3> QED
      BY <1>1, <3>1
  <2>2. ASSUME <<j, f>> \in reading PROVE f \in Reading(j)
    <3>1. <<j, f>>[1] = j /\ <<j, f>>[2] = f
      OBVIOUS
    <3> QED
      BY <2>2, <3>1, Zenon DEF Reading
  <2> QED
    BY <2>1, <2>2
<1>4. ASSUME NEW j \in Jobs, NEW f \in Files
      PROVE  f \in Parsing(j) <=> \E v \in Versions : <<j, f, v>> \in parsing
  <2>1. ASSUME f \in Parsing(j) PROVE \E v \in Versions : <<j, f, v>> \in parsing
    <3>1. PICK x \in parsing : x[1] = j /\ x[2] = f
      BY <2>1 DEF Parsing
    <3> QED
      BY <1>2, <3>1
  <2>2. ASSUME NEW v \in Versions, <<j, f, v>> \in parsing PROVE f \in Parsing(j)
    <3>1. <<j, f, v>>[1] = j /\ <<j, f, v>>[2] = f
      OBVIOUS
    <3> QED
      BY <2>2, <3>1, Zenon DEF Parsing
  <2> QED
    BY <2>1, <2>2
<1> QED
  BY <1>3, <1>4

(* A file is in flight when somebody reads or parses it. *)
LEMMA InFlightIs ==
  ASSUME TypeOK, NEW f \in Files
  PROVE  InFlight(f) <=> UnderWay(f)
BY AwaitsAre DEF InFlight, UnderWay

(* An activity that awaits nothing reads and parses nothing. *)
LEMMA AwaitsNothing ==
  ASSUME TypeOK, NEW j \in Jobs, ~Awaits(j), NEW f \in Files
  PROVE  <<j, f>> \notin reading /\ \A v \in Versions : <<j, f, v>> \notin parsing
BY AwaitsAre DEF Awaits

LEMMA InvInit == Init => IndexInv
<1> SUFFICES ASSUME Init PROVE IndexInv
  OBVIOUS
<1>1. TypeOK
  BY TypeInit
<1>2. PICK k \in Jobs : job = [j \in Jobs |-> IF j = k THEN BlockingSweep(listed) ELSE Idle]
  BY DEF Init
<1>3. job[k].kind = "sweep" /\ job[k].todo = listed \ Deps
  BY <1>2 DEF BlockingSweep, Activity
<1>4. \A j \in Jobs : job[j].seen = {}
  BY <1>2 DEF BlockingSweep, Activity, Idle
<1>5. RootsHaveAnIndexer
  <2>1. SUFFICES ASSUME NEW f \in roots, disk[f] # 0
                 PROVE  SweepHas(f) \/ (f \in Deps \cap listed /\ BlockingSweepRuns)
    BY DEF RootsHaveAnIndexer
  <2>2. f \in listed
    BY <2>1 DEF Init, OnDisk
  <2> QED
    BY <1>3, <2>2 DEF SweepHas, BlockingSweepRuns, Sweeping
<1>6. SweepSkipsFresh
  BY <1>4 DEF SweepSkipsFresh
<1>7. NoticeFits /\ OpenIsShown /\ OneAwaitPerFile /\ GoneIsForgotten /\ ParsesAreFollowed
  BY DEF Init, NoticeFits, OpenIsShown, OneAwaitPerFile, GoneIsForgotten, ParsesAreFollowed
<1>8. ClosedIsFollowed
  BY <1>1, IndexAssumption DEF Init, ClosedIsFollowed, TypeOK
<1> QED
  BY <1>1, <1>5, <1>6, <1>7, <1>8 DEF IndexInv

(* The user and other programs: only a document's events touch the index.  *)
LEMMA InvContent ==
  ASSUME IndexInv, TypeOK', NEW f \in Files, NEW v \in Versions, v # 0,
         OnDidChangeContent(f, v), UNCHANGED <<disk, notice>>
  PROVE  IndexInv'
<1> USE DEF IndexInv
<1>1. PICK k \in Jobs : /\ Free(k) /\ job'[k].kind = "walk"
                        /\ \A i \in Jobs \ {k} : Kept(i, {f})
  BY ContentFacts
<1>2. /\ \A g \in Files : WatchHas(g) => WatchHas(g)'
      /\ \A g \in Files \ {f} : SweepHas(g) => SweepHas(g)'
      /\ BlockingSweepRuns => BlockingSweepRuns'
      /\ \A i \in Jobs \ {k} : Sweeping(i)' => job'[i].todo \cap job'[i].seen = {}
  BY <1>1, QueuesKept, FreeOwesNothing
<1>3. SweepSkipsFresh'
  BY <1>1, <1>2 DEF SweepSkipsFresh, Sweeping
<1>4. /\ buffer' = [buffer EXCEPT ![f] = v] /\ indexed' = [indexed EXCEPT ![f] = v]
      /\ UNCHANGED <<reading, parsing, roots, listed>>
      /\ raced' = IF InFlight(f) THEN raced \cup {f} ELSE raced \ {f}
  BY DEF OnDidChangeContent, UpdateFile, workspace
<1>5. NoticeFits'
  BY DEF NoticeFits
<1>6. OpenIsShown'
  BY <1>4 DEF OpenIsShown, TypeOK
<1>7. OneAwaitPerFile'
  BY <1>4 DEF OneAwaitPerFile
<1>8. \A g \in Files : UnderWay(g) => UnderWay(g)'
  BY <1>4 DEF UnderWay
<1>9. RootsHaveAnIndexer'
  BY <1>2, <1>4, <1>8 DEF RootsHaveAnIndexer, TypeOK
<1>10. \A g \in Files : Settled(g)' => g # f /\ Settled(g)
  BY <1>4 DEF Settled, TypeOK
<1>11. \A g \in Files : WillBeRead(g) => WillBeRead(g)'
  BY <1>2, <1>4 DEF WillBeRead
<1>12. GoneIsForgotten'
  BY <1>4, <1>10 DEF GoneIsForgotten, TypeOK
<1>13. ParsesAreFollowed'
  BY <1>4, <1>10, <1>11 DEF ParsesAreFollowed
<1>14. ClosedIsFollowed'
  BY <1>2, <1>4, <1>10, <1>11, IndexAssumption DEF ClosedIsFollowed, TypeOK
<1> QED
  BY <1>3, <1>5, <1>6, <1>7, <1>9, <1>12, <1>13, <1>14

LEMMA InvDisk ==
  ASSUME IndexInv, TypeOK', NEW f \in Files, Save(f) \/ Write(f) \/ Delete(f)
  PROVE  IndexInv'
<1> USE DEF IndexInv
<1>1. /\ UNCHANGED <<buffer, roots, listed, indexed, job, reading, parsing, raced>>
      /\ \A g \in Files \ {f} : disk'[g] = disk[g] /\ notice'[g] = notice[g]
      /\ \/ notice'[f] = "changed" /\ disk'[f] # 0
         \/ notice'[f] = "deleted" /\ disk'[f] = 0
  BY DEF Save, Write, Delete, TypeOK, workspace, Versions
<1>2. /\ \A g \in Files : WatchHas(g)' = WatchHas(g) /\ SweepHas(g)' = SweepHas(g)
      /\ \A g \in Files : UnderWay(g)' = UnderWay(g)
      /\ BlockingSweepRuns' = BlockingSweepRuns /\ SweepSkipsFresh' = SweepSkipsFresh
  BY <1>1 DEF WatchHas, SweepHas, UnderWay, BlockingSweepRuns, SweepSkipsFresh, Sweeping
<1>3. NoticeFits'
  BY <1>1 DEF NoticeFits
<1>4. OpenIsShown'
  BY <1>1 DEF OpenIsShown
<1>5. OneAwaitPerFile'
  BY <1>1 DEF OneAwaitPerFile
<1>6. RootsHaveAnIndexer'
  BY <1>1, <1>2 DEF RootsHaveAnIndexer, TypeOK
<1>7. \A g \in Files : Settled(g)' => g # f /\ Settled(g)
  BY <1>1 DEF Settled
<1>8. \A g \in Files \ {f} : WillBeRead(g) => WillBeRead(g)'
  BY <1>1, <1>2 DEF WillBeRead
<1>9. GoneIsForgotten'
  BY <1>1, <1>7 DEF GoneIsForgotten
<1>10. ParsesAreFollowed'
  BY <1>1, <1>7, <1>8 DEF ParsesAreFollowed
<1>11. ClosedIsFollowed'
  BY <1>1, <1>2, <1>7, <1>8, IndexAssumption DEF ClosedIsFollowed, TypeOK
<1> QED
  BY <1>2, <1>3, <1>4, <1>5, <1>6, <1>9, <1>10, <1>11

LEMMA InvClose ==
  ASSUME IndexInv, TypeOK', NEW f \in Files, Close(f)
  PROVE  IndexInv'
<1> USE DEF IndexInv
<1>1. /\ UNCHANGED <<disk, notice, roots, listed, indexed, job, reading, parsing>>
      /\ buffer[f] # 0 /\ buffer' = [buffer EXCEPT ![f] = 0]
      /\ raced' = IF buffer[f] # disk[f] \/ InFlight(f) THEN raced \cup {f} ELSE raced
  BY DEF Close, world, workspace
<1>2. /\ \A g \in Files : WatchHas(g)' = WatchHas(g) /\ SweepHas(g)' = SweepHas(g)
      /\ \A g \in Files : UnderWay(g)' = UnderWay(g) /\ WillBeRead(g)' = WillBeRead(g)
      /\ BlockingSweepRuns' = BlockingSweepRuns /\ SweepSkipsFresh' = SweepSkipsFresh
  BY <1>1 DEF WatchHas, SweepHas, UnderWay, BlockingSweepRuns, SweepSkipsFresh, Sweeping, WillBeRead
<1>3. NoticeFits' /\ OneAwaitPerFile'
  BY <1>1 DEF NoticeFits, OneAwaitPerFile
<1>4. OpenIsShown'
  BY <1>1 DEF OpenIsShown, TypeOK
<1>6. RootsHaveAnIndexer'
  BY <1>1, <1>2 DEF RootsHaveAnIndexer, TypeOK
<1>7. ASSUME NEW g \in Files, Settled(g)'
      PROVE  \/ Settled(g)
             \/ /\ g = f /\ disk[f] # 0 /\ indexed[f] = disk[f]
                /\ \A j \in Jobs, v \in Versions : <<j, f, v>> \notin parsing
  <2>1. CASE g # f
    BY <1>1, <1>7, <2>1 DEF Settled, TypeOK
  <2>2. CASE g = f
    <3>1. buffer[f] = disk[f] /\ ~InFlight(f) /\ f \notin raced
      BY <1>1, <1>7, <2>2 DEF Settled
    <3> QED
      BY <1>1, <2>2, <3>1, InFlightIs DEF OpenIsShown, UnderWay
  <2> QED
    BY <2>1, <2>2
<1>9. GoneIsForgotten'
  BY <1>1, <1>7 DEF GoneIsForgotten
<1>10. ParsesAreFollowed'
  BY <1>1, <1>2, <1>7 DEF ParsesAreFollowed
<1>11. ClosedIsFollowed'
  BY <1>1, <1>2, <1>7, IndexAssumption DEF ClosedIsFollowed, TypeOK
<1> QED
  BY <1>2, <1>3, <1>4, <1>6, <1>9, <1>10, <1>11

(* The watcher's reports, without foundry.toml and with it. *)
LEMMA InvWatched ==
  ASSUME IndexInv, TypeOK', NEW S \in SUBSET Reports, OnDidChangeWatchedFiles(S),
         notice' = [f \in Files |-> IF f \in S THEN "none" ELSE notice[f]],
         UNCHANGED <<disk, buffer>>
  PROVE  IndexInv'
<1> USE DEF IndexInv
<1> DEFINE removed == {f \in S : buffer[f] = 0 /\ notice[f] = "deleted"}
<1>1. S \in SUBSET Files /\ \A f \in S : notice[f] \in {"changed", "deleted"}
  BY DEF Reports, TypeOK
<1>2. PICK k \in Jobs : /\ Free(k) /\ job'[k].kind = "watch"
                        /\ job'[k].todo = {f \in S : buffer[f] = 0} \ removed
                        /\ \A i \in Jobs \ {k} : Kept(i, removed)
  BY <1>1, WatchedFacts
<1>3. /\ \A g \in Files : WatchHas(g) => WatchHas(g)'
      /\ \A g \in Files \ removed : SweepHas(g) => SweepHas(g)'
      /\ BlockingSweepRuns => BlockingSweepRuns'
      /\ \A i \in Jobs \ {k} : Sweeping(i)' => job'[i].todo \cap job'[i].seen = {}
  BY <1>2, QueuesKept, FreeOwesNothing
<1>4. SweepSkipsFresh'
  BY <1>2, <1>3 DEF SweepSkipsFresh, Sweeping
<1>5. \A g \in S \ removed : buffer[g] = 0 => WatchHas(g)'
  BY <1>2 DEF WatchHas
<1>6. /\ \A g \in Files : indexed'[g] = IF g \in removed THEN 0 ELSE indexed[g]
      /\ raced' = raced \cup {g \in removed : InFlight(g)}
      /\ UNCHANGED <<reading, parsing, roots, listed>>
  BY <1>1, WatchedFacts DEF OnDidChangeWatchedFiles, workspace
<1>7. \A g \in removed : disk[g] = 0 /\ buffer[g] = 0 /\ g \in Files
  BY <1>1 DEF NoticeFits
<1> HIDE DEF removed
<1>8. NoticeFits' /\ OneAwaitPerFile'
  BY <1>6 DEF NoticeFits, OneAwaitPerFile
<1>9. OpenIsShown'
  BY <1>6, <1>7 DEF OpenIsShown
<1>10. \A g \in Files : UnderWay(g)' = UnderWay(g)
  BY <1>6 DEF UnderWay
<1>11. RootsHaveAnIndexer'
  <2> SUFFICES ASSUME NEW f \in roots, disk[f] # 0, indexed'[f] = 0,
                      ~UnderWay(f), notice'[f] # "changed", ~WatchHas(f)', ~SweepHas(f)'
               PROVE  f \in Deps \cap listed /\ BlockingSweepRuns'
    <3>1. roots' = roots /\ roots \in SUBSET Files /\ disk' = disk
      BY <1>6 DEF TypeOK
    <3>2. listed' = listed /\ \A f \in roots : UnderWay(f)' = UnderWay(f)
      BY <1>6, <1>10, <3>1
    <3> QED
      BY <3>1, <3>2 DEF RootsHaveAnIndexer
  <2>1. f \in Files /\ f \notin removed /\ indexed[f] = 0
    BY <1>6, <1>7 DEF TypeOK
  <2>2. buffer[f] = 0
    BY <2>1 DEF OpenIsShown
  <2>3. f \notin S
    BY <1>5, <2>1, <2>2
  <2> QED
    BY <1>3, <2>1, <2>3 DEF RootsHaveAnIndexer
<1>12. \A g \in Files : Settled(g)' => \/ Settled(g) /\ g \notin S
                                       \/ g \in S \ removed /\ disk[g] # 0 /\ WatchHas(g)'
                                       \/ g \in removed /\ indexed'[g] = 0 /\ ~InFlight(g)
  <2> SUFFICES ASSUME NEW g \in Files, Settled(g)'
               PROVE  \/ Settled(g) /\ g \notin S
                      \/ g \in S \ removed /\ disk[g] # 0 /\ WatchHas(g)'
                      \/ g \in removed /\ indexed'[g] = 0 /\ ~InFlight(g)
    OBVIOUS
  <2>1. buffer[g] = 0 /\ g \notin raced'
    BY DEF Settled
  <2>5. g \notin raced /\ (g \in removed => ~InFlight(g))
    BY <1>6, <2>1
  <2>2. CASE g \notin S
    BY <2>1, <2>2, <2>5 DEF Settled
  <2>3. CASE g \in removed
    BY <1>6, <2>1, <2>3, <2>5
  <2>4. CASE g \in S \ removed
    <3>1. notice[g] = "changed"
      BY <1>1, <2>1, <2>4 DEF removed
    <3> QED
      BY <1>5, <2>1, <2>4, <3>1 DEF NoticeFits
  <2> QED
    BY <2>2, <2>3, <2>4
<1>13. \A g \in Files : WillBeRead(g) => WillBeRead(g)'
  BY <1>3, <1>6 DEF WillBeRead
<1>14. \A g \in removed, j \in Jobs, v \in Versions : ~InFlight(g) => <<j, g, v>> \notin parsing
  BY <1>7, InFlightIs DEF UnderWay
<1>15. GoneIsForgotten'
  BY <1>6, <1>7, <1>12, <1>14 DEF GoneIsForgotten
<1>16. ParsesAreFollowed'
  BY <1>6, <1>12, <1>13, <1>14 DEF ParsesAreFollowed, WillBeRead
<1>17. ClosedIsFollowed'
  BY <1>3, <1>6, <1>7, <1>12, <1>13, IndexAssumption DEF ClosedIsFollowed, TypeOK, WillBeRead
<1> QED
  BY <1>4, <1>8, <1>9, <1>11, <1>15, <1>16, <1>17

LEMMA InvReload ==
  ASSUME IndexInv, TypeOK', NEW S \in SUBSET Reports, ReloadWorkspace(S),
         notice' = [f \in Files |-> IF f \in S THEN "none" ELSE notice[f]],
         UNCHANGED <<disk, buffer>>
  PROVE  IndexInv'
<1> USE DEF IndexInv
<1>1. S \in SUBSET Files /\ \A f \in S : notice[f] \in {"changed", "deleted"}
  BY DEF Reports, TypeOK
<1>2. PICK k \in Jobs : StartSweep(k, roots, OnDisk(roots))
  BY DEF ReloadWorkspace
<1>3. roots \in SUBSET Files /\ OnDisk(roots) \in SUBSET roots
  BY DEF OnDisk, TypeOK
<1>4. /\ Free(k) /\ job'[k].kind = "sweep" /\ job'[k].todo = OnDisk(roots) \ Deps /\ job'[k].seen = {}
      /\ \A i \in Jobs \ {k} : Kept(i, {})
  BY <1>2, <1>3, StartFacts
<1>5. /\ \A g \in Files : WatchHas(g) => WatchHas(g)'
      /\ \A g \in Files : SweepHas(g) => SweepHas(g)'
      /\ \A i \in Jobs \ {k} : Sweeping(i)' => job'[i].todo \cap job'[i].seen = {}
  BY <1>4, QueuesKept, FreeOwesNothing
<1>6. SweepSkipsFresh'
  BY <1>4, <1>5 DEF SweepSkipsFresh, Sweeping
<1>7. BlockingSweepRuns' /\ \A g \in roots \ Deps : disk[g] # 0 => SweepHas(g)'
  BY <1>4 DEF BlockingSweepRuns, SweepHas, Sweeping, OnDisk
<1>8. UNCHANGED <<roots, indexed, reading, parsing>> /\ listed' = OnDisk(roots)
  BY <1>2 DEF StartSweep
<1>9. \A g \in Files : g \in raced' <=> \/ g \in raced
                                        \/ g \in S /\ buffer[g] = 0
                                             /\ (notice[g] = "deleted" \/ g \in Deps \/ InFlight(g))
  BY <1>1 DEF ReloadWorkspace
<1>10. NoticeFits' /\ OneAwaitPerFile'
  BY <1>8 DEF NoticeFits, OneAwaitPerFile
<1>11. OpenIsShown'
  BY <1>8, <1>9 DEF OpenIsShown
<1>12. RootsHaveAnIndexer'
  BY <1>7, <1>8 DEF RootsHaveAnIndexer, OnDisk
<1>13. \A g \in Files : Settled(g)' => \/ Settled(g)
                                       \/ g \notin Deps /\ disk[g] # 0 /\ ~InFlight(g)
  BY <1>1, <1>9 DEF Settled, NoticeFits
<1>14. \A g \in Files : WillBeRead(g) => WillBeRead(g)'
  BY <1>5, <1>8 DEF WillBeRead
<1>15. GoneIsForgotten'
  BY <1>8, <1>13 DEF GoneIsForgotten
<1>16. ParsesAreFollowed'
  BY <1>8, <1>13, <1>14, InFlightIs DEF ParsesAreFollowed, UnderWay
<1>17. ClosedIsFollowed'
  BY <1>3, <1>5, <1>7, <1>8, <1>13, <1>14, IndexAssumption DEF ClosedIsFollowed
<1> QED
  BY <1>6, <1>10, <1>11, <1>12, <1>15, <1>16, <1>17

LEMMA InvFolders ==
  ASSUME IndexInv, TypeOK', NEW R \in RootSets, ChangeFolders(R)
  PROVE  IndexInv'
<1> USE DEF IndexInv
<1> DEFINE L == (listed \cap R) \cup OnDisk(R \ roots)
<1>1. R \in SUBSET Files /\ L \in SUBSET R
  BY IndexAssumption DEF OnDisk
<1>2. PICK k \in Jobs : StartSweep(k, R, L)
  BY DEF ChangeFolders
<1>3. /\ Free(k) /\ job'[k].kind = "sweep" /\ job'[k].todo = L \ Deps /\ job'[k].seen = {}
      /\ \A i \in Jobs \ {k} : Kept(i, {})
  BY <1>1, <1>2, StartFacts
<1>4. /\ \A g \in Files : WatchHas(g) => WatchHas(g)'
      /\ \A g \in Files : SweepHas(g) => SweepHas(g)'
      /\ \A i \in Jobs \ {k} : Sweeping(i)' => job'[i].todo \cap job'[i].seen = {}
  BY <1>3, QueuesKept, FreeOwesNothing
<1>5. SweepSkipsFresh'
  BY <1>3, <1>4 DEF SweepSkipsFresh, Sweeping
<1>6. BlockingSweepRuns' /\ \A g \in L \ Deps : SweepHas(g)'
  BY <1>3 DEF BlockingSweepRuns, SweepHas, Sweeping
<1>7. /\ UNCHANGED <<disk, notice, buffer, raced, indexed, reading, parsing>>
      /\ roots' = R /\ listed' = L
  BY <1>2 DEF StartSweep, ChangeFolders, world
<1>8. NoticeFits' /\ OneAwaitPerFile' /\ OpenIsShown' /\ GoneIsForgotten'
  BY <1>7 DEF NoticeFits, OneAwaitPerFile, OpenIsShown, GoneIsForgotten, Settled
<1>9. \A g \in Files : /\ WillBeRead(g) => WillBeRead(g)'
                       /\ UnderWay(g)' = UnderWay(g) /\ Settled(g)' = Settled(g)
  BY <1>4, <1>7 DEF WillBeRead, UnderWay, Settled
<1>10. \A g \in R \ roots : disk[g] # 0 => g \in L
  BY DEF OnDisk
<1>11. RootsHaveAnIndexer'
  <2> SUFFICES ASSUME NEW f \in R, disk[f] # 0, indexed[f] = 0, f \notin L
               PROVE  UnderWay(f) \/ notice[f] = "changed" \/ WatchHas(f)' \/ SweepHas(f)'
    <3>1. roots' = R /\ listed' = L /\ UNCHANGED <<disk, notice, indexed>>
      BY <1>7
    <3>2. \A f \in R : UnderWay(f)' = UnderWay(f)
      BY <1>1, <1>9
    <3> HIDE DEF L
    <3> QED
      BY <1>6, <3>1, <3>2 DEF RootsHaveAnIndexer
  <2>1. f \in roots /\ f \in Files /\ f \notin listed
    BY <1>1, <1>10
  <2> QED
    BY <1>4, <2>1 DEF RootsHaveAnIndexer
<1>12. ParsesAreFollowed'
  BY <1>7, <1>9 DEF ParsesAreFollowed
<1>13. ClosedIsFollowed'
  <2>0. R \cup Deps \in SUBSET Files
    BY <1>1, IndexAssumption
  <2> SUFFICES ASSUME NEW f \in R \cup Deps, Settled(f)
               PROVE  indexed[f] \in {0, disk[f]} \/ WillBeRead(f)' \/ SweepHas(f)'
    <3>1. \A f \in R \cup Deps : Settled(f)' = Settled(f)
      BY <1>9, <2>0
    <3> QED
      BY <1>7, <3>1 DEF ClosedIsFollowed
  <2>1. CASE f \in roots \cup Deps
    BY <1>1, <1>4, <1>9, <2>1, IndexAssumption DEF ClosedIsFollowed
  <2>2. CASE f \notin roots \cup Deps /\ disk[f] # 0
    BY <1>6, <1>10, <2>2
  <2>3. CASE disk[f] = 0
    BY <1>1, <2>3, IndexAssumption DEF GoneIsForgotten
  <2> QED
    BY <2>1, <2>2, <2>3
<1> QED
  BY <1>5, <1>8, <1>11, <1>12, <1>13

(* Activity j starts to read the files F, that it owed; every other file   *)
(* keeps its readers.                                                      *)
LEMMA InvRead ==
  ASSUME IndexInv, TypeOK', NEW j \in Jobs, NEW F \in SUBSET Files, ~Awaits(j),
         reading' = reading \cup ({j} \X F),
         UNCHANGED <<world, buffer, workspace, indexed, parsing, raced>>,
         \A g \in Files \ F : (WatchHas(g) => WatchHas(g)') /\ (SweepHas(g) => SweepHas(g)'),
         BlockingSweepRuns => BlockingSweepRuns', SweepSkipsFresh'
  PROVE  IndexInv'
<1> USE DEF IndexInv
<1>1. /\ UNCHANGED <<disk, notice, buffer, roots, listed, indexed, parsing, raced>>
      /\ roots \in SUBSET Files /\ Deps \in SUBSET Files
  BY IndexAssumption DEF world, workspace, TypeOK
<1>2. \A g \in F : <<j, g>> \in reading'
  OBVIOUS
<1>3. \A i \in Jobs, g \in Files : <<i, g>> \in reading' => <<i, g>> \in reading \/ i = j
  OBVIOUS
<1>4. NoticeFits' /\ OpenIsShown' /\ GoneIsForgotten'
  BY <1>1 DEF NoticeFits, OpenIsShown, GoneIsForgotten, Settled
<1>5. OneAwaitPerFile'
  BY <1>1, <1>3, AwaitsNothing DEF OneAwaitPerFile
<1>6. \A g \in Files : /\ UnderWay(g) => UnderWay(g)'
                       /\ WillBeRead(g) => WillBeRead(g)'
                       /\ g \in F => UnderWay(g)' /\ WillBeRead(g)'
  BY <1>1, <1>2 DEF UnderWay, WillBeRead
<1>s. \A g : Settled(g)' => Settled(g)
  BY <1>1 DEF Settled
<1>7. RootsHaveAnIndexer'
  <2> SUFFICES ASSUME NEW f \in roots, disk[f] # 0, indexed[f] = 0, ~UnderWay(f)', notice[f] # "changed",
                      ~WatchHas(f)', ~SweepHas(f)'
               PROVE  f \in Deps \cap listed /\ BlockingSweepRuns'
    BY <1>1 DEF RootsHaveAnIndexer
  <2> QED
    BY <1>1, <1>6 DEF RootsHaveAnIndexer
<1>8. ParsesAreFollowed'
  BY <1>1, <1>6, <1>s DEF ParsesAreFollowed
<1>9. ClosedIsFollowed'
  <2> SUFFICES ASSUME NEW f \in roots \cup Deps, Settled(f)
               PROVE  indexed[f] \in {0, disk[f]} \/ WillBeRead(f)' \/ SweepHas(f)'
    BY <1>1, <1>s DEF ClosedIsFollowed
  <2>2. f \in Files /\ (f \notin F => (SweepHas(f) => SweepHas(f)'))
    BY <1>1
  <2> QED
    BY <1>6, <2>2 DEF ClosedIsFollowed
<1> QED
  BY <1>4, <1>5, <1>7, <1>8, <1>9

LEMMA InvBatch == ASSUME IndexInv, TypeOK', NEW j \in Jobs, SweepBatch(j) PROVE IndexInv'
<1> USE DEF IndexInv
<1>1. /\ job' \in [Jobs -> Activities] /\ Sweeping(j) /\ ~Awaits(j)
      /\ \A i \in Jobs \ {j} : Kept(i, {})
      /\ job'[j].kind = job[j].kind /\ job'[j].seen = job[j].seen
  BY BatchFacts
<1>2. PICK batch \in SUBSET job[j].todo : /\ job'[j].todo = job[j].todo \ batch
                                          /\ reading' = reading \cup ({j} \X batch)
  BY BatchFacts
<1>3. batch \in SUBSET Files
  BY JobType DEF Activities
<1>4. \A i \in Jobs : /\ job'[i].kind = job[i].kind /\ job'[i].seen = job[i].seen
                      /\ job'[i].todo = IF i = j THEN job[i].todo \ batch ELSE job[i].todo
  BY <1>1, <1>2 DEF Kept
<1>5. /\ \A g \in Files \ batch : (WatchHas(g) => WatchHas(g)') /\ (SweepHas(g) => SweepHas(g)')
      /\ BlockingSweepRuns => BlockingSweepRuns'
  BY <1>4 DEF WatchHas, SweepHas, BlockingSweepRuns, Sweeping
<1>6. SweepSkipsFresh'
  BY <1>4 DEF SweepSkipsFresh, Sweeping
<1>7. UNCHANGED <<world, buffer, workspace, indexed, parsing, raced>>
  BY DEF SweepBatch
<1> QED
  BY <1>1, <1>2, <1>3, <1>5, <1>6, <1>7, InvRead

LEMMA InvWatch == ASSUME IndexInv, TypeOK', NEW j \in Jobs, WatchStep(j) PROVE IndexInv'
<1> USE DEF IndexInv
<1>1. /\ ~Awaits(j) /\ job[j].kind = "watch" /\ job'[j].kind = "watch"
      /\ \A i \in Jobs \ {j} : Kept(i, {})
  BY WatchFacts
<1>2. PICK f \in Files : job'[j].todo = job[j].todo \ {f} /\ reading' = reading \cup {<<j, f>>}
  BY WatchFacts
<1>3. reading' = reading \cup ({j} \X {f})
  BY <1>2
<1>4. \A i \in Jobs : /\ job'[i].kind = job[i].kind
                      /\ i # j => job'[i].seen = job[i].seen
                      /\ job'[i].todo = IF i = j THEN job[i].todo \ {f} ELSE job[i].todo
  BY <1>1, <1>2 DEF Kept
<1>5. /\ \A g \in Files \ {f} : (WatchHas(g) => WatchHas(g)') /\ (SweepHas(g) => SweepHas(g)')
      /\ BlockingSweepRuns => BlockingSweepRuns'
  BY <1>1, <1>4 DEF WatchHas, SweepHas, BlockingSweepRuns, Sweeping
<1>6. SweepSkipsFresh'
  BY <1>1, <1>4 DEF SweepSkipsFresh, Sweeping
<1>7. UNCHANGED <<world, buffer, workspace, indexed, parsing, raced>>
  BY DEF WatchStep
<1> QED
  BY <1>1, <1>3, <1>5, <1>6, <1>7, InvRead

LEMMA InvWalk == ASSUME IndexInv, TypeOK', NEW j \in Jobs, WalkStep(j) PROVE IndexInv'
<1> USE DEF IndexInv
<1>1. OwesNothing(j) /\ ~Awaits(j) /\ job'[j].kind = "walk"
  BY WalkFacts
<1>2. PICK F \in SUBSET Files : /\ \A i \in Jobs \ {j} : Kept(i, F)
                                /\ reading' = reading \cup ({j} \X F)
  BY WalkFacts
<1>3. /\ \A g \in Files : WatchHas(g) => WatchHas(g)'
      /\ \A g \in Files \ F : SweepHas(g) => SweepHas(g)'
      /\ BlockingSweepRuns => BlockingSweepRuns'
      /\ \A i \in Jobs \ {j} : Sweeping(i)' => job'[i].todo \cap job'[i].seen = {}
  BY <1>1, <1>2, QueuesKept
<1>4. SweepSkipsFresh'
  BY <1>1, <1>3 DEF SweepSkipsFresh, Sweeping
<1>5. UNCHANGED <<world, buffer, workspace, indexed, parsing, raced>>
  BY DEF WalkStep
<1> QED
  BY <1>1, <1>2, <1>3, <1>4, <1>5, InvRead

(* The dependencies that are listed and not indexed pass from the sweep of *)
(* the blocking tiers to the one that follows it.                          *)
LEMMA InvEnd == ASSUME IndexInv, TypeOK', NEW j \in Jobs, SweepEnd(j) PROVE IndexInv'
<1> USE DEF IndexInv
<1>1. /\ Sweeping(j) /\ job[j].todo = {} /\ job'[j].seen = {}
      /\ \A i \in Jobs \ {j} : Kept(i, {})
      /\ job[j].kind = "sweep" => /\ job'[j].kind = "deps"
                                  /\ job'[j].todo = {f \in listed \cap Deps : indexed[f] = 0}
  BY EndFacts
<1>2. /\ UNCHANGED <<disk, notice, buffer, roots, listed, indexed, reading, parsing, raced>>
      /\ roots \in SUBSET Files
  BY DEF SweepEnd, world, workspace, TypeOK
<1>3. \A i \in Jobs \ {j} : job'[i].kind = job[i].kind /\ job'[i].todo = job[i].todo
  BY <1>1 DEF Kept
<1>4. \A g \in Files : /\ WatchHas(g) => WatchHas(g)'
                       /\ SweepHas(g) => SweepHas(g)'
  BY <1>1, <1>3 DEF WatchHas, SweepHas, Sweeping
<1>5. SweepSkipsFresh'
  BY <1>1, <1>3 DEF SweepSkipsFresh, Sweeping, Kept
<1>6. BlockingSweepRuns =>
        BlockingSweepRuns' \/ \A g \in listed \cap Deps : indexed[g] = 0 => SweepHas(g)'
  <2>1. CASE job[j].kind = "sweep"
    BY <1>1, <2>1 DEF SweepHas, Sweeping
  <2>2. CASE job[j].kind # "sweep"
    BY <1>3, <2>2 DEF BlockingSweepRuns
  <2> QED
    BY <2>1, <2>2
<1>7. NoticeFits' /\ OneAwaitPerFile' /\ OpenIsShown' /\ GoneIsForgotten'
  BY <1>2 DEF NoticeFits, OneAwaitPerFile, OpenIsShown, GoneIsForgotten, Settled
<1>8. \A g \in Files : (UnderWay(g) => UnderWay(g)') /\ (WillBeRead(g) => WillBeRead(g)')
  BY <1>2, <1>4 DEF UnderWay, WillBeRead
<1>9. \A g : Settled(g)' => Settled(g)
  BY <1>2 DEF Settled
<1>10. RootsHaveAnIndexer'
  <2> SUFFICES ASSUME NEW f \in roots, disk[f] # 0, indexed[f] = 0, ~UnderWay(f)', notice[f] # "changed",
                      ~WatchHas(f)', ~SweepHas(f)'
               PROVE  f \in Deps \cap listed /\ BlockingSweepRuns'
    BY <1>2 DEF RootsHaveAnIndexer
  <2>1. f \in Deps \cap listed /\ BlockingSweepRuns
    BY <1>2, <1>4, <1>8 DEF RootsHaveAnIndexer
  <2> QED
    BY <1>6, <2>1
<1>11. ParsesAreFollowed'
  BY <1>2, <1>8, <1>9 DEF ParsesAreFollowed
<1>12. ClosedIsFollowed'
  <2> SUFFICES ASSUME NEW f \in roots \cup Deps, Settled(f)
               PROVE  indexed[f] \in {0, disk[f]} \/ WillBeRead(f)' \/ SweepHas(f)'
    BY <1>2, <1>9 DEF ClosedIsFollowed
  <2>1. f \in Files
    BY <1>2, IndexAssumption
  <2> QED
    BY <1>4, <1>8, <2>1 DEF ClosedIsFollowed
<1> QED
  BY <1>5, <1>7, <1>10, <1>11, <1>12

(* A file is read: what is on disk now will be parsed, or there is nothing *)
(* on disk.                                                                *)
LEMMA InvReadFile ==
  ASSUME IndexInv, TypeOK', NEW j \in Jobs, NEW f \in Files, ReadFile(j, f) PROVE IndexInv'
<1> USE DEF IndexInv
<1>1. PICK K \in SUBSET Jobs : /\ \A k \in K : OwesNothing(k) /\ job'[k].kind = "walk"
                               /\ \A i \in Jobs \ K : Kept(i, {})
  BY ReadFacts
<1>2. /\ \A g \in Files : (WatchHas(g) => WatchHas(g)') /\ (SweepHas(g) => SweepHas(g)')
      /\ BlockingSweepRuns => BlockingSweepRuns'
      /\ \A i \in Jobs \ K : Sweeping(i)' => job'[i].todo \cap job'[i].seen = {}
  BY <1>1, QueuesKept
<1>3. SweepSkipsFresh'
  BY <1>1, <1>2 DEF SweepSkipsFresh, Sweeping
<1>4. /\ UNCHANGED <<disk, notice, buffer, roots, listed, indexed, raced>>
      /\ roots \in SUBSET Files /\ disk[f] \in Versions
      /\ <<j, f>> \in reading /\ reading' = reading \ {<<j, f>>}
      /\ parsing' = IF disk[f] # 0 THEN parsing \cup {<<j, f, disk[f]>>} ELSE parsing
  BY DEF ReadFile, world, workspace, TypeOK
<1>5. NoticeFits' /\ OpenIsShown'
  BY <1>4 DEF NoticeFits, OpenIsShown
<1>6. \A i \in Jobs, g \in Files, v \in Versions :
        <<i, g, v>> \in parsing' <=> \/ <<i, g, v>> \in parsing
                                     \/ i = j /\ g = f /\ v = disk[f] /\ disk[f] # 0
  BY <1>4
<1>7. \A i \in Jobs, g \in Files : <<i, g>> \in reading' <=> <<i, g>> \in reading /\ (i # j \/ g # f)
  BY <1>4
<1>8. OneAwaitPerFile'
  BY <1>4, <1>6, <1>7 DEF OneAwaitPerFile
<1>9. \A g \in Files : disk[g] # 0 => (UnderWay(g) => UnderWay(g)') /\ (WillBeRead(g) => WillBeRead(g)')
  <2> SUFFICES ASSUME NEW g \in Files, disk[g] # 0
               PROVE  (UnderWay(g) => UnderWay(g)') /\ (WillBeRead(g) => WillBeRead(g)')
    OBVIOUS
  <2>1. disk'[g] = disk[g] /\ disk[g] \in Versions
    BY <1>4 DEF TypeOK
  <2>2. CASE g = f
    <3>1. <<j, g, disk[g]>> \in parsing'
      BY <1>4, <2>2
    <3> QED
      BY <2>1, <3>1 DEF UnderWay, WillBeRead
  <2>3. CASE g # f
    <3>1. \A i \in Jobs, v \in Versions :
            /\ <<i, g, v>> \in parsing' <=> <<i, g, v>> \in parsing
            /\ <<i, g>> \in reading' <=> <<i, g>> \in reading
      BY <1>6, <1>7, <2>3
    <3> QED
      BY <1>2, <2>1, <3>1 DEF UnderWay, WillBeRead
  <2> QED
    BY <2>2, <2>3
<1>10. \A g : Settled(g)' => Settled(g)
  BY <1>4 DEF Settled
<1>11. RootsHaveAnIndexer'
  <2> SUFFICES ASSUME NEW g \in roots, disk[g] # 0, indexed[g] = 0, ~UnderWay(g)', notice[g] # "changed",
                      ~WatchHas(g)', ~SweepHas(g)'
               PROVE  g \in Deps \cap listed /\ BlockingSweepRuns'
    BY <1>4 DEF RootsHaveAnIndexer
  <2> QED
    BY <1>2, <1>4, <1>9 DEF RootsHaveAnIndexer
<1>12. GoneIsForgotten'
  BY <1>4, <1>6, <1>10 DEF GoneIsForgotten
<1>13. ParsesAreFollowed'
  <2> SUFFICES ASSUME NEW g \in Files, NEW i \in Jobs, NEW v \in Versions,
                      Settled(g), <<i, g, v>> \in parsing', v # disk[g]
               PROVE  WillBeRead(g)'
    BY <1>4, <1>10 DEF ParsesAreFollowed
  <2>1. <<i, g, v>> \in parsing
    BY <1>6
  <2>2. disk[g] # 0
    BY <2>1 DEF GoneIsForgotten
  <2> QED
    BY <1>9, <2>1, <2>2 DEF ParsesAreFollowed
<1>14. ClosedIsFollowed'
  <2> SUFFICES ASSUME NEW g \in roots \cup Deps, Settled(g)
               PROVE  indexed[g] \in {0, disk[g]} \/ WillBeRead(g)' \/ SweepHas(g)'
    BY <1>4, <1>10 DEF ClosedIsFollowed
  <2>1. g \in Files
    BY <1>4, IndexAssumption
  <2>2. CASE disk[g] = 0
    BY <2>1, <2>2 DEF GoneIsForgotten
  <2>3. CASE disk[g] # 0
    BY <1>2, <1>9, <2>1, <2>3 DEF ClosedIsFollowed
  <2> QED
    BY <2>2, <2>3
<1> QED
  BY <1>3, <1>5, <1>8, <1>11, <1>12, <1>13, <1>14

(* A file is parsed: it is indexed as it was read.  If its updates come    *)
(* one at a time nobody else reads or parses it, and an older text is      *)
(* followed by the reading that the watcher's handler still owes.          *)
LEMMA InvParsed ==
  ASSUME IndexInv, TypeOK', NEW j \in Jobs, NEW f \in Files, NEW v \in Versions, Parsed(j, f, v)
  PROVE  IndexInv'
<1> USE DEF IndexInv
<1>1. PICK K \in SUBSET Jobs : /\ \A k \in K : OwesNothing(k) /\ job'[k].kind = "walk"
                               /\ \A i \in Jobs \ K : Kept(i, {f})
  BY ParsedFacts
<1>2. /\ \A g \in Files : WatchHas(g) => WatchHas(g)'
      /\ \A g \in Files \ {f} : SweepHas(g) => SweepHas(g)'
      /\ BlockingSweepRuns => BlockingSweepRuns'
      /\ \A i \in Jobs \ K : Sweeping(i)' => job'[i].todo \cap job'[i].seen = {}
  BY <1>1, QueuesKept
<1>3. SweepSkipsFresh'
  BY <1>1, <1>2 DEF SweepSkipsFresh, Sweeping
<1>4. /\ UNCHANGED <<disk, notice, buffer, roots, listed, reading>>
      /\ roots \in SUBSET Files
      /\ <<j, f, v>> \in parsing /\ parsing' = parsing \ {<<j, f, v>>} /\ v # 0
      /\ \A g \in Files : indexed'[g] = IF g = f THEN v ELSE indexed[g]
  BY DEF Parsed, UpdateFile, world, workspace, TypeOK
<1>5. /\ raced \subseteq raced' /\ \A g \in Files \ {f} : g \in raced' => g \in raced
      /\ f \notin raced' => /\ buffer[f] \in {0, v}
                            /\ \A i \in Jobs : f \in Reading(i) \cup Parsing(i) => i = j
  BY DEF Parsed
<1>6. \A i \in Jobs, g \in Files, w \in Versions :
        <<i, g, w>> \in parsing' <=> <<i, g, w>> \in parsing /\ ~(i = j /\ g = f /\ w = v)
  BY <1>4
<1>7. f \notin raced' => /\ buffer[f] \in {0, v}
                         /\ \A i \in Jobs : <<i, f>> \notin reading /\ \A w \in Versions : <<i, f, w>> \notin parsing'
  <2> SUFFICES ASSUME f \notin raced', NEW i \in Jobs, NEW w \in Versions
               PROVE  <<i, f>> \notin reading /\ <<i, f, w>> \notin parsing'
    BY <1>5
  <2>1. <<i, f>> \in reading \/ <<i, f, w>> \in parsing => i = j
    BY <1>5, AwaitsAre
  <2> QED
    BY <1>4, <1>6, <2>1 DEF OneAwaitPerFile
<1>8. NoticeFits' /\ OneAwaitPerFile'
  BY <1>4, <1>6 DEF NoticeFits, OneAwaitPerFile
<1>9. OpenIsShown'
  BY <1>4, <1>5, <1>7 DEF OpenIsShown
<1>10. \A g \in Files \ {f} : (UnderWay(g) => UnderWay(g)') /\ (WillBeRead(g) => WillBeRead(g)')
  <2> SUFFICES ASSUME NEW g \in Files \ {f}
               PROVE  (UnderWay(g) => UnderWay(g)') /\ (WillBeRead(g) => WillBeRead(g)')
    OBVIOUS
  <2>1. \A i \in Jobs, w \in Versions : <<i, g, w>> \in parsing => <<i, g, w>> \in parsing'
    BY <1>6
  <2>2. disk'[g] \in Versions /\ disk'[g] = disk[g]
    BY <1>4 DEF TypeOK
  <2> QED
    BY <1>2, <1>4, <2>1, <2>2 DEF UnderWay, WillBeRead
<1>11. \A g \in Files : Settled(g)' => Settled(g)
  BY <1>4, <1>5 DEF Settled
<1>12. RootsHaveAnIndexer'
  <2> SUFFICES ASSUME NEW g \in roots, disk[g] # 0, indexed'[g] = 0, ~UnderWay(g)', notice[g] # "changed",
                      ~WatchHas(g)', ~SweepHas(g)'
               PROVE  g \in Deps \cap listed /\ BlockingSweepRuns'
    BY <1>4 DEF RootsHaveAnIndexer
  <2>1. g # f /\ g \in Files /\ indexed[g] = 0
    BY <1>4
  <2> QED
    BY <1>2, <1>10, <2>1 DEF RootsHaveAnIndexer
<1>13. Settled(f)' => v = disk[f] \/ WatchHas(f)'
  <2> SUFFICES ASSUME Settled(f)', v # disk[f] PROVE WatchHas(f)
    BY <1>2
  <2>1. f \notin raced' /\ Settled(f)
    BY <1>11 DEF Settled
  <2>2. WillBeRead(f)
    BY <1>4, <2>1 DEF ParsesAreFollowed
  <2>3. \A i \in Jobs : <<i, f>> \notin reading
    BY <1>7, <2>1
  <2>4. \A i \in Jobs : <<i, f, disk[f]>> \notin parsing
    <3>1. disk[f] \in Versions
      BY DEF TypeOK
    <3> QED
      BY <1>6, <1>7, <2>1, <3>1
  <2> QED
    BY <2>2, <2>3, <2>4 DEF WillBeRead
<1>14. GoneIsForgotten'
  <2> SUFFICES ASSUME NEW g \in Files, Settled(g)', disk[g] = 0
               PROVE  indexed'[g] = 0 /\ \A i \in Jobs, w \in Versions : <<i, g, w>> \notin parsing'
    BY <1>4 DEF GoneIsForgotten
  <2>1. Settled(g)
    BY <1>11
  <2>2. g # f
    BY <1>4, <2>1 DEF GoneIsForgotten
  <2> QED
    BY <1>4, <1>6, <2>1, <2>2 DEF GoneIsForgotten
<1>15. ParsesAreFollowed'
  <2> SUFFICES ASSUME NEW g \in Files, NEW i \in Jobs, NEW w \in Versions,
                      Settled(g)', <<i, g, w>> \in parsing', w # disk[g]
               PROVE  WillBeRead(g)'
    BY <1>4 DEF ParsesAreFollowed
  <2>1. Settled(g) /\ g \notin raced'
    BY <1>11 DEF Settled
  <2>2. g # f
    BY <1>7, <2>1
  <2> QED
    BY <1>6, <1>10, <2>1, <2>2 DEF ParsesAreFollowed
<1>16. ClosedIsFollowed'
  <2>0. roots \cup Deps \in SUBSET Files
    BY <1>4, IndexAssumption
  <2> SUFFICES ASSUME NEW g \in roots \cup Deps, Settled(g)'
               PROVE  indexed'[g] \in {0, disk[g]} \/ WillBeRead(g)' \/ SweepHas(g)'
    BY <1>4 DEF ClosedIsFollowed
  <2>1. g \in Files /\ Settled(g)
    BY <1>11, <2>0
  <2>2. CASE g = f
    BY <1>4, <1>13, <2>1, <2>2 DEF WillBeRead
  <2>3. CASE g # f
    BY <1>2, <1>4, <1>10, <2>1, <2>3 DEF ClosedIsFollowed
  <2> QED
    BY <2>2, <2>3
<1> QED
  BY <1>3, <1>8, <1>9, <1>12, <1>14, <1>15, <1>16
-----------------------------------------------------------------------------
LEMMA InvStep == IndexInv /\ [Next]_vars => IndexInv'
<1> SUFFICES ASSUME IndexInv, [Next]_vars PROVE IndexInv'
  OBVIOUS
<1>0. TypeOK'
  BY TypeStep DEF IndexInv
<1>1. ASSUME NEW f \in Files, Open(f) \/ Edit(f) PROVE IndexInv'
  <2>1. CASE Open(f)
    <3>1. OnDidChangeContent(f, disk[f]) /\ disk[f] \in Versions /\ disk[f] # 0 /\ UNCHANGED <<disk, notice>>
      BY <2>1 DEF Open, world, IndexInv, TypeOK
    <3> QED
      BY <1>0, <3>1, InvContent
  <2>2. CASE Edit(f)
    <3>1. OnDidChangeContent(f, clock + 1) /\ clock + 1 \in Versions /\ clock + 1 # 0
          /\ UNCHANGED <<disk, notice>>
      BY <2>2, IndexAssumption DEF Edit, IndexInv, TypeOK, Versions
    <3> QED
      BY <1>0, <3>1, InvContent
  <2> QED
    BY <1>1, <2>1, <2>2
<1>2. ASSUME NEW f \in Files, Save(f) \/ Write(f) \/ Delete(f) PROVE IndexInv'
  BY <1>0, <1>2, InvDisk
<1>3. ASSUME NEW f \in Files, Close(f) PROVE IndexInv'
  BY <1>0, <1>3, InvClose
<1>4. CASE WatcherReports
  <2>1. PICK S \in SUBSET Reports :
           /\ OnDidChangeWatchedFiles(S) \/ ReloadWorkspace(S)
           /\ notice' = [f \in Files |-> IF f \in S THEN "none" ELSE notice[f]]
    BY <1>4 DEF WatcherReports
  <2>2. UNCHANGED <<disk, buffer>>
    BY <1>4 DEF WatcherReports
  <2> QED
    BY <1>0, <2>1, <2>2, InvWatched, InvReload
<1>5. ASSUME NEW R \in RootSets, ChangeFolders(R) PROVE IndexInv'
  BY <1>0, <1>5, InvFolders
<1>6. ASSUME NEW j \in Jobs, JobStep(j) PROVE IndexInv'
  BY <1>0, <1>6, InvBatch, InvEnd, InvWalk, InvWatch, InvReadFile, InvParsed DEF JobStep
<1>7. CASE UNCHANGED vars
  <2>1. TypeOK' /\ NoticeFits' /\ OpenIsShown' /\ OneAwaitPerFile' /\ SweepSkipsFresh'
    BY <1>0, <1>7
       DEF IndexInv, NoticeFits, OpenIsShown, OneAwaitPerFile, SweepSkipsFresh, vars, Sweeping
  <2>2. /\ \A f \in Files : WatchHas(f)' = WatchHas(f) /\ SweepHas(f)' = SweepHas(f)
        /\ BlockingSweepRuns' = BlockingSweepRuns
    BY <1>7 DEF WatchHas, SweepHas, BlockingSweepRuns, vars, Sweeping
  <2>3. RootsHaveAnIndexer' /\ GoneIsForgotten' /\ ParsesAreFollowed' /\ ClosedIsFollowed'
    BY <1>7 DEF IndexInv, vars, RootsHaveAnIndexer, GoneIsForgotten, ParsesAreFollowed, ClosedIsFollowed,
                Settled, WillBeRead, UnderWay, WatchHas, SweepHas, BlockingSweepRuns, Sweeping
  <2> QED
    BY <2>1, <2>3 DEF IndexInv
<1> QED
  BY <1>1, <1>2, <1>3, <1>4, <1>5, <1>6, <1>7 DEF Next

(* The invariant: whatever a file's indexed text lacks, something that is  *)
(* still under way or still to be reported will bring it.                  *)
THEOREM Inductive == Spec => []IndexInv
<1> QED
  BY InvInit, InvStep, PTL DEF Spec

(* Sweeps, walks and document events that run at once lose no file of the  *)
(* workspace between them, and a sweep does not go over what an event has  *)
(* refreshed: about the queues of indexWorkspace(), which updateFile(),    *)
(* ensureImportsIndexed() and other sweeps take files from.                *)
THEOREM SweepsLoseNothing == Spec => []SweepsShareFiles
<1>1. ASSUME IndexInv PROVE SweepsShareFiles
  <2> USE <1>1 DEF IndexInv
  <2>1. SUFFICES ASSUME NEW f \in listed, disk[f] # 0, indexed[f] = 0
                 PROVE  \/ InFlight(f) \/ notice[f] = "changed"
                        \/ \E j \in Jobs : f \in job[j].todo /\ (Sweeping(j) \/ job[j].kind = "watch")
                        \/ f \in Deps /\ \E j \in Jobs : job[j].kind = "sweep"
    BY DEF SweepsShareFiles, EveryFileHasAnIndexer
  <2>2. f \in roots /\ f \in Files
    BY DEF TypeOK
  <2>3. UnderWay(f) => InFlight(f)
    BY <2>2, InFlightIs
  <2> QED
    BY <2>1, <2>2, <2>3 DEF RootsHaveAnIndexer, WatchHas, SweepHas, BlockingSweepRuns
<1> QED
  BY <1>1, Inductive, PTL

(* When every activity has come to its end, a file of the workspace whose  *)
(* updates came one at a time is indexed as the editor shows it or, if it  *)
(* is closed, as it is on disk: about everything that feeds the index.     *)
THEOREM QuietIsFresh == Spec => []QuietMeansFresh
<1>1. ASSUME IndexInv PROVE QuietMeansFresh
  <2> USE <1>1 DEF IndexInv
  <2>1. SUFFICES ASSUME Quiet, NEW f \in roots, f \notin raced PROVE indexed[f] = Current(f)
    BY DEF QuietMeansFresh
  <2>2. f \in Files /\ notice[f] = "none" /\ ~UnderWay(f)
    <3>1. f \in Files
      BY DEF TypeOK
    <3>2. reading = {} /\ parsing = {}
      BY <2>1 DEF Quiet
    <3> QED
      BY <2>1, <3>1, <3>2 DEF Quiet, UnderWay
  <2>3. ~WatchHas(f) /\ ~SweepHas(f) /\ ~BlockingSweepRuns
    BY <2>1 DEF Quiet, Free, WatchHas, SweepHas, BlockingSweepRuns, Sweeping
  <2>6. ~WillBeRead(f)
    BY <2>1, <2>3 DEF Quiet, WillBeRead
  <2>4. CASE buffer[f] # 0
    BY <2>1, <2>2, <2>3, <2>4 DEF OpenIsShown, Current
  <2>5. CASE buffer[f] = 0
    <3>1. Settled(f) /\ indexed[f] \in {0, disk[f]}
      BY <2>1, <2>2, <2>3, <2>5, <2>6 DEF Settled, ClosedIsFollowed
    <3>2. disk[f] # 0 => indexed[f] # 0
      BY <2>1, <2>2, <2>3 DEF RootsHaveAnIndexer
    <3> QED
      BY <2>5, <3>1, <3>2 DEF Current
  <2> QED
    BY <2>4, <2>5
<1> QED
  BY <1>1, Inductive, PTL
=============================================================================
