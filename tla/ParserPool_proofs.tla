-------------------------- MODULE ParserPool_proofs --------------------------
(***************************************************************************)
(* What holds of the parser pool for every number of workers and callers.  *)
(* The safety invariants of ParserPool need to know which stages of a call *)
(* hold a worker and who is in the queue.                                  *)
(***************************************************************************)
EXTENDS ParserPool, SequenceTheorems, TLAPS

(* A call holds a worker from the moment it is granted one until its       *)
(* finally block; only terminate() grants a call no worker.                *)
HoldsWhileServed ==
  \A c \in Calls :
    /\ holds[c] # NoWorker => pc[c] \in {"granted", "running", "answered", "failed"}
    /\ pc[c] \in {"running", "answered"} => holds[c] # NoWorker
    /\ pc[c] \in {"granted", "failed"} /\ ~terminated => holds[c] # NoWorker

(* The queue holds calls that wait, each once. *)
WaitersWait ==
  /\ \A i \in DOMAIN waiters : pc[waiters[i]] = "waiting"
  /\ \A i, j \in DOMAIN waiters : waiters[i] = waiters[j] => i = j

(* Every worker of an open pool is idle or held. *)
IdleOrHeld ==
  ~terminated => \A w \in Workers : \/ \E i \in DOMAIN idle : idle[i] = w
                                    \/ \E c \in Calls : holds[c] = w

PoolInv == /\ TypeOK
           /\ HoldsWhileServed
           /\ WaitersWait
           /\ OneParsePerWorker
           /\ QueueOnlyWhenBusy
           /\ IdleOrHeld

-----------------------------------------------------------------------------
(* Sequences: what popping, appending and taking the tail leave. *)
LEMMA PrefixFacts ==
  ASSUME NEW S, NEW s, NEW n \in Nat, \A i \in 1 .. n : s[i] \in S
  PROVE  /\ SubSeq(s, 1, n) \in Seq(S)
         /\ Len(SubSeq(s, 1, n)) = n
         /\ DOMAIN SubSeq(s, 1, n) = 1 .. n
         /\ \A i \in 1 .. n : SubSeq(s, 1, n)[i] = s[i]
<1>1. SubSeq(s, 1, n) \in Seq(S)
  BY SMT
<1>2. Len(SubSeq(s, 1, n)) = n
  BY SMT
<1>3. \A i \in 1 .. n : SubSeq(s, 1, n)[i] = s[i]
  BY SMT
<1>4. DOMAIN SubSeq(s, 1, n) = 1 .. n
  BY <1>1, <1>2, LenProperties
<1> QED BY <1>1, <1>2, <1>3, <1>4

LEMMA PopFacts ==
  ASSUME NEW S, NEW s \in Seq(S), s # <<>>
  PROVE  /\ SubSeq(s, 1, Len(s) - 1) \in Seq(S)
         /\ Len(SubSeq(s, 1, Len(s) - 1)) = Len(s) - 1
         /\ DOMAIN SubSeq(s, 1, Len(s) - 1) = 1 .. Len(s) - 1
         /\ \A i \in 1 .. Len(s) - 1 : SubSeq(s, 1, Len(s) - 1)[i] = s[i]
         /\ Len(s) \in Nat \ {0}
         /\ DOMAIN s = 1 .. Len(s)
         /\ s[Len(s)] \in S
<1>1. Len(s) \in Nat \ {0}
  BY EmptySeq
<1>2. DOMAIN s = 1 .. Len(s) /\ \A i \in 1 .. Len(s) : s[i] \in S
  BY LenProperties, ElementOfSeq
<1>3. PICK n : n = Len(s) - 1
  OBVIOUS
<1>4. n \in Nat /\ \A i \in 1 .. n : s[i] \in S
  BY <1>1, <1>2, <1>3
<1>5. /\ SubSeq(s, 1, n) \in Seq(S)
      /\ Len(SubSeq(s, 1, n)) = n
      /\ DOMAIN SubSeq(s, 1, n) = 1 .. n
      /\ \A i \in 1 .. n : SubSeq(s, 1, n)[i] = s[i]
  BY <1>4, PrefixFacts
<1> QED BY <1>1, <1>2, <1>3, <1>5

LEMMA TailFacts ==
  ASSUME NEW S, NEW s \in Seq(S), s # <<>>
  PROVE  /\ Head(s) \in S /\ Head(s) = s[1]
         /\ Tail(s) \in Seq(S)
         /\ Len(s) \in Nat \ {0}
         /\ DOMAIN s = 1 .. Len(s)
         /\ Len(Tail(s)) = Len(s) - 1
         /\ DOMAIN Tail(s) = 1 .. Len(s) - 1
         /\ \A i \in 1 .. Len(s) - 1 : Tail(s)[i] = s[i + 1]
  BY EmptySeq, HeadTailProperties, LenProperties

LEMMA AppendFacts ==
  ASSUME NEW S, NEW s \in Seq(S), NEW e \in S
  PROVE  /\ Append(s, e) \in Seq(S)
         /\ Append(s, e) # <<>>
         /\ Len(s) \in Nat
         /\ DOMAIN s = 1 .. Len(s)
         /\ Len(Append(s, e)) = Len(s) + 1
         /\ DOMAIN Append(s, e) = 1 .. Len(s) + 1
         /\ \A i \in 1 .. Len(s) : Append(s, e)[i] = s[i]
         /\ Append(s, e)[Len(s) + 1] = e
  BY AppendProperties, LenProperties

-----------------------------------------------------------------------------
LEMMA EmptyFacts ==
  ASSUME NEW S, NEW s \in Seq(S), Len(s) = 0 \/ DOMAIN s = {}
  PROVE  s = <<>>
<1>1. Len(s) \in Nat /\ DOMAIN s = 1 .. Len(s)
  BY LenProperties
<1>2. Len(s) = 0
  BY <1>1
<1> QED BY <1>2, EmptySeq

LEMMA OneAndNone ==
  ASSUME NEW a \in Nat \ {0}, NEW b \in Nat, a + b <= 1 \/ b + a <= 1
  PROVE  a = 1 /\ b = 0
  OBVIOUS

LEMMA IdleAreWorkers ==
  ASSUME TypeOK
  PROVE  \A i \in DOMAIN idle : idle[i] \in Workers /\ idle[i] # NoWorker
<1>1. DOMAIN idle = 1 .. Len(idle) /\ \A i \in 1 .. Len(idle) : idle[i] \in Workers
  BY LenProperties, ElementOfSeq DEF TypeOK
<1>2. \A w \in Workers : w # NoWorker
  BY PoolAssumption DEF Workers, NoWorker
<1> QED BY <1>1, <1>2

LEMMA InitInv == Init => PoolInv
<1> SUFFICES ASSUME Init PROVE PoolInv
  OBVIOUS
<1> USE PoolAssumption DEF Init
<1>1. idle \in Seq(Workers) /\ Len(idle) = Size /\ DOMAIN idle = 1 .. Size
  BY DEF Workers
<1>2. TypeOK
  <2>1. <<>> \in Seq(Calls) /\ <<>> \in Seq(Event)
    BY EmptySeq
  <2> QED BY <1>1, <2>1 DEF TypeOK, CallState, NoWorker
<1>3. HoldsWhileServed
  BY DEF HoldsWhileServed
<1>4. WaitersWait /\ QueueOnlyWhenBusy
  BY DEF WaitersWait, QueueOnlyWhenBusy
<1>5. OneParsePerWorker
  BY <1>1 DEF OneParsePerWorker, Workers, NoWorker
<1>6. IdleOrHeld
  BY <1>1 DEF IdleOrHeld, Workers
<1> QED BY <1>2, <1>3, <1>4, <1>5, <1>6 DEF PoolInv

(* The callers' steps. *)
LEMMA ParseInv ==
  ASSUME PoolInv, NEW c \in Calls, Parse(c)
  PROVE  PoolInv'
<1> USE DEF Parse, threadVars
<1>a. CASE ParseRefused(c)
  <2>1. TypeOK'
    BY <1>a DEF ParseRefused, PoolInv, TypeOK, CallState, terminated
  <2>2. HoldsWhileServed'
    BY <1>a DEF ParseRefused, PoolInv, TypeOK, HoldsWhileServed, terminated
  <2>3. WaitersWait' /\ QueueOnlyWhenBusy'
    BY <1>a DEF ParseRefused, PoolInv, TypeOK, WaitersWait, QueueOnlyWhenBusy, terminated
  <2>4. OneParsePerWorker' /\ IdleOrHeld'
    BY <1>a DEF ParseRefused, PoolInv, OneParsePerWorker, IdleOrHeld, terminated
  <2> QED BY <2>1, <2>2, <2>3, <2>4 DEF PoolInv
<1>b. CASE AcquireIdle(c)
  <2>0. /\ idle' \in Seq(Workers)
        /\ Len(idle') = Len(idle) - 1
        /\ DOMAIN idle' = 1 .. Len(idle) - 1
        /\ \A i \in 1 .. Len(idle) - 1 : idle'[i] = idle[i]
        /\ Len(idle) \in Nat \ {0}
        /\ DOMAIN idle = 1 .. Len(idle)
        /\ idle[Len(idle)] \in Workers
    BY <1>b, PopFacts DEF AcquireIdle, PoolInv, TypeOK
  <2>1. TypeOK'
    BY <1>b, <2>0 DEF AcquireIdle, PoolInv, TypeOK, CallState
  <2>2. HoldsWhileServed'
    BY <1>b, <2>0 DEF AcquireIdle, PoolInv, TypeOK, HoldsWhileServed, terminated, NoWorker, Workers
  <2>3. waiters = <<>>
    BY <1>b DEF AcquireIdle, PoolInv, QueueOnlyWhenBusy
  <2>4. WaitersWait' /\ QueueOnlyWhenBusy'
    BY <1>b, <2>3 DEF AcquireIdle, PoolInv, TypeOK, WaitersWait, QueueOnlyWhenBusy, terminated
  <2>5. OneParsePerWorker'
    <3>1. /\ \A d, e \in Calls : holds[d] = holds[e] /\ holds[d] # NoWorker => d = e
          /\ \A i \in 1 .. Len(idle) : \A d \in Calls : holds[d] # idle[i]
          /\ \A i, j \in 1 .. Len(idle) : idle[i] = idle[j] => i = j
      BY <2>0 DEF PoolInv, OneParsePerWorker
    <3>2. \A d \in Calls : holds'[d] = IF d = c THEN idle[Len(idle)] ELSE holds[d]
      BY <1>b DEF AcquireIdle, PoolInv, TypeOK
    <3>3. Len(idle) \in 1 .. Len(idle)
      BY <2>0
    <3>4. \A d, e \in Calls : holds'[d] = holds'[e] /\ holds'[d] # NoWorker => d = e
      BY <3>1, <3>2, <3>3
    <3>5. \A i \in 1 .. Len(idle) - 1 : i \in 1 .. Len(idle) /\ i # Len(idle)
      BY <2>0
    <3>6. \A i \in DOMAIN idle' : \A d \in Calls : holds'[d] # idle'[i]
      BY <2>0, <3>1, <3>2, <3>3, <3>5
    <3>7. \A i, j \in DOMAIN idle' : idle'[i] = idle'[j] => i = j
      BY <2>0, <3>1, <3>5
    <3> QED BY <3>4, <3>6, <3>7 DEF OneParsePerWorker, NoWorker
  <2>6. IdleOrHeld'
    <3> SUFFICES ASSUME ~terminated', NEW w \in Workers
                 PROVE  (\E i \in DOMAIN idle : idle[i] = w)' \/ (\E d \in Calls : holds[d] = w)'
      BY DEF IdleOrHeld, Workers
    <3>1. (\E i \in DOMAIN idle : idle[i] = w) \/ (\E d \in Calls : holds[d] = w)
      BY <1>b DEF AcquireIdle, PoolInv, IdleOrHeld, terminated
    <3>2. CASE \E d \in Calls : holds[d] = w
      <4>1. holds[c] = NoWorker
        BY DEF PoolInv, HoldsWhileServed
      <4> QED BY <1>b, <3>2, <4>1 DEF AcquireIdle, PoolInv, TypeOK, Workers, NoWorker
    <3>3. CASE \E i \in DOMAIN idle : idle[i] = w
      <4>1. PICK i \in 1 .. Len(idle) : idle[i] = w
        BY <2>0, <3>3
      <4>2. CASE i = Len(idle)
        BY <1>b, <4>1, <4>2 DEF AcquireIdle, PoolInv, TypeOK
      <4>3. CASE i # Len(idle)
        BY <2>0, <4>1, <4>3
      <4> QED BY <4>2, <4>3
    <3> QED BY <3>1, <3>2, <3>3
  <2> QED BY <2>1, <2>2, <2>4, <2>5, <2>6 DEF PoolInv
<1>c. CASE AcquireWait(c)
  <2>0. /\ waiters' \in Seq(Calls)
        /\ waiters' # <<>>
        /\ Len(waiters) \in Nat
        /\ DOMAIN waiters = 1 .. Len(waiters)
        /\ DOMAIN waiters' = 1 .. Len(waiters) + 1
        /\ \A i \in 1 .. Len(waiters) : waiters'[i] = waiters[i]
        /\ waiters'[Len(waiters) + 1] = c
    BY <1>c, AppendFacts DEF AcquireWait, PoolInv, TypeOK
  <2>1. TypeOK'
    BY <1>c, <2>0 DEF AcquireWait, PoolInv, TypeOK, CallState
  <2>2. HoldsWhileServed'
    BY <1>c DEF AcquireWait, PoolInv, TypeOK, HoldsWhileServed, terminated
  <2>3. WaitersWait'
    BY <1>c, <2>0 DEF AcquireWait, PoolInv, TypeOK, WaitersWait
  <2>4. QueueOnlyWhenBusy'
    BY <1>c DEF AcquireWait, QueueOnlyWhenBusy, terminated
  <2>5. OneParsePerWorker' /\ IdleOrHeld'
    BY <1>c DEF AcquireWait, PoolInv, OneParsePerWorker, IdleOrHeld, terminated
  <2> QED BY <2>1, <2>2, <2>3, <2>4, <2>5 DEF PoolInv
<1> QED BY <1>a, <1>b, <1>c

LEMMA RunOnWorkerInv ==
  ASSUME PoolInv, NEW c \in Calls, RunOnWorker(c)
  PROVE  PoolInv'
<1> USE DEF RunOnWorker
<1>1. TypeOK'
  <2>1. CASE Post(c)
    <3>1. holds[c] \in Workers
      BY <2>1 DEF Post, PoolInv, TypeOK
    <3>2. Append(inbox[holds[c]], c) \in Seq(Calls)
      BY <3>1, AppendFacts DEF PoolInv, TypeOK
    <3> QED BY <2>1, <3>1, <3>2 DEF Post, PoolInv, TypeOK, CallState
  <2>2. CASE PostFails(c)
    BY <2>2 DEF PostFails, PoolInv, TypeOK, CallState
  <2> QED BY <2>1, <2>2
<1>2. HoldsWhileServed'
  BY DEF Post, PostFails, PoolInv, TypeOK, HoldsWhileServed, terminated
<1>3. WaitersWait'
  BY DEF Post, PostFails, PoolInv, TypeOK, WaitersWait
<1>4. OneParsePerWorker' /\ IdleOrHeld' /\ QueueOnlyWhenBusy'
  BY DEF PoolInv, OneParsePerWorker, IdleOrHeld, QueueOnlyWhenBusy, terminated
<1> QED BY <1>1, <1>2, <1>3, <1>4 DEF PoolInv

LEMMA SettleInv ==
  ASSUME PoolInv, NEW c \in Calls, Settle(c)
  PROVE  PoolInv'
<1> USE DEF Settle, threadVars
<1>0. pc[c] \in {"answered", "failed"} /\ Outcome(c) \in {"resolved", "rejected"}
  BY DEF Outcome
<1>a. CASE HandOver(c)
  <2> DEFINE h == Head(waiters)
  <2>0. /\ h \in Calls /\ h = waiters[1]
        /\ waiters' \in Seq(Calls)
        /\ Len(waiters) \in Nat \ {0}
        /\ DOMAIN waiters = 1 .. Len(waiters)
        /\ DOMAIN waiters' = 1 .. Len(waiters) - 1
        /\ \A i \in 1 .. Len(waiters) - 1 : waiters'[i] = waiters[i + 1]
    BY <1>a, TailFacts DEF HandOver, PoolInv, TypeOK
  <2>1. pc[h] = "waiting" /\ h # c /\ holds[h] = NoWorker
    BY <1>0, <2>0 DEF PoolInv, WaitersWait, HoldsWhileServed
  <2>2. holds[c] # NoWorker
    BY <1>a, <1>0 DEF HandOver, PoolInv, HoldsWhileServed
  <2>3. \A d \in Calls : holds'[d] = IF d = h THEN holds[c] ELSE IF d = c THEN NoWorker ELSE holds[d]
    BY <1>a, <2>0, <2>1 DEF HandOver, PoolInv, TypeOK
  <2>4. \A d \in Calls : pc'[d] = IF d = h THEN "granted" ELSE IF d = c THEN Outcome(c) ELSE pc[d]
    BY <1>a, <2>0, <2>1 DEF HandOver, PoolInv, TypeOK
  <2>5. TypeOK'
    BY <1>a, <1>0, <2>0 DEF HandOver, PoolInv, TypeOK, CallState, NoWorker
  <2>6. HoldsWhileServed'
    BY <1>a, <1>0, <2>2, <2>3, <2>4 DEF HandOver, PoolInv, HoldsWhileServed, terminated
  <2>7. WaitersWait'
    <3>1. \A i \in DOMAIN waiters' : waiters'[i] \notin {h, c}
      <4> SUFFICES ASSUME NEW i \in DOMAIN waiters' PROVE waiters'[i] \notin {h, c}
        OBVIOUS
      <4>1. i + 1 \in DOMAIN waiters /\ 1 \in DOMAIN waiters /\ i + 1 # 1
        BY <2>0
      <4> QED BY <1>0, <2>0, <4>1 DEF PoolInv, WaitersWait
    <3>2. \A i \in DOMAIN waiters' : i + 1 \in DOMAIN waiters /\ waiters'[i] = waiters[i + 1]
      BY <2>0
    <3>3. \A i \in DOMAIN waiters' : waiters'[i] \in Calls /\ pc[waiters'[i]] = "waiting"
      BY <3>2, ElementOfSeq DEF PoolInv, TypeOK, WaitersWait
    <3>4. \A i, j \in DOMAIN waiters' : waiters'[i] = waiters'[j] => i = j
      <4> SUFFICES ASSUME NEW i \in DOMAIN waiters', NEW j \in DOMAIN waiters', waiters'[i] = waiters'[j]
                   PROVE  i = j
        OBVIOUS
      <4>1. i + 1 = j + 1
        BY <3>2 DEF PoolInv, WaitersWait
      <4> QED BY <4>1, <2>0
    <3> QED BY <2>4, <3>1, <3>3, <3>4 DEF WaitersWait
  <2>8. QueueOnlyWhenBusy'
    BY <1>a DEF HandOver, PoolInv, QueueOnlyWhenBusy, terminated
  <2>9. OneParsePerWorker'
    <3>1. idle' = <<>>
      BY <1>a DEF HandOver, PoolInv, QueueOnlyWhenBusy
    <3>2. DOMAIN idle' = {}
      BY <3>1
    <3>3. \A d, e \in Calls : holds[d] = holds[e] /\ holds[d] # NoWorker => d = e
      BY DEF PoolInv, OneParsePerWorker
    <3>4. \A d, e \in Calls : holds'[d] = holds'[e] /\ holds'[d] # NoWorker => d = e
      BY <2>1, <2>2, <2>3, <3>3
    <3> QED BY <3>2, <3>4 DEF OneParsePerWorker, NoWorker
  <2>10. IdleOrHeld'
    <3>1. \A w \in Workers : (\E i \in DOMAIN idle : idle[i] = w) \/ (\E d \in Calls : holds[d] = w)
      BY <1>a DEF HandOver, PoolInv, IdleOrHeld
    <3>2. \A w \in Workers : (\E d \in Calls : holds[d] = w) => (\E d \in Calls : holds'[d] = w)
      <4> SUFFICES ASSUME NEW w \in Workers, NEW d \in Calls, holds[d] = w
                   PROVE  \E e \in Calls : holds'[e] = w
        OBVIOUS
      <4>1. w # NoWorker
        BY PoolAssumption DEF Workers, NoWorker
      <4>2. CASE d = c
        BY <2>0, <2>3, <4>2
      <4>3. CASE d # c
        BY <2>1, <2>3, <4>1, <4>3
      <4> QED BY <4>2, <4>3
    <3>3. idle' = idle
      BY <1>a DEF HandOver
    <3> QED BY <3>1, <3>2, <3>3 DEF IdleOrHeld, Workers
  <2> QED BY <2>5, <2>6, <2>7, <2>8, <2>9, <2>10 DEF PoolInv
<1>b. CASE BackToIdle(c)
  <2>0. holds[c] \in Workers /\ holds[c] # NoWorker
    BY <1>b, <1>0 DEF BackToIdle, PoolInv, HoldsWhileServed, TypeOK
  <2>1. /\ idle' \in Seq(Workers)
        /\ Len(idle) \in Nat
        /\ DOMAIN idle = 1 .. Len(idle)
        /\ DOMAIN idle' = 1 .. Len(idle) + 1
        /\ \A i \in 1 .. Len(idle) : idle'[i] = idle[i]
        /\ idle'[Len(idle) + 1] = holds[c]
    BY <1>b, <2>0, AppendFacts DEF BackToIdle, PoolInv, TypeOK
  <2>2. \A d \in Calls : holds'[d] = IF d = c THEN NoWorker ELSE holds[d]
    BY <1>b DEF BackToIdle, PoolInv, TypeOK
  <2>3. TypeOK'
    BY <1>b, <1>0, <2>1 DEF BackToIdle, PoolInv, TypeOK, CallState, NoWorker
  <2>4. HoldsWhileServed'
    BY <1>b, <1>0, <2>2 DEF BackToIdle, PoolInv, TypeOK, HoldsWhileServed, terminated
  <2>5. WaitersWait' /\ QueueOnlyWhenBusy'
    BY <1>b DEF BackToIdle, PoolInv, TypeOK, WaitersWait, QueueOnlyWhenBusy, terminated
  <2>6. OneParsePerWorker'
    <3>1. \A i \in DOMAIN idle' : \/ i \in DOMAIN idle /\ idle'[i] = idle[i]
                                  \/ i = Len(idle) + 1 /\ idle'[i] = holds[c]
      BY <2>1
    <3>2. \A d, e \in Calls : holds'[d] = holds'[e] /\ holds'[d] # NoWorker => d = e
      BY <2>2 DEF PoolInv, OneParsePerWorker
    <3>3. \A i \in DOMAIN idle' : \A d \in Calls : holds'[d] # idle'[i]
      <4>1. \A i \in DOMAIN idle : idle[i] # NoWorker
        BY IdleAreWorkers DEF PoolInv
      <4> QED BY <2>0, <2>2, <3>1, <4>1 DEF PoolInv, OneParsePerWorker
    <3>4. \A i, j \in DOMAIN idle' : idle'[i] = idle'[j] => i = j
      BY <3>1 DEF PoolInv, OneParsePerWorker
    <3> QED BY <3>2, <3>3, <3>4 DEF OneParsePerWorker, NoWorker
  <2>7. IdleOrHeld'
    BY <1>b, <2>0, <2>1, <2>2 DEF BackToIdle, PoolInv, IdleOrHeld, terminated, Workers
  <2> QED BY <2>3, <2>4, <2>5, <2>6, <2>7 DEF PoolInv
<1>c. CASE ReleaseAfterTerminate(c)
  <2>1. TypeOK'
    BY <1>c, <1>0 DEF ReleaseAfterTerminate, PoolInv, TypeOK, CallState, NoWorker
  <2>2. HoldsWhileServed'
    BY <1>c, <1>0 DEF ReleaseAfterTerminate, PoolInv, TypeOK, HoldsWhileServed, terminated
  <2>3. WaitersWait' /\ QueueOnlyWhenBusy'
    BY <1>c, <1>0 DEF ReleaseAfterTerminate, PoolInv, TypeOK, WaitersWait, QueueOnlyWhenBusy, terminated
  <2>4. OneParsePerWorker'
    <3>1. \A d \in Calls : holds'[d] = IF d = c THEN NoWorker ELSE holds[d]
      BY <1>c DEF ReleaseAfterTerminate, PoolInv, TypeOK
    <3>2. \A i \in DOMAIN idle : idle[i] # NoWorker
      BY IdleAreWorkers DEF PoolInv
    <3> QED BY <1>c, <3>1, <3>2 DEF ReleaseAfterTerminate, PoolInv, OneParsePerWorker
  <2>5. IdleOrHeld'
    BY <1>c DEF ReleaseAfterTerminate, IdleOrHeld, terminated
  <2> QED BY <2>1, <2>2, <2>3, <2>4, <2>5 DEF PoolInv
<1> QED BY <1>a, <1>b, <1>c DEF Release

(* The steps of the worker threads, of the event loop and of terminate(). *)
LEMMA HandleInv ==
  ASSUME PoolInv, NEW w \in Workers, Handle(w)
  PROVE  PoolInv'
<1> USE DEF Handle, mainVars
<1>1. inbox[w] \in Seq(Calls) /\ inbox[w] # <<>> /\ outbox[w] \in Seq(Event)
  BY DEF PoolInv, TypeOK
<1>2. Tail(inbox[w]) \in Seq(Calls) /\ Head(inbox[w]) \in Calls
  BY <1>1, TailFacts
<1>3. PICK kind \in {"ok", "workerError"} :
        outbox' = [outbox EXCEPT ![w] = Append(@, [call |-> Head(inbox[w]), kind |-> kind])]
  OBVIOUS
<1>4. [call |-> Head(inbox[w]), kind |-> kind] \in Event
  BY <1>2 DEF Event
<1>5. Append(outbox[w], [call |-> Head(inbox[w]), kind |-> kind]) \in Seq(Event)
  BY <1>1, <1>4, AppendFacts
<1>6. TypeOK'
  BY <1>2, <1>3, <1>5 DEF PoolInv, TypeOK
<1> QED BY <1>6 DEF PoolInv, HoldsWhileServed, WaitersWait, OneParsePerWorker,
                    QueueOnlyWhenBusy, IdleOrHeld, terminated

LEMMA CrashInv ==
  ASSUME PoolInv, NEW w \in Workers, Crash(w)
  PROVE  PoolInv'
<1> USE DEF Crash, mainVars
<1>1. inbox[w] \in Seq(Calls) /\ inbox[w] # <<>> /\ outbox[w] \in Seq(Event)
  BY DEF PoolInv, TypeOK
<1>2. [call |-> Head(inbox[w]), kind |-> "error"] \in Event
  BY <1>1, TailFacts DEF Event
<1>3. Append(outbox[w], [call |-> Head(inbox[w]), kind |-> "error"]) \in Seq(Event)
  BY <1>1, <1>2, AppendFacts
<1>4. <<>> \in Seq(Calls)
  BY EmptySeq
<1>5. TypeOK'
  BY <1>3, <1>4 DEF PoolInv, TypeOK
<1> QED BY <1>5 DEF PoolInv, HoldsWhileServed, WaitersWait, OneParsePerWorker,
                    QueueOnlyWhenBusy, IdleOrHeld, terminated

LEMMA DeliverInv ==
  ASSUME PoolInv, NEW w \in Workers, Deliver(w)
  PROVE  PoolInv'
<1> USE DEF Deliver
<1>1. \A c \in Calls : \/ pc'[c] = pc[c]
                       \/ pc[c] = "running" /\ pc'[c] \in {"answered", "failed"}
  BY DEF Listeners
<1>2. pc' \in [Calls -> CallState]
  BY DEF PoolInv, TypeOK, CallState
<1>3. Tail(outbox[w]) \in Seq(Event)
  BY TailFacts DEF PoolInv, TypeOK
<1>4. TypeOK'
  BY <1>2, <1>3 DEF PoolInv, TypeOK
<1>5. HoldsWhileServed'
  BY <1>1 DEF PoolInv, HoldsWhileServed, terminated
<1>6. WaitersWait'
  <2>1. \A i \in DOMAIN waiters : waiters[i] \in Calls
    BY LenProperties, ElementOfSeq DEF PoolInv, TypeOK
  <2> QED BY <1>1, <2>1 DEF PoolInv, WaitersWait
<1> QED BY <1>4, <1>5, <1>6 DEF PoolInv, OneParsePerWorker, QueueOnlyWhenBusy, IdleOrHeld, terminated

LEMMA ExitInv ==
  ASSUME PoolInv, NEW w \in Workers, Exit(w)
  PROVE  PoolInv'
<1> USE DEF Exit, mainVars
<1>1. TypeOK'
  BY EmptySeq DEF PoolInv, TypeOK
<1> QED BY <1>1 DEF PoolInv, HoldsWhileServed, WaitersWait, OneParsePerWorker,
                    QueueOnlyWhenBusy, IdleOrHeld, terminated

LEMMA TerminateInv ==
  ASSUME PoolInv, Terminate
  PROVE  PoolInv'
<1> USE DEF Terminate, threadVars
<1>1. TypeOK'
  BY EmptySeq DEF PoolInv, TypeOK, CallState
<1>2. \A c \in Calls : c \in Waiting => pc[c] = "waiting"
  BY DEF Waiting, PoolInv, WaitersWait
<1>3. HoldsWhileServed'
  BY <1>2 DEF PoolInv, HoldsWhileServed, terminated
<1> QED BY <1>1, <1>3 DEF PoolInv, WaitersWait, OneParsePerWorker, QueueOnlyWhenBusy,
                          IdleOrHeld, terminated

LEMMA TerminateDoneInv ==
  ASSUME PoolInv, TerminateDone
  PROVE  PoolInv'
<1> USE DEF TerminateDone, threadVars
<1>1. TypeOK'
  BY EmptySeq DEF PoolInv, TypeOK
<1>2. waiters = <<>>
  BY DEF PoolInv, QueueOnlyWhenBusy, terminated
<1> QED BY <1>1, <1>2 DEF PoolInv, HoldsWhileServed, WaitersWait, OneParsePerWorker,
                          QueueOnlyWhenBusy, IdleOrHeld, terminated

LEMMA StepInv == PoolInv /\ [Next]_vars => PoolInv'
<1> SUFFICES ASSUME PoolInv, [Next]_vars PROVE PoolInv'
  OBVIOUS
<1>1. CASE UNCHANGED vars
  BY <1>1 DEF vars, PoolInv, TypeOK, HoldsWhileServed, WaitersWait, OneParsePerWorker,
              QueueOnlyWhenBusy, IdleOrHeld, terminated, Workers, CallState, Event
<1>2. ASSUME NEW c \in Calls, Parse(c) PROVE PoolInv'
  BY <1>2, ParseInv
<1>3. ASSUME NEW c \in Calls, RunOnWorker(c) PROVE PoolInv'
  BY <1>3, RunOnWorkerInv
<1>4. ASSUME NEW c \in Calls, Settle(c) PROVE PoolInv'
  BY <1>4, SettleInv
<1>5. ASSUME NEW w \in Workers, Handle(w) PROVE PoolInv'
  BY <1>5, HandleInv
<1>6. ASSUME NEW w \in Workers, Crash(w) PROVE PoolInv'
  BY <1>6, CrashInv
<1>7. ASSUME NEW w \in Workers, Deliver(w) PROVE PoolInv'
  BY <1>7, DeliverInv
<1>8. ASSUME NEW w \in Workers, Exit(w) PROVE PoolInv'
  BY <1>8, ExitInv
<1>9. CASE Terminate
  BY <1>9, TerminateInv
<1>10. CASE TerminateDone
  BY <1>10, TerminateDoneInv
<1> QED BY <1>1, <1>2, <1>3, <1>4, <1>5, <1>6, <1>7, <1>8, <1>9, <1>10 DEF Next

-----------------------------------------------------------------------------
(* Every state the pool can reach satisfies the invariant, whatever the    *)
(* number of workers and callers, the crashes and the time of shutdown.    *)
THEOREM PoolInvariant == Spec => []PoolInv
  BY InitInv, StepInv, PTL DEF Spec

(* What the variables hold: only workers become idle, release() after      *)
(* terminate() included.                                                   *)
THEOREM TypeCorrect == Spec => []TypeOK
  BY PoolInvariant, PTL DEF PoolInv

(* A worker serves one parse at a time, and is not idle meanwhile.         *)
THEOREM OneParseAtATime == Spec => []OneParsePerWorker
  BY PoolInvariant, PTL DEF PoolInv

(* release() gives back every worker, on every path out of runOnWorker().  *)
THEOREM WorkersAreKept == Spec => []NoWorkerLost
<1>1. PoolInv => NoWorkerLost
  <2>1. \A w \in Workers : w # NoWorker
    BY PoolAssumption DEF Workers, NoWorker
  <2>2. PoolInv => \A c \in Calls : holds[c] # NoWorker => ~Settled(c)
    BY DEF PoolInv, HoldsWhileServed, Settled
  <2> QED BY <2>1, <2>2 DEF PoolInv, IdleOrHeld, NoWorkerLost
<1> QED BY <1>1, PoolInvariant, PTL

(* Nobody waits beside an idle worker, nor in a terminated pool.           *)
THEOREM QueueIsNeeded == Spec => []QueueOnlyWhenBusy
  BY PoolInvariant, PTL DEF PoolInv

-----------------------------------------------------------------------------
(* One parse, one worker, one response: the requests and answers under way *)
(* at a worker belong to its only listener.                                *)
ResponseAt(w) ==
  /\ Len(inbox[w]) + Len(outbox[w]) <= 1
  /\ \A i \in DOMAIN inbox[w]  : Listeners(w) = {inbox[w][i]}
  /\ \A i \in DOMAIN outbox[w] : Listeners(w) = {outbox[w][i].call}

(* Nothing is under way at a worker nobody listens to. *)
LEMMA SilentWorker ==
  ASSUME TypeOK, NEW w \in Workers, ResponseAt(w), Listeners(w) = {}
  PROVE  inbox[w] = <<>> /\ outbox[w] = <<>>
<1>1. inbox[w] \in Seq(Calls) /\ outbox[w] \in Seq(Event)
  BY DEF TypeOK
<1>2. DOMAIN inbox[w] = {} /\ DOMAIN outbox[w] = {}
  BY DEF ResponseAt
<1> QED BY <1>1, <1>2, EmptyFacts

(* A worker whose queues and listeners a step leaves alone stays correct. *)
LEMMA SameResponses ==
  ASSUME NEW w \in Workers, ResponseAt(w),
         inbox'[w] = inbox[w], outbox'[w] = outbox[w], Listeners(w)' = Listeners(w)
  PROVE  ResponseAt(w)'
  BY DEF ResponseAt

LEMMA PostResponse ==
  ASSUME PoolInv, OneResponsePerParse, NEW c \in Calls, RunOnWorker(c)
  PROVE  OneResponsePerParse'
<1> USE DEF RunOnWorker
<1> SUFFICES ASSUME NEW w \in Workers PROVE ResponseAt(w)'
  BY DEF OneResponsePerParse, ResponseAt, Workers
<1>0. ResponseAt(w) /\ TypeOK
  BY DEF OneResponsePerParse, ResponseAt, PoolInv
<1>1. CASE PostFails(c) \/ (Post(c) /\ holds[c] # w)
  <2>1. inbox'[w] = inbox[w] /\ outbox'[w] = outbox[w]
    BY <1>0, <1>1 DEF Post, PostFails, TypeOK
  <2>2. Listeners(w)' = Listeners(w)
    BY <1>0, <1>1, PoolAssumption DEF Post, PostFails, Listeners, TypeOK, Workers, NoWorker
  <2> QED BY <1>0, <2>1, <2>2, SameResponses
<1>2. CASE Post(c) /\ holds[c] = w
  <2>1. Listeners(w) = {}
    BY <1>2 DEF Post, Listeners, PoolInv, OneParsePerWorker
  <2>2. inbox[w] = <<>> /\ outbox[w] = <<>>
    BY <1>0, <2>1, SilentWorker
  <2>3. Listeners(w)' = {c}
    BY <1>0, <1>2, <2>1 DEF Post, Listeners, TypeOK
  <2>4. outbox'[w] = <<>>
    BY <2>2
  <2>5. inbox'[w] \in {<<>>, <<c>>}
    BY <1>0, <1>2, <2>2 DEF Post, TypeOK
  <2>6. Len(inbox'[w]) + Len(outbox'[w]) <= 1
    <3>1. Len(outbox'[w]) = 0
      BY <2>4
    <3>2. Len(inbox'[w]) \in {0, 1}
      BY <2>5
    <3>3. \A a \in {0, 1} : \A b \in {0} : a + b <= 1
      OBVIOUS
    <3> QED BY <3>1, <3>2, <3>3, Zenon
  <2>7. \A i \in DOMAIN inbox'[w] : Listeners(w)' = {inbox'[w][i]}
    BY <2>3, <2>5
  <2>8. \A i \in DOMAIN outbox'[w] : Listeners(w)' = {outbox'[w][i].call}
    BY <2>4
  <2> QED BY <2>6, <2>7, <2>8 DEF ResponseAt
<1> QED BY <1>1, <1>2

LEMMA HandleResponse ==
  ASSUME PoolInv, OneResponsePerParse, NEW w \in Workers, Handle(w) \/ Crash(w)
  PROVE  OneResponsePerParse'
<1> USE DEF Handle, Crash, mainVars
<1> SUFFICES ASSUME NEW v \in Workers PROVE ResponseAt(v)'
  BY DEF OneResponsePerParse, ResponseAt, Workers
<1>0. ResponseAt(v) /\ ResponseAt(w) /\ TypeOK /\ Listeners(v)' = Listeners(v)
  <2>1. ResponseAt(v) /\ ResponseAt(w)
    BY DEF OneResponsePerParse, ResponseAt
  <2>2. Listeners(v)' = Listeners(v)
    BY DEF Listeners
  <2> QED BY <2>1, <2>2 DEF PoolInv
<1>1. CASE v # w
  <2>1. inbox'[v] = inbox[v] /\ outbox'[v] = outbox[v]
    BY <1>0, <1>1 DEF TypeOK
  <2> QED BY <1>0, <2>1, SameResponses
<1>2. CASE v = w
  <2>1. /\ inbox[w] \in Seq(Calls) /\ inbox[w] # <<>> /\ outbox[w] \in Seq(Event)
    BY <1>0 DEF TypeOK
  <2>2. /\ Len(inbox[w]) \in Nat \ {0} /\ DOMAIN inbox[w] = 1 .. Len(inbox[w])
        /\ Len(Tail(inbox[w])) = Len(inbox[w]) - 1 /\ Head(inbox[w]) = inbox[w][1]
        /\ Tail(inbox[w]) \in Seq(Calls) /\ Len(outbox[w]) \in Nat
    BY <2>1, TailFacts, LenProperties
  <2>3. Len(inbox[w]) = 1 /\ Len(outbox[w]) = 0
    <3>1. Len(inbox[w]) + Len(outbox[w]) <= 1
      BY <1>0 DEF ResponseAt
    <3> QED BY <2>2, <3>1, OneAndNone
  <2>4. Tail(inbox[w]) = <<>> /\ outbox[w] = <<>>
    <3>1. Len(Tail(inbox[w])) = 0
      BY <2>2, <2>3
    <3>2. Tail(inbox[w]) = <<>>
      BY <2>2, <3>1, EmptyFacts
    <3>3. outbox[w] = <<>>
      BY <2>1, <2>3, EmptyFacts
    <3> QED BY <3>2, <3>3
  <2>5. Listeners(w) = {Head(inbox[w])}
    BY <1>0, <1>2, <2>2 DEF ResponseAt
  <2>6. inbox'[w] = <<>>
    BY <1>0, <2>4 DEF TypeOK
  <2>7. PICK kind : outbox'[w] = Append(outbox[w], [call |-> Head(inbox[w]), kind |-> kind])
    BY <1>0 DEF TypeOK
  <2>8. outbox'[w] = <<[call |-> Head(inbox[w]), kind |-> kind]>>
    BY <2>4, <2>7
  <2> QED BY <1>0, <1>2, <2>5, <2>6, <2>8 DEF ResponseAt
<1> QED BY <1>1, <1>2

LEMMA DeliverResponse ==
  ASSUME PoolInv, OneResponsePerParse, NEW w \in Workers, Deliver(w)
  PROVE  OneResponsePerParse'
<1> USE DEF Deliver
<1> SUFFICES ASSUME NEW v \in Workers PROVE ResponseAt(v)'
  BY DEF OneResponsePerParse, ResponseAt, Workers
<1>0. ResponseAt(v) /\ ResponseAt(w) /\ TypeOK
  BY DEF OneResponsePerParse, ResponseAt, PoolInv
<1>1. CASE v # w
  <2>1. inbox'[v] = inbox[v] /\ outbox'[v] = outbox[v]
    BY <1>0, <1>1 DEF TypeOK
  <2>2. Listeners(v)' = Listeners(v)
    BY <1>1 DEF Listeners
  <2> QED BY <1>0, <2>1, <2>2, SameResponses
<1>2. CASE v = w
  <2>1. outbox[w] \in Seq(Event) /\ outbox[w] # <<>> /\ inbox[w] \in Seq(Calls)
    BY <1>0 DEF TypeOK
  <2>2. /\ Len(outbox[w]) \in Nat \ {0} /\ Len(inbox[w]) \in Nat
        /\ Len(Tail(outbox[w])) = Len(outbox[w]) - 1 /\ Tail(outbox[w]) \in Seq(Event)
    BY <2>1, TailFacts, LenProperties
  <2>3. Len(outbox[w]) = 1 /\ Len(inbox[w]) = 0
    <3>1. Len(inbox[w]) + Len(outbox[w]) <= 1
      BY <1>0 DEF ResponseAt
    <3> QED BY <2>2, <3>1, OneAndNone
  <2>4. Tail(outbox[w]) = <<>> /\ inbox[w] = <<>>
    <3>1. Len(Tail(outbox[w])) = 0
      BY <2>2, <2>3
    <3>2. Tail(outbox[w]) = <<>>
      BY <2>2, <3>1, EmptyFacts
    <3>3. inbox[w] = <<>>
      BY <2>1, <2>3, EmptyFacts
    <3> QED BY <3>2, <3>3
  <2>5. inbox'[w] = <<>> /\ outbox'[w] = <<>>
    BY <1>0, <2>4 DEF TypeOK
  <2>6. /\ Len(inbox'[w]) + Len(outbox'[w]) <= 1
        /\ DOMAIN inbox'[w] = {} /\ DOMAIN outbox'[w] = {}
    BY <2>5
  <2> QED BY <1>2, <2>6 DEF ResponseAt
<1> QED BY <1>1, <1>2

LEMMA SettleResponse ==
  ASSUME PoolInv, OneResponsePerParse, NEW c \in Calls, Settle(c) \/ Parse(c)
  PROVE  OneResponsePerParse'
<1> USE DEF Settle, Parse, threadVars
<1>1. \A d \in Calls : (pc[d] = "running" <=> pc'[d] = "running")
  <2>1. CASE Parse(c)
    BY <2>1 DEF ParseRefused, AcquireIdle, AcquireWait, PoolInv, TypeOK
  <2>2. CASE Settle(c) /\ HandOver(c)
    <3>1. Head(waiters) \in Calls /\ pc[Head(waiters)] = "waiting"
      BY <2>2, TailFacts DEF HandOver, PoolInv, TypeOK, WaitersWait
    <3> QED BY <2>2, <3>1 DEF HandOver, Outcome, PoolInv, TypeOK
  <2>3. CASE Settle(c) /\ ~HandOver(c)
    BY <2>3 DEF Release, BackToIdle, ReleaseAfterTerminate, Outcome, PoolInv, TypeOK
  <2> QED BY <2>1, <2>2, <2>3
<1>2. \A d \in Calls : pc[d] = "running" => holds'[d] = holds[d]
  <2>1. CASE Parse(c)
    BY <2>1 DEF ParseRefused, AcquireIdle, AcquireWait, PoolInv, TypeOK
  <2>2. CASE Settle(c) /\ HandOver(c)
    <3>1. Head(waiters) \in Calls /\ pc[Head(waiters)] = "waiting"
      BY <2>2, TailFacts DEF HandOver, PoolInv, TypeOK, WaitersWait
    <3> QED BY <2>2, <3>1 DEF HandOver, PoolInv, TypeOK
  <2>3. CASE Settle(c) /\ ~HandOver(c)
    BY <2>3 DEF Release, BackToIdle, ReleaseAfterTerminate, PoolInv, TypeOK
  <2> QED BY <2>1, <2>2, <2>3
<1> SUFFICES ASSUME NEW w \in Workers PROVE ResponseAt(w)'
  BY DEF OneResponsePerParse, ResponseAt, Workers
<1>3. Listeners(w)' = Listeners(w)
  BY <1>1, <1>2 DEF Listeners
<1> QED BY <1>3, SameResponses DEF OneResponsePerParse, ResponseAt

LEMMA ShutdownResponse ==
  ASSUME PoolInv, OneResponsePerParse,
         Terminate \/ TerminateDone \/ (\E w \in Workers : Exit(w)) \/ UNCHANGED vars
  PROVE  OneResponsePerParse'
<1> SUFFICES ASSUME NEW v \in Workers PROVE ResponseAt(v)'
  BY DEF OneResponsePerParse, ResponseAt, Workers
<1>0. ResponseAt(v) /\ TypeOK
  BY DEF OneResponsePerParse, ResponseAt, PoolInv
<1>1. Listeners(v)' = Listeners(v)
  <2>1. CASE Terminate
    <3>1. \A c \in Waiting : pc[c] = "waiting"
      BY DEF Waiting, PoolInv, WaitersWait
    <3> QED BY <2>1, <3>1 DEF Terminate, Listeners
  <2>2. CASE TerminateDone \/ (\E w \in Workers : Exit(w)) \/ UNCHANGED vars
    BY <2>2 DEF TerminateDone, Exit, mainVars, vars, Listeners
  <2> QED BY <2>1, <2>2
<1>2. outbox' = outbox
  BY DEF Terminate, TerminateDone, Exit, threadVars, vars
<1>3. CASE inbox'[v] = inbox[v]
  BY <1>0, <1>1, <1>2, <1>3, SameResponses
<1>4. CASE inbox'[v] # inbox[v]
  <2>1. inbox'[v] = <<>>
    BY <1>0, <1>4 DEF Terminate, TerminateDone, Exit, threadVars, vars, TypeOK
  <2>2. Len(inbox[v]) \in Nat /\ Len(outbox[v]) \in Nat
    BY <1>0, LenProperties DEF TypeOK
  <2>3. Len(outbox[v]) <= 1
    <3>1. Len(inbox[v]) + Len(outbox[v]) <= 1
      BY <1>0 DEF ResponseAt
    <3>2. \A a, b \in Nat : a + b <= 1 => b <= 1
      OBVIOUS
    <3> QED BY <2>2, <3>1, <3>2, Zenon
  <2>4. Len(inbox'[v]) + Len(outbox'[v]) <= 1
    <3>1. Len(inbox'[v]) = 0 /\ Len(outbox'[v]) = Len(outbox[v])
      BY <2>1, <1>2
    <3>2. \A a \in {0} : \A b \in Nat : b <= 1 => a + b <= 1
      OBVIOUS
    <3>3. 0 + Len(outbox[v]) <= 1
      BY <2>2, <2>3, <3>2
    <3> QED BY <3>1, <3>3
  <2>5. DOMAIN inbox'[v] = {}
    BY <2>1
  <2> QED BY <1>0, <1>1, <1>2, <2>4, <2>5 DEF ResponseAt
<1> QED BY <1>3, <1>4

LEMMA ResponseStep == PoolInv /\ OneResponsePerParse /\ [Next]_vars => OneResponsePerParse'
<1> SUFFICES ASSUME PoolInv, OneResponsePerParse, [Next]_vars PROVE OneResponsePerParse'
  OBVIOUS
<1>1. ASSUME NEW c \in Calls, Parse(c) \/ RunOnWorker(c) \/ Settle(c) PROVE OneResponsePerParse'
  BY <1>1, PostResponse, SettleResponse
<1>2. ASSUME NEW w \in Workers, Handle(w) \/ Crash(w) \/ Deliver(w) PROVE OneResponsePerParse'
  BY <1>2, HandleResponse, DeliverResponse
<1>3. CASE Terminate \/ TerminateDone \/ (\E w \in Workers : Exit(w)) \/ UNCHANGED vars
  BY <1>3, ShutdownResponse
<1> QED BY <1>1, <1>2, <1>3 DEF Next

(* An answer reaches only the promise of the call that asked for it: at    *)
(* most one request or answer is under way per worker, and its caller is   *)
(* the only listener.                                                      *)
THEOREM AnswersReachTheirCaller == Spec => []OneResponsePerParse
<1>1. Init => OneResponsePerParse
  BY DEF Init, OneResponsePerParse
<1> QED BY <1>1, PoolInvariant, ResponseStep, PTL DEF Spec

(* What the run checks of the workers, in one. *)
THEOREM WorkersServe == Spec => []WorkersServeOneCall
<1>1. OneParsePerWorker /\ NoWorkerLost /\ OneResponsePerParse => WorkersServeOneCall
  BY DEF WorkersServeOneCall
<1> QED BY <1>1, OneParseAtATime, WorkersAreKept, AnswersReachTheirCaller, PTL

-----------------------------------------------------------------------------
(* The pool implements WorkerSlots: a step of a caller is the step of the  *)
(* same name there or leaves the slots alone, terminate() closes them.     *)
LEMMA ParseSlots ==
  ASSUME PoolInv, NEW c \in Calls, Parse(c)
  PROVE  Slots!Serve(c) \/ Slots!Enqueue(c) \/ Slots!TurnAway(c)
<1> USE DEF Parse, threadVars
<1>1. holds[c] = NoWorker /\ pc[c] = "new"
  BY DEF PoolInv, HoldsWhileServed
<1>2. Slots!Fresh(c)
  BY <1>1 DEF Slots!Fresh, Slots!Queued, Serving, Finished, Settled, PoolInv, WaitersWait
<1>a. CASE ParseRefused(c)
  <2>1. Serving' = Serving /\ Free' = Free
    BY <1>a DEF ParseRefused, Serving, Free, terminated
  <2>2. Finished' = Finished \cup {c}
    BY <1>a, <1>1 DEF ParseRefused, Finished, Settled, PoolInv, TypeOK
  <2>3. Slots!TurnAway(c)
    BY <1>a, <1>2, <2>1, <2>2 DEF ParseRefused, Slots!TurnAway, terminated
  <2> QED BY <2>3
<1>b. CASE AcquireIdle(c)
  <2>1. /\ Len(idle) \in Nat \ {0} /\ Len(idle') = Len(idle) - 1
        /\ idle[Len(idle)] \in Workers
    BY <1>b, PopFacts DEF AcquireIdle, PoolInv, TypeOK
  <2>2. idle[Len(idle)] # NoWorker
    BY <2>1, PoolAssumption DEF Workers, NoWorker
  <2>3. Free > 0 /\ Free' = Free - 1
    BY <1>b, <2>1 DEF AcquireIdle, Free, terminated
  <2>4. \A d \in Calls : holds'[d] = IF d = c THEN idle[Len(idle)] ELSE holds[d]
    BY <1>b DEF AcquireIdle, PoolInv, TypeOK
  <2>5. Serving' = Serving \cup {c}
    BY <2>2, <2>4 DEF Serving, NoWorker
  <2>6. \A d \in Calls : pc'[d] = IF d = c THEN "granted" ELSE pc[d]
    BY <1>b DEF AcquireIdle, PoolInv, TypeOK
  <2>7. Finished' = Finished
    BY <1>1, <2>2, <2>4, <2>6 DEF Finished, Settled, NoWorker
  <2>8. Slots!Serve(c)
    BY <1>b, <1>2, <2>3, <2>5, <2>7 DEF AcquireIdle, Slots!Serve, terminated
  <2> QED BY <2>8
<1>c. CASE AcquireWait(c)
  <2>1. Free = 0 /\ Free' = Free
    BY <1>c DEF AcquireWait, Free, terminated
  <2>2. Serving' = Serving
    BY <1>c DEF AcquireWait, Serving
  <2>3. \A d \in Calls : pc'[d] = IF d = c THEN "waiting" ELSE pc[d]
    BY <1>c DEF AcquireWait, PoolInv, TypeOK
  <2>4. Finished' = Finished
    BY <1>c, <1>1, <2>3 DEF AcquireWait, Finished, Settled
  <2>5. Slots!Enqueue(c)
    BY <1>c, <1>2, <2>1, <2>2, <2>4 DEF AcquireWait, Slots!Enqueue, terminated
  <2> QED BY <2>5
<1> QED BY <1>a, <1>b, <1>c

LEMMA SettleSlots ==
  ASSUME PoolInv, NEW c \in Calls, Settle(c)
  PROVE  Slots!PassOn(c) \/ Slots!Leave(c) \/ UNCHANGED Slots!vars
<1> USE DEF Settle, threadVars
<1>0. pc[c] \in {"answered", "failed"} /\ Outcome(c) \in {"resolved", "rejected"}
  BY DEF Outcome
<1>a. CASE HandOver(c)
  <2> DEFINE h == Head(waiters)
  <2>0. h \in Calls /\ pc[h] = "waiting" /\ h # c /\ holds[h] = NoWorker
    <3>1. h \in Calls /\ h = waiters[1] /\ 1 \in DOMAIN waiters
      BY <1>a, TailFacts DEF HandOver, PoolInv, TypeOK
    <3>2. pc[h] = "waiting"
      BY <3>1 DEF PoolInv, WaitersWait
    <3> QED BY <1>0, <3>1, <3>2 DEF PoolInv, HoldsWhileServed
  <2>1. holds[c] # NoWorker
    BY <1>a, <1>0 DEF HandOver, PoolInv, HoldsWhileServed
  <2>2. \A d \in Calls : holds'[d] = IF d = h THEN holds[c] ELSE IF d = c THEN NoWorker ELSE holds[d]
    BY <1>a, <2>0 DEF HandOver, PoolInv, TypeOK
  <2>3. \A d \in Calls : pc'[d] = IF d = h THEN "granted" ELSE IF d = c THEN Outcome(c) ELSE pc[d]
    BY <1>a, <2>0 DEF HandOver, PoolInv, TypeOK
  <2>4. c \in Serving /\ Serving' = (Serving \ {c}) \cup {h}
    BY <2>0, <2>1, <2>2 DEF Serving, NoWorker
  <2>5. Finished' = Finished \cup {c}
    BY <1>0, <2>0, <2>1, <2>2, <2>3 DEF Finished, Settled, NoWorker
  <2>6. Free' = Free /\ terminated' = terminated
    BY <1>a DEF HandOver, Free, terminated
  <2>7. Slots!PassOn(c)
    BY <1>a, <2>4, <2>5, <2>6 DEF HandOver, Slots!PassOn
  <2> QED BY <2>7
<1>b. CASE BackToIdle(c) \/ (ReleaseAfterTerminate(c) /\ holds[c] # NoWorker)
  <2>0. holds[c] \in Workers /\ holds[c] # NoWorker
    BY <1>b, <1>0 DEF BackToIdle, PoolInv, HoldsWhileServed, TypeOK
  <2>1. \A d \in Calls : holds'[d] = IF d = c THEN NoWorker ELSE holds[d]
    BY <1>b DEF BackToIdle, ReleaseAfterTerminate, PoolInv, TypeOK
  <2>2. \A d \in Calls : pc'[d] = IF d = c THEN Outcome(c) ELSE pc[d]
    BY <1>b DEF BackToIdle, ReleaseAfterTerminate, PoolInv, TypeOK
  <2>3. c \in Serving /\ Serving' = Serving \ {c}
    BY <2>0, <2>1 DEF Serving, NoWorker
  <2>4. Finished' = Finished \cup {c}
    BY <1>0, <2>0, <2>1, <2>2 DEF Finished, Settled, NoWorker
  <2>5. terminated' = terminated /\ waiters' = waiters /\ waiters = <<>>
    BY <1>b DEF BackToIdle, ReleaseAfterTerminate, terminated, PoolInv, QueueOnlyWhenBusy
  <2>6. Free' = IF terminated THEN Free ELSE Free + 1
    <3>1. CASE BackToIdle(c)
      <4>1. Len(idle') = Len(idle) + 1
        BY <2>0, <3>1, AppendFacts DEF BackToIdle, PoolInv, TypeOK
      <4>2. ~terminated /\ ~terminated'
        BY <2>5, <3>1 DEF BackToIdle
      <4> QED BY <4>1, <4>2 DEF Free
    <3>2. CASE ReleaseAfterTerminate(c)
      BY <3>2, <2>5 DEF ReleaseAfterTerminate, Free
    <3> QED BY <1>b, <3>1, <3>2
  <2>7. Slots!Leave(c)
    BY <2>3, <2>4, <2>5, <2>6 DEF Slots!Leave
  <2> QED BY <2>7
<1>c. CASE ReleaseAfterTerminate(c) /\ holds[c] = NoWorker
  <2>1. holds' = holds
    BY <1>c DEF ReleaseAfterTerminate, PoolInv, TypeOK
  <2>2. \A d \in Calls : pc'[d] = IF d = c THEN Outcome(c) ELSE pc[d]
    BY <1>c DEF ReleaseAfterTerminate, PoolInv, TypeOK
  <2>3. pc[c] = "failed"
    BY <1>0, <1>c DEF PoolInv, HoldsWhileServed
  <2>4. Serving' = Serving /\ Finished' = Finished
    BY <1>0, <1>c, <2>1, <2>2, <2>3 DEF Serving, Finished, Settled
  <2>5. Free' = Free /\ waiters' = waiters /\ terminated' = terminated
    BY <1>c DEF ReleaseAfterTerminate, Free, terminated
  <2> QED BY <2>4, <2>5 DEF Slots!vars
<1> QED BY <1>a, <1>b, <1>c DEF Release

LEMMA TerminateSlots ==
  ASSUME PoolInv, Terminate
  PROVE  Slots!Close
<1> USE DEF Terminate, threadVars
<1>1. ~terminated /\ terminated' /\ Free' = 0 /\ waiters' = <<>> /\ Serving' = Serving
  BY DEF terminated, Free, Serving
<1>2. \A c \in Calls : pc'[c] = IF c \in Waiting THEN "granted" ELSE pc[c]
  OBVIOUS
<1>3. \A c \in Waiting : c \in Calls /\ pc[c] = "waiting" /\ holds[c] = NoWorker
  <2>1. \A i \in DOMAIN waiters : waiters[i] \in Calls
    BY LenProperties, ElementOfSeq DEF PoolInv, TypeOK
  <2> QED BY <2>1 DEF Waiting, PoolInv, WaitersWait, HoldsWhileServed
<1>4. Finished' = Finished \cup Waiting
  BY <1>2, <1>3 DEF Finished, Settled
<1> QED BY <1>1, <1>4 DEF Slots!Close, Slots!Queued, Waiting

LEMMA OtherSlots ==
  ASSUME PoolInv,
         \/ \E c \in Calls : RunOnWorker(c)
         \/ \E w \in Workers : Handle(w) \/ Crash(w) \/ Deliver(w) \/ Exit(w)
         \/ TerminateDone
         \/ UNCHANGED vars
  PROVE  UNCHANGED Slots!vars
<1>1. holds' = holds /\ waiters' = waiters /\ terminated' = terminated
  BY DEF RunOnWorker, Handle, Crash, Deliver, Exit, TerminateDone, vars, mainVars, threadVars, terminated
<1>2. Free' = Free
  BY DEF RunOnWorker, Handle, Crash, Deliver, Exit, TerminateDone, vars, mainVars, threadVars,
         terminated, Free
<1>3. \A c \in Calls : \/ pc'[c] = pc[c]
                       \/ pc[c] = "granted" /\ holds[c] = NoWorker /\ pc'[c] = "failed"
                       \/ pc[c] \in {"granted", "running"} /\ holds[c] # NoWorker
                          /\ pc'[c] \in {"running", "answered", "failed"}
  <2>1. ASSUME NEW c \in Calls, RunOnWorker(c)
        PROVE  \A d \in Calls : \/ pc'[d] = pc[d]
                                \/ d = c /\ pc'[d] \in {"running", "failed"}
                                   /\ (pc'[d] = "failed" <=> holds[d] = NoWorker)
    BY <2>1 DEF RunOnWorker, Post, PostFails, PoolInv, TypeOK
  <2>2. ASSUME NEW w \in Workers, Deliver(w)
        PROVE  \A d \in Calls : \/ pc'[d] = pc[d]
                                \/ pc[d] = "running" /\ pc'[d] \in {"answered", "failed"}
    BY <2>2 DEF Deliver, Listeners
  <2>3. CASE \E c \in Calls : RunOnWorker(c)
    BY <2>1, <2>3 DEF RunOnWorker
  <2>4. CASE \E w \in Workers : Deliver(w)
    BY <2>2, <2>4 DEF PoolInv, HoldsWhileServed
  <2>5. CASE ~(\E c \in Calls : RunOnWorker(c)) /\ ~(\E w \in Workers : Deliver(w))
    BY <2>5 DEF Handle, Crash, Exit, TerminateDone, vars, mainVars, threadVars
  <2> QED BY <2>3, <2>4, <2>5
<1>4. Serving' = Serving
  BY <1>1 DEF Serving
<1>5. Finished' = Finished
  BY <1>1, <1>3 DEF Finished, Settled
<1> QED BY <1>1, <1>2, <1>4, <1>5 DEF Slots!vars

LEMMA StepSlots == PoolInv /\ [Next]_vars => [Slots!Next]_(Slots!vars)
<1> SUFFICES ASSUME PoolInv, [Next]_vars PROVE Slots!Next \/ UNCHANGED Slots!vars
  OBVIOUS
<1>1. ASSUME NEW c \in Calls, Parse(c) PROVE Slots!Next
  BY <1>1, ParseSlots DEF Slots!Next
<1>2. ASSUME NEW c \in Calls, Settle(c) PROVE Slots!Next \/ UNCHANGED Slots!vars
  BY <1>2, SettleSlots DEF Slots!Next
<1>3. CASE Terminate
  BY <1>3, TerminateSlots DEF Slots!Next
<1>4. CASE \/ \E c \in Calls : RunOnWorker(c)
           \/ \E w \in Workers : Handle(w) \/ Crash(w) \/ Deliver(w) \/ Exit(w)
           \/ TerminateDone
           \/ UNCHANGED vars
  BY <1>4, OtherSlots
<1> QED BY <1>1, <1>2, <1>3, <1>4 DEF Next

LEMMA InitSlots == Init => Slots!Init
<1> SUFFICES ASSUME Init PROVE Slots!Init
  OBVIOUS
<1>1. Len(idle) = Size
  BY PoolAssumption DEF Init, Workers
<1> QED BY <1>1 DEF Init, Slots!Init, Free, Serving, Finished, Settled, terminated

(* The pool is a first-come-first-served set of slots with direct          *)
(* hand-over, for every number of workers and callers.                     *)
THEOREM PoolImplementsSlots == Spec => ImplementsSlots
  BY InitSlots, PoolInvariant, StepSlots, PTL DEF Spec, ImplementsSlots, Slots!Spec

=============================================================================
