-------------------------- MODULE Sessions_proofs --------------------------
(***************************************************************************)
(* Proofs about four parts of MCParts that ask and are answered, in        *)
(* whatever order the answers come: the remote chain panel, the IR viewer, *)
(* the view of the project graph with its page, and the requests of the    *)
(* call hierarchy.                                                         *)
(*                                                                         *)
(* An answer of the call hierarchy is right because of what its request    *)
(* knows while it waits: the files it needs are indexed or on the list it  *)
(* still has, whoever indexes them.  The index itself is followed call by  *)
(* call: each list has the calls of its name, or caller, of the indexed    *)
(* files, each once, and a file is noted under all it must be removed of.  *)
(***************************************************************************)
EXTENDS MCParts, Induction, TLAPS, FiniteSetTheorems, SequenceTheorems, WellFoundedInduction
-----------------------------------------------------------------------------
(* The remote chain's panel.  A call is made of what the page holds when   *)
(* its button is pressed, so the invariant says of the page that its       *)
(* button is only enabled with a valid address, an RPC URL and a selected  *)
(* function, and that a function that is shown and selected reads.  (A     *)
(* page whose last ABI was empty keeps its selection: it is not shown.)    *)
ChainFns == [sig : STRING, read : BOOLEAN]
ChainCalls == [sig : ChainFns, address : Addresses, rpcUrl : STRING, answers : Seq(Replies)]
ChainCards == [sig : ChainFns, shown : Seq(Replies)]
ChainPages ==
  [ready : BOOLEAN, chain : DOMAIN Chains \cup {NoFile}, address : Addresses \cup {NoFile}, abi : Seq(ChainFns),
   selected : Nat, shown : BOOLEAN, enabled : BOOLEAN, calling : BOOLEAN, feed : SUBSET ChainCards]

FormFits(p) ==
  /\ p \in ChainPages
  /\ ~p.ready => p.chain = NoFile
  /\ p.shown /\ p.selected # 0 => p.selected \in Chain!ReadsOf(p.abi)
  /\ p.enabled => p.address \in Valid /\ Chain!RpcUrl(p) # "" /\ p.selected # 0
CallFits(c) == c \in ChainCalls /\ c.sig.read /\ c.address \in Valid /\ c.rpcUrl # ""
CardFits(card, calls) == \E c \in calls : c.sig = card.sig /\ card.shown \in {c.answers, <<>>}
SessionFits ==
  /\ kept \in [chain : DOMAIN Chains \cup {NoFile}, address : Addresses \cup {NoFile}, abi : BOOLEAN]
  /\ kept.address # NoFile => \E c \in ran : c.address = kept.address /\ Len(c.answers) = 2
ChainInv ==
  /\ form # NoFile => FormFits(form) /\ (form.calling => command # NoFile) /\ \A card \in form.feed : CardFits(card, ran)
  /\ command # NoFile => CallFits(command)
  /\ \A c \in ran : CallFits(c)
  /\ SessionFits
  /\ reading \subseteq DOMAIN Abis

(* The button is enabled again from what the page holds.                   *)
LEMMA RunButtonFits ==
  ASSUME NEW p \in ChainPages, ~p.ready => p.chain = NoFile,
         p.shown /\ p.selected # 0 => p.selected \in Chain!ReadsOf(p.abi)
  PROVE  /\ FormFits(Chain!UpdateRunButton(p))
         /\ Chain!UpdateRunButton(p).feed = p.feed
         /\ Chain!UpdateRunButton(p).calling = p.calling
<1> DEFINE b == p.address \in Valid /\ Chain!RpcUrl(p) # "" /\ p.selected # 0
           q == [p EXCEPT !.enabled = b]
<1>1. Chain!UpdateRunButton(p) = q
  BY DEF Chain!UpdateRunButton
<1>2. /\ q.ready = p.ready /\ q.chain = p.chain /\ q.address = p.address /\ q.abi = p.abi
      /\ q.selected = p.selected /\ q.shown = p.shown /\ (q.enabled <=> b) /\ q.calling = p.calling
      /\ q.feed = p.feed /\ q \in ChainPages
  BY DEF ChainPages
<1> HIDE DEF q
<1>3. Chain!RpcUrl(q) = Chain!RpcUrl(p) /\ Chain!ReadsOf(q.abi) = Chain!ReadsOf(p.abi)
  BY <1>2 DEF Chain!RpcUrl, Chain!ReadsOf
<1>4. FormFits(q)
  BY <1>2, <1>3 DEF FormFits
<1> QED
  BY <1>1, <1>2, <1>4

(* The placeholder of the function picker, and a function in it.           *)
LEMMA PickerFits ==
  ASSUME NEW p \in ChainPages, NEW i \in Nat, ~p.ready => p.chain = NoFile
  PROVE  /\ FormFits(Chain!OnFunctionChange(p, i))
         /\ Chain!OnFunctionChange(p, i).feed = p.feed
         /\ Chain!OnFunctionChange(p, i).calling = p.calling
<1> DEFINE s == IF i \in Chain!ReadsOf(p.abi) THEN i ELSE 0
           q == [p EXCEPT !.selected = s]
<1>1. /\ q.ready = p.ready /\ q.chain = p.chain /\ q.abi = p.abi /\ q.selected = s /\ q.shown = p.shown
      /\ q.calling = p.calling /\ q.feed = p.feed /\ q \in ChainPages
  BY DEF ChainPages
<1>2. Chain!OnFunctionChange(p, i) = Chain!UpdateRunButton(q)
  BY DEF Chain!OnFunctionChange
<1>3. s # 0 => s \in Chain!ReadsOf(p.abi)
  OBVIOUS
<1> HIDE DEF q, s
<1> QED
  BY <1>1, <1>2, <1>3, RunButtonFits

LEMMA LoadedFits ==
  ASSUME NEW p \in ChainPages, NEW abi \in Seq(ChainFns), ~p.ready => p.chain = NoFile, FormFits(p)
  PROVE  LET q == Chain!RenderFunctionPicker([p EXCEPT !.abi = abi])
         IN  FormFits(q) /\ q.feed = p.feed /\ q.calling = p.calling
<1> DEFINE r == [p EXCEPT !.abi = abi]
           q == Chain!RenderFunctionPicker(r)
<1>1. /\ r \in ChainPages /\ r.ready = p.ready /\ r.chain = p.chain /\ r.abi = abi /\ r.selected = p.selected
      /\ r.address = p.address /\ r.enabled = p.enabled /\ r.feed = p.feed /\ r.calling = p.calling
  BY DEF ChainPages
<1> HIDE DEF r
<1>2. ASSUME abi = <<>> PROVE FormFits(q) /\ q.feed = p.feed /\ q.calling = p.calling
  <2> DEFINE h == [r EXCEPT !.shown = FALSE]
  <2>1. q = h
    BY <1>1, <1>2 DEF Chain!RenderFunctionPicker
  <2>2. /\ h \in ChainPages /\ h.ready = p.ready /\ h.chain = p.chain /\ h.selected = p.selected /\ ~h.shown
        /\ h.address = p.address /\ h.enabled = p.enabled /\ h.feed = p.feed /\ h.calling = p.calling
    BY <1>1 DEF ChainPages
  <2> HIDE DEF h, q
  <2>3. Chain!RpcUrl(h) = Chain!RpcUrl(p)
    BY <2>2 DEF Chain!RpcUrl
  <2>4. FormFits(h)
    BY <2>2, <2>3 DEF FormFits
  <2> QED
    BY <2>1, <2>2, <2>4
<1>3. ASSUME abi # <<>> PROVE FormFits(q) /\ q.feed = p.feed /\ q.calling = p.calling
  <2> DEFINE h == [r EXCEPT !.shown = TRUE]
  <2>1. q = Chain!OnFunctionChange(h, 0)
    BY <1>1, <1>3 DEF Chain!RenderFunctionPicker
  <2>2. h \in ChainPages /\ h.ready = p.ready /\ h.chain = p.chain /\ h.feed = p.feed /\ h.calling = p.calling
    BY <1>1 DEF ChainPages
  <2> HIDE DEF h, q
  <2> QED
    BY <2>1, <2>2, PickerFits
<1> QED
  BY <1>2, <1>3 DEF r

(* What a step that runs no cast has to keep.                              *)
LEMMA PageMoves ==
  ASSUME ChainInv, ran' = ran, command' = command, SessionFits', reading' \subseteq DOMAIN Abis,
         form' # NoFile => /\ FormFits(form') /\ (form'.calling => command # NoFile)
                           /\ \A card \in form'.feed : CardFits(card, ran)
  PROVE  ChainInv'
BY DEF ChainInv, CardFits, FormFits, Chain!RpcUrl, Chain!ReadsOf, CallFits

LEMMA SessionKept == ASSUME SessionFits, UNCHANGED <<kept, ran>> PROVE SessionFits'
BY DEF SessionFits

LEMMA ChainInit == part = "chain" /\ PartsInit => ChainInv
<1> SUFFICES ASSUME part = "chain", PartsInit PROVE ChainInv
  OBVIOUS
<1>1. Chain!ChainInit
  BY DEF PartsInit
<1>2. kept \in [chain : DOMAIN Chains \cup {NoFile}, address : Addresses \cup {NoFile}, abi : BOOLEAN] /\ kept.address = NoFile
  BY <1>1 DEF Chain!ChainInit
<1> QED
  BY <1>1, <1>2 DEF Chain!ChainInit, ChainInv, SessionFits

LEMMA ChainNext == ChainInv /\ [Chain!ChainNext]_(Chain!chainVars) => ChainInv'
<1> SUFFICES ASSUME ChainInv, [Chain!ChainNext]_(Chain!chainVars) PROVE ChainInv'
  OBVIOUS
<1>s. /\ SessionFits /\ reading \subseteq DOMAIN Abis
      /\ form # NoFile => FormFits(form) /\ form \in ChainPages /\ (form.calling => command # NoFile)
                           /\ \A card \in form.feed : CardFits(card, ran)
  BY DEF ChainInv, FormFits
<1>u. NoFile \notin DOMAIN Chains
  BY ChainAssumption
<1>1. CASE Chain!ShowPanel
  <2>1. /\ form' = Chain!NewPage /\ UNCHANGED <<command, kept, reading, ran>>
    BY <1>1 DEF Chain!ShowPanel
  <2>2. /\ Chain!NewPage \in ChainPages /\ ~Chain!NewPage.ready /\ Chain!NewPage.chain = NoFile
        /\ Chain!NewPage.selected = 0 /\ ~Chain!NewPage.shown /\ ~Chain!NewPage.enabled /\ ~Chain!NewPage.calling
        /\ Chain!NewPage.feed = {}
    BY DEF Chain!NewPage, ChainPages
  <2>3. FormFits(Chain!NewPage)
    BY <2>2 DEF FormFits
  <2> QED
    BY <2>1, <2>2, <2>3, <1>s, SessionKept, PageMoves
<1>2. CASE Chain!Close
  <2>1. form' = NoFile /\ UNCHANGED <<command, kept, reading, ran>>
    BY <1>2 DEF Chain!Close
  <2> QED
    BY <2>1, <1>s, SessionKept, PageMoves
<1>3. CASE Chain!PostInit
  <2>1. form # NoFile /\ UNCHANGED <<command, kept, reading, ran>>
    BY <1>3 DEF Chain!PostInit
  <2>2. PICK first \in DOMAIN Chains :
           LET restored == [form EXCEPT !.ready = TRUE, !.chain = IF kept.chain # NoFile THEN kept.chain ELSE first]
           IN  form' = IF kept.address = NoFile THEN restored
                       ELSE Chain!UpdateRunButton([restored EXCEPT !.address = kept.address])
    BY <1>3 DEF Chain!PostInit
  <2> DEFINE chosen == IF kept.chain # NoFile THEN kept.chain ELSE first
             restored == [form EXCEPT !.ready = TRUE, !.chain = chosen]
             typed == [restored EXCEPT !.address = kept.address]
  <2>3. chosen \in DOMAIN Chains /\ kept.address \in Addresses \cup {NoFile}
    BY <1>s DEF SessionFits
  <2> HIDE DEF chosen
  <2>4. /\ restored \in ChainPages /\ restored.ready /\ restored.chain = chosen /\ restored.address = form.address
        /\ restored.abi = form.abi /\ restored.selected = form.selected /\ restored.shown = form.shown
        /\ restored.enabled = form.enabled /\ restored.calling = form.calling /\ restored.feed = form.feed
    BY <2>1, <2>3, <1>s DEF ChainPages
  <2>5. form.enabled => Chain!RpcUrl(form) # "" /\ form.address \in Valid /\ form.selected # 0
    BY <2>1, <1>s DEF FormFits
  <2>6. ~form.enabled
    <3>1. form.chain = NoFile
      BY <2>1, <1>s, <1>3 DEF FormFits, Chain!PostInit
    <3> QED
      BY <3>1, <2>5, <1>u DEF Chain!RpcUrl
  <2> HIDE DEF restored
  <2>7. form.shown /\ form.selected # 0 => form.selected \in Chain!ReadsOf(form.abi)
    BY <2>1, <1>s DEF FormFits
  <2>8. FormFits(restored)
    BY <2>4, <2>6, <2>7 DEF FormFits, Chain!ReadsOf
  <2>9. /\ typed \in ChainPages /\ typed.ready /\ typed.abi = form.abi /\ typed.selected = form.selected
        /\ typed.shown = form.shown /\ typed.calling = form.calling /\ typed.feed = form.feed
    BY <2>3, <2>4 DEF ChainPages
  <2> HIDE DEF typed
  <2>10. FormFits(Chain!UpdateRunButton(typed)) /\ Chain!UpdateRunButton(typed).feed = form.feed
         /\ Chain!UpdateRunButton(typed).calling = form.calling
    BY <2>7, <2>9, RunButtonFits DEF Chain!ReadsOf
  <2>11. form' = restored \/ form' = Chain!UpdateRunButton(typed)
    BY <2>2 DEF typed, restored, chosen
  <2>12. FormFits(form') /\ form'.feed = form.feed /\ form'.calling = form.calling
    BY <2>4, <2>8, <2>10, <2>11
  <2> QED
    BY <2>1, <2>12, <1>s, SessionKept, PageMoves
<1>4. CASE Chain!SelectChain
  <2>1. form # NoFile /\ form.ready /\ UNCHANGED <<command, reading, ran>>
    BY <1>4 DEF Chain!SelectChain
  <2>2. PICK chain \in DOMAIN Chains : /\ form' = Chain!UpdateRunButton([form EXCEPT !.chain = chain])
                                       /\ kept' = [kept EXCEPT !.chain = chain]
    BY <1>4 DEF Chain!SelectChain
  <2> DEFINE q == [form EXCEPT !.chain = chain]
  <2>3. /\ q \in ChainPages /\ q.ready /\ q.abi = form.abi /\ q.selected = form.selected
        /\ q.shown = form.shown /\ q.calling = form.calling /\ q.feed = form.feed
    BY <2>1, <1>s DEF ChainPages
  <2>4. form' = Chain!UpdateRunButton(q)
    BY <2>2
  <2> HIDE DEF q
  <2>5. form.shown /\ form.selected # 0 => form.selected \in Chain!ReadsOf(form.abi)
    BY <2>1, <1>s DEF FormFits
  <2>6. FormFits(form') /\ form'.feed = form.feed /\ form'.calling = form.calling
    BY <2>3, <2>4, <2>5, RunButtonFits DEF Chain!ReadsOf
  <2>7. SessionFits'
    <3>1. kept'.address = kept.address
      BY <2>2, <1>s DEF SessionFits
    <3>2. kept' \in [chain : DOMAIN Chains \cup {NoFile}, address : Addresses \cup {NoFile}, abi : BOOLEAN]
      BY <2>2, <1>s DEF SessionFits
    <3> QED
      BY <3>1, <3>2, <2>1, <1>s DEF SessionFits
  <2> QED
    BY <2>1, <2>6, <2>7, <1>s, PageMoves
<1>5. CASE Chain!TypeAddress
  <2>1. form # NoFile /\ UNCHANGED <<command, kept, reading, ran>>
    BY <1>5 DEF Chain!TypeAddress
  <2>2. PICK a \in Addresses : form' = Chain!UpdateRunButton([form EXCEPT !.address = a])
    BY <1>5 DEF Chain!TypeAddress
  <2> DEFINE q == [form EXCEPT !.address = a]
  <2>3. /\ q \in ChainPages /\ q.ready = form.ready /\ q.chain = form.chain /\ q.abi = form.abi
        /\ q.selected = form.selected /\ q.shown = form.shown /\ q.calling = form.calling /\ q.feed = form.feed
    BY <2>1, <1>s DEF ChainPages
  <2>4. form' = Chain!UpdateRunButton(q)
    BY <2>2
  <2> HIDE DEF q
  <2>5. /\ form.shown /\ form.selected # 0 => form.selected \in Chain!ReadsOf(form.abi)
        /\ ~form.ready => form.chain = NoFile
    BY <2>1, <1>s DEF FormFits
  <2>6. FormFits(form') /\ form'.feed = form.feed /\ form'.calling = form.calling
    BY <2>3, <2>4, <2>5, RunButtonFits DEF Chain!ReadsOf
  <2> QED
    BY <2>1, <2>6, <1>s, SessionKept, PageMoves
<1>6. CASE Chain!SelectFunction
  <2>1. form # NoFile /\ UNCHANGED <<command, kept, reading, ran>>
    BY <1>6 DEF Chain!SelectFunction
  <2>2. PICK i \in Chain!ReadsOf(form.abi) : form' = Chain!OnFunctionChange(form, i)
    BY <1>6 DEF Chain!SelectFunction
  <2>3. i \in Nat /\ form \in ChainPages /\ (~form.ready => form.chain = NoFile)
    <3>1. form.abi \in Seq(ChainFns)
      BY <2>1, <1>s DEF ChainPages
    <3>2. DOMAIN form.abi \subseteq Nat
      BY <3>1, LenProperties
    <3> QED
      BY <3>2, <2>1, <2>2, <1>s DEF FormFits, Chain!ReadsOf
  <2>4. FormFits(form') /\ form'.feed = form.feed /\ form'.calling = form.calling
    BY <2>2, <2>3, PickerFits
  <2> QED
    BY <2>1, <2>4, <1>s, SessionKept, PageMoves
<1>7. CASE Chain!PickArtifact
  <2>1. UNCHANGED <<form, command, kept, ran>> /\ reading' \subseteq DOMAIN Abis
    BY <1>7, <1>s DEF Chain!PickArtifact
  <2> QED
    BY <2>1, <1>s, SessionKept, PageMoves
<1>8. CASE Chain!LoadAbiFromArtifact
  <2>1. UNCHANGED <<command, ran>>
    BY <1>8 DEF Chain!LoadAbiFromArtifact
  <2>2. PICK a \in reading : /\ reading' = reading \ {a}
                             /\ IF form = NoFile \/ Abis[a] = NoFile THEN UNCHANGED <<form, kept>> ELSE Chain!LoadAbi(a)
    BY <1>8 DEF Chain!LoadAbiFromArtifact
  <2>3. reading' \subseteq DOMAIN Abis /\ a \in DOMAIN Abis
    BY <2>2, <1>s
  <2>4. CASE form = NoFile \/ Abis[a] = NoFile
    <3>1. UNCHANGED <<form, kept>>
      BY <2>2, <2>4
    <3> QED
      BY <3>1, <2>1, <2>3, <1>s, SessionKept, PageMoves
  <2>5. CASE form # NoFile /\ Abis[a] # NoFile
    <3>1. Abis[a] \in Seq(ChainFns)
      BY <2>3, <2>5, ChainAssumption DEF ChainFns
    <3>2. /\ form' = Chain!RenderFunctionPicker([form EXCEPT !.abi = Abis[a]])
          /\ kept' = [kept EXCEPT !.abi = TRUE]
      BY <2>2, <2>5 DEF Chain!LoadAbi
    <3>3. ~form.ready => form.chain = NoFile
      BY <2>5, <1>s DEF FormFits
    <3>4. FormFits(form') /\ form'.feed = form.feed /\ form'.calling = form.calling
      BY <3>1, <3>2, <3>3, <2>5, <1>s, LoadedFits
    <3>5. SessionFits'
      <4>1. kept'.address = kept.address
        BY <3>2, <1>s DEF SessionFits
      <4>2. kept' \in [chain : DOMAIN Chains \cup {NoFile}, address : Addresses \cup {NoFile}, abi : BOOLEAN]
        BY <3>2, <1>s DEF SessionFits
      <4> QED
        BY <4>1, <4>2, <2>1, <1>s DEF SessionFits
    <3> QED
      BY <3>4, <3>5, <2>1, <2>3, <2>5, <1>s, PageMoves
  <2> QED
    BY <2>4, <2>5
<1>9. CASE Chain!Call
  <2>1. form # NoFile /\ form.shown /\ form.enabled /\ UNCHANGED <<kept, reading, ran>>
    BY <1>9 DEF Chain!Call
  <2> DEFINE fn == form.abi[form.selected]
             call == [sig |-> fn, address |-> form.address, rpcUrl |-> Chain!RpcUrl(form), answers |-> <<>>]
  <2>2. command' = IF command = NoFile THEN call ELSE command
    BY <1>9 DEF Chain!Call
  <2>3. form' = [form EXCEPT !.calling = TRUE, !.enabled = FALSE]
    BY <1>9 DEF Chain!Call
  <2>4. /\ form.address \in Valid /\ Chain!RpcUrl(form) # "" /\ form.selected # 0
        /\ form.selected \in Chain!ReadsOf(form.abi) /\ (~form.ready => form.chain = NoFile)
    BY <2>1, <1>s DEF FormFits
  <2>5. fn \in ChainFns /\ fn.read
    <3>1. form.abi \in Seq(ChainFns)
      BY <2>1, <1>s DEF ChainPages
    <3> QED
      BY <3>1, <2>4, LenProperties DEF Chain!ReadsOf
  <2>6. Chain!RpcUrl(form) \in STRING
    <3>1. CASE form.chain \in DOMAIN Chains
      BY <3>1, ChainAssumption DEF Chain!RpcUrl
    <3>2. CASE form.chain \notin DOMAIN Chains
      BY <3>2, <2>4 DEF Chain!RpcUrl
    <3> QED
      BY <3>1, <3>2
  <2>7. form.address \in Addresses
    <3>1. form.address \in Addresses \cup {NoFile}
      BY <2>1, <1>s DEF ChainPages
    <3> QED
      BY <3>1, <2>4, ChainAssumption
  <2> HIDE DEF fn
  <2>8. call \in ChainCalls /\ call.sig.read /\ call.address \in Valid /\ call.rpcUrl # ""
    <3>1. <<>> \in Seq(Replies)
      OBVIOUS
    <3>2. call.sig = fn /\ call.address = form.address /\ call.rpcUrl = Chain!RpcUrl(form)
      OBVIOUS
    <3>3. call \in ChainCalls
      BY <3>1, <2>5, <2>6, <2>7 DEF ChainCalls
    <3> QED
      BY <3>2, <3>3, <2>4, <2>5
  <2> HIDE DEF call
  <2>9. call # NoFile
    BY <2>8, ChainAssumption DEF ChainCalls, ChainFns
  <2>10. command' # NoFile /\ CallFits(command')
    BY <2>2, <2>8, <2>9 DEF ChainInv, CallFits
  <2>11. /\ form' \in ChainPages /\ form'.ready = form.ready /\ form'.chain = form.chain /\ form'.abi = form.abi
         /\ form'.selected = form.selected /\ ~form'.enabled /\ form'.feed = form.feed
    BY <2>1, <2>3, <1>s DEF ChainPages
  <2>12. FormFits(form')
    BY <2>4, <2>11 DEF FormFits, Chain!ReadsOf
  <2>13. /\ form' # NoFile => FormFits(form') /\ (form'.calling => command' # NoFile)
                              /\ \A card \in form'.feed : CardFits(card, ran')
    BY <2>1, <2>10, <2>11, <2>12, <1>s DEF CardFits
  <2> QED
    BY <2>1, <2>10, <2>13, <1>s, SessionKept DEF ChainInv, FormFits, Chain!RpcUrl, Chain!ReadsOf, CallFits
<1>10. CASE Chain!CastEnds
  <2>1. command # NoFile /\ UNCHANGED <<form, kept, reading, ran>>
    BY <1>10 DEF Chain!CastEnds
  <2>2. PICK answer \in Replies : command' = [command EXCEPT !.answers = Append(@, answer)]
    BY <1>10 DEF Chain!CastEnds
  <2>3. command \in ChainCalls /\ command.sig.read /\ command.address \in Valid /\ command.rpcUrl # ""
    BY <2>1 DEF ChainInv, CallFits
  <2>4. command.answers \in Seq(Replies)
    BY <2>3 DEF ChainCalls
  <2>5. Append(command.answers, answer) \in Seq(Replies)
    BY <2>4, AppendProperties
  <2>6. command' \in ChainCalls /\ command'.sig = command.sig /\ command'.address = command.address
        /\ command'.rpcUrl = command.rpcUrl
    BY <2>2, <2>3, <2>5 DEF ChainCalls
  <2>7. command' # NoFile /\ CallFits(command')
    BY <2>3, <2>6, ChainAssumption DEF CallFits, ChainCalls, ChainFns
  <2>8. form' # NoFile => FormFits(form') /\ (form'.calling => command' # NoFile)
                          /\ \A card \in form'.feed : CardFits(card, ran')
    BY <2>1, <2>7, <1>s DEF CardFits
  <2> QED
    BY <2>1, <2>7, <2>8, <1>s, SessionKept DEF ChainInv, FormFits, Chain!RpcUrl, Chain!ReadsOf, CallFits
<1>11. CASE Chain!CallEnds
  <2>1. /\ command # NoFile /\ ran' = ran \cup {command} /\ command' = NoFile /\ reading' = reading
    BY <1>11 DEF Chain!CallEnds
  <2>2. CallFits(command) /\ \A c \in ran : CallFits(c)
    BY <2>1 DEF ChainInv
  <2>3. \A c \in ran' : CallFits(c)
    BY <2>1, <2>2
  <2>4. command \in ChainCalls /\ command.answers \in Seq(Replies)
    BY <2>2 DEF CallFits, ChainCalls
  <2>5. \A card : CardFits(card, ran) => CardFits(card, ran')
    BY <2>1 DEF CardFits
  <2>6. ASSUME NEW shown_ \in Seq(Replies), shown_ \in {command.answers, <<>>}
        PROVE  form # NoFile =>
                 LET q == Chain!Posted([sig |-> command.sig, shown |-> shown_])
                 IN  FormFits(q) /\ ~q.calling /\ \A card \in q.feed : CardFits(card, ran')
    <3> SUFFICES ASSUME form # NoFile
                 PROVE  LET q == Chain!Posted([sig |-> command.sig, shown |-> shown_])
                        IN  FormFits(q) /\ ~q.calling /\ \A card \in q.feed : CardFits(card, ran')
      OBVIOUS
    <3> DEFINE new == [sig |-> command.sig, shown |-> shown_]
               p == [form EXCEPT !.calling = FALSE, !.feed = @ \cup {new}]
    <3>1. new \in ChainCards /\ new.sig = command.sig /\ new.shown = shown_
      BY <2>4 DEF ChainCards, ChainCalls
    <3>2. CardFits(new, ran')
      BY <3>1, <2>1, <2>6 DEF CardFits
    <3>3. Chain!Posted(new) = Chain!UpdateRunButton(p)
      BY DEF Chain!Posted
    <3> HIDE DEF new
    <3>4. /\ p \in ChainPages /\ p.ready = form.ready /\ p.chain = form.chain /\ p.abi = form.abi
          /\ p.selected = form.selected /\ p.shown = form.shown /\ ~p.calling /\ p.feed = form.feed \cup {new}
      BY <3>1, <1>s DEF ChainPages
    <3> HIDE DEF p
    <3>5. /\ form.shown /\ form.selected # 0 => form.selected \in Chain!ReadsOf(form.abi)
          /\ ~form.ready => form.chain = NoFile
      BY <1>s DEF FormFits
    <3>6. /\ FormFits(Chain!Posted(new)) /\ ~Chain!Posted(new).calling
          /\ Chain!Posted(new).feed = form.feed \cup {new}
      BY <3>3, <3>4, <3>5, RunButtonFits DEF Chain!ReadsOf
    <3>7. \A card \in Chain!Posted(new).feed : CardFits(card, ran')
      BY <3>2, <3>6, <2>5, <1>s
    <3> QED
      BY <3>6, <3>7 DEF new
  <2>7. <<>> \in Seq(Replies)
    OBVIOUS
  <2>8. CASE Len(command.answers) = 2
    <3>1. /\ form' = Chain!Posted([sig |-> command.sig, shown |-> command.answers])
          /\ kept' = IF form = NoFile THEN kept ELSE [kept EXCEPT !.address = command.address]
      BY <1>11, <2>8, <2>4, LenProperties DEF Chain!CallEnds
    <3>2. form' # NoFile => FormFits(form') /\ ~form'.calling /\ \A card \in form'.feed : CardFits(card, ran')
      BY <3>1, <2>4, <2>6 DEF Chain!Posted
    <3>3. SessionFits'
      <4>1. command.address \in Addresses
        BY <2>4 DEF ChainCalls
      <4>2. kept' \in [chain : DOMAIN Chains \cup {NoFile}, address : Addresses \cup {NoFile}, abi : BOOLEAN]
        BY <3>1, <4>1, <1>s DEF SessionFits
      <4>3. kept'.address = kept.address \/ kept'.address = command.address
        BY <3>1, <1>s DEF SessionFits
      <4> QED
        BY <4>2, <4>3, <2>1, <2>8, <1>s DEF SessionFits
    <3> QED
      BY <3>2, <3>3, <2>1, <2>3, <1>s DEF ChainInv, FormFits, Chain!RpcUrl, Chain!ReadsOf, CallFits
  <2>9. CASE Len(command.answers) # 2
    <3>1. form' = Chain!Posted([sig |-> command.sig, shown |-> <<>>]) /\ kept' = kept
      BY <1>11, <2>9 DEF Chain!CallEnds
    <3>2. form' # NoFile => FormFits(form') /\ ~form'.calling /\ \A card \in form'.feed : CardFits(card, ran')
      BY <3>1, <2>6, <2>7 DEF Chain!Posted
    <3>3. SessionFits'
      BY <3>1, <2>1, <1>s DEF SessionFits
    <3> QED
      BY <3>2, <3>3, <2>1, <2>3, <1>s DEF ChainInv, FormFits, Chain!RpcUrl, Chain!ReadsOf, CallFits
  <2> QED
    BY <2>8, <2>9
<1>12. CASE UNCHANGED Chain!chainVars
  <2>1. UNCHANGED <<form, command, kept, reading, ran>>
    BY <1>12 DEF Chain!chainVars
  <2> QED
    BY <2>1, <1>s, SessionKept, PageMoves
<1> QED
  BY <1>1, <1>2, <1>3, <1>4, <1>5, <1>6, <1>7, <1>8, <1>9, <1>10, <1>11, <1>12 DEF Chain!ChainNext

(* Whatever is loaded, typed, closed and opened again while casts run, the *)
(* panel only runs functions that read, at an address, with an RPC URL; a  *)
(* page that says it is calling waits for a call that runs; each card is   *)
(* of one call; and the address that is kept answered                      *)
(* (RemoteChainPanel.executeCall, loadAbi, postInit).                      *)
THEOREM ChainOnlyReads == PartsSpec => []CallsOnlyRead
<1> DEFINE J == part = "chain" => ChainInv
<1>1. PartsInit => J
  BY ChainInit
<1>2. J /\ [PartsNext]_allVars => J'
  <2> SUFFICES ASSUME J, [PartsNext]_allVars, part' = "chain" PROVE ChainInv'
    OBVIOUS
  <2>1. part = "chain" /\ [Chain!ChainNext]_(Chain!chainVars)
    BY DEF PartsNext, allVars, viewVars, Chain!chainVars
  <2> QED
    BY <2>1, ChainNext
<1>3. J => CallsOnlyRead
  <2> SUFFICES ASSUME ChainInv PROVE Chain!CallsOnlyRead
    BY DEF CallsOnlyRead
  <2> QED
    BY DEF ChainInv, CallFits, CardFits, SessionFits, Chain!CallsOnlyRead
<1> QED
  BY <1>1, <1>2, <1>3, PTL DEF PartsSpec

-----------------------------------------------------------------------------
(***************************************************************************)
(* The IR viewer.                                                          *)
(***************************************************************************)
IrVariants == {"irOptimized", "ir", "assembly"}
Baselines == [variant : IrVariants, text : Nat, outline : {Bodies[v] : v \in DOMAIN Bodies} \cup {NoFile}]
Selections == [contract : Inspected, variant : IrVariants, baseline : Baselines \cup {NoFile}]
Inspections == [id : Nat, pin : BOOLEAN, contract : Inspected, variant : IrVariants, from : DOMAIN Bodies]

(* The changes are those since the baseline, of the variant selected.      *)
BaselineFits(s) == s.baseline # NoFile => s.baseline \in Baselines /\ s.baseline.variant = s.variant

(* The panel shows what is on disk, or will be refreshed.                  *)
IsCurrent ==
  \/ command \/ kept.says = "failed"
  \/ /\ kept.says # "loading"
     /\ kept.output = [contract |-> form.contract, variant |-> form.variant, text |-> saved]
     /\ form.baseline # NoFile /\ form.variant \in {"irOptimized", "ir"} => kept.deltas # NoFile

(* The one run under way is of what is selected and of the text on disk,   *)
(* unless a refresh is due; one that pins leaves what is shown.            *)
WillBeCurrent ==
  /\ \A r, q \in reading : r = q
  /\ form # NoFile =>
       /\ reading = {} => IsCurrent
       /\ \A r \in reading :
            /\ r.contract = form.contract /\ r.variant = form.variant
            /\ IF r.pin THEN IsCurrent ELSE command \/ r.from = saved

IrInv ==
  /\ form # NoFile => form \in Selections /\ BaselineFits(form)
  /\ reading \subseteq Inspections /\ \A r \in reading : r.from <= saved
  /\ saved \in DOMAIN Bodies /\ moves \in Nat /\ command \in BOOLEAN /\ ran \in BOOLEAN
  /\ ~ran => WillBeCurrent

(* The versions of the text are numbers.                                   *)
LEMMA TextsAreNumbers == 1 \in DOMAIN Bodies /\ \A v \in DOMAIN Bodies : v \in Nat
<1>1. Len(Bodies) \in Nat \ {0} /\ DOMAIN Bodies = 1 .. Len(Bodies)
  BY InspectAssumption
<1> QED
  BY <1>1

LEMMA IrInit == PartsInit /\ part = "ir" => IrInv
<1> SUFFICES ASSUME PartsInit, part = "ir" PROVE IrInv
  OBVIOUS
<1>1. form = NoFile /\ reading = {} /\ command = FALSE /\ saved = 1 /\ moves = 0 /\ ran = FALSE
  BY Zenon DEF PartsInit, IrView!IrInit
<1>2. WillBeCurrent
  BY <1>1 DEF WillBeCurrent
<1> QED
  BY <1>1, <1>2, TextsAreNumbers DEF IrInv

(* A run is begun: it is the only one, or runs cross.                      *)
LEMMA RunBegins ==
  ASSUME IrInv, NEW s \in Selections, BaselineFits(s), NEW pin \in BOOLEAN, IrView!Run(pin, s), moves' \in Nat,
         form' = s, saved' = saved, command' \in BOOLEAN, pin => UNCHANGED <<form, kept, command>> /\ form # NoFile
  PROVE  IrInv'
<1> DEFINE r == [id |-> moves, pin |-> pin, contract |-> s.contract, variant |-> s.variant, from |-> saved]
<1>1. r \in Inspections /\ r.from = saved /\ r.pin = pin /\ r.contract = s.contract /\ r.variant = s.variant
  BY DEF IrInv, Inspections, Selections
<1>2. reading' = reading \cup {r} /\ ran' = (ran \/ reading # {})
  BY DEF IrView!Run
<1> HIDE DEF r
<1>3. /\ form' \in Selections /\ BaselineFits(form') /\ reading' \subseteq Inspections
      /\ saved' \in DOMAIN Bodies /\ ran' \in BOOLEAN /\ saved \in Nat /\ \A q \in reading' : q.from <= saved
  BY <1>1, <1>2, TextsAreNumbers DEF IrInv
<1>4. ASSUME ~ran' PROVE WillBeCurrent'
  <2>1. ~ran /\ reading' = {r}
    BY <1>2, <1>4 DEF IrInv
  <2>2. ASSUME pin PROVE IsCurrent'
    BY <1>2, <1>4, <2>1, <2>2 DEF IrInv, WillBeCurrent, IsCurrent
  <2> QED
    BY <1>1, <2>1, <2>2 DEF WillBeCurrent
<1> QED
  BY <1>3, <1>4 DEF IrInv, BaselineFits

LEMMA PanelOpens == IrInv /\ IrView!Show => IrInv'
<1> SUFFICES ASSUME IrInv, IrView!Show PROVE IrInv'
  OBVIOUS
<1>1. PICK c \in Inspected, v \in {"irOptimized"} :
        LET s == [contract |-> c, variant |-> v, baseline |-> NoFile] IN form' = s /\ IrView!Run(FALSE, s)
  BY DEF IrView!Show, IrView!Refresh
<1> DEFINE s == [contract |-> c, variant |-> v, baseline |-> NoFile]
<1>2. s \in Selections /\ BaselineFits(s)
  BY DEF Selections, IrVariants, BaselineFits
<1>3. moves' \in Nat /\ saved' = saved /\ command' \in BOOLEAN
  BY DEF IrView!Show, IrView!Counted, IrInv
<1> HIDE DEF s
<1> QED
  BY <1>1, <1>2, <1>3, RunBegins DEF s

LEMMA PanelCloses == IrInv /\ IrView!Dispose => IrInv'
<1> SUFFICES ASSUME IrInv, IrView!Dispose PROVE IrInv'
  OBVIOUS
<1>0. form' = NoFile /\ command' = FALSE /\ UNCHANGED <<reading, saved, moves, ran>>
  BY DEF IrView!Dispose
<1>1. form' # NoFile => form' \in Selections /\ BaselineFits(form')
  BY <1>0
<1>2. reading' \subseteq Inspections /\ \A r \in reading' : r.from <= saved'
  BY <1>0 DEF IrInv
<1>3. saved' \in DOMAIN Bodies /\ moves' \in Nat /\ command' \in BOOLEAN /\ ran' \in BOOLEAN
  BY <1>0 DEF IrInv
<1>4. ~ran' => WillBeCurrent'
  BY <1>0 DEF IrInv, WillBeCurrent
<1> QED
  BY <1>1, <1>2, <1>3, <1>4 DEF IrInv

Chosen(s, v) == [s EXCEPT !.variant = v, !.baseline = IF @ # NoFile /\ @.variant = v THEN @ ELSE NoFile]
LEMMA SelectionChosen ==
  ASSUME NEW s \in Selections, NEW v \in IrVariants, NEW q, q = Chosen(s, v)
  PROVE  q \in Selections /\ BaselineFits(q)
<1>1. q.variant = v /\ q.contract = s.contract /\ q.baseline = (IF s.baseline # NoFile /\ s.baseline.variant = v THEN s.baseline ELSE NoFile)
  BY Zenon DEF Chosen, Selections
<1>2. q \in Selections
  BY Zenon DEF Chosen, Selections
<1> QED
  BY <1>1, <1>2 DEF BaselineFits, Selections

LEMMA VariantIsSelected == IrInv /\ IrView!SelectVariant => IrInv'
<1> SUFFICES ASSUME IrInv, IrView!SelectVariant PROVE IrInv'
  OBVIOUS
<1>1. PICK v \in IrVariants : form' = Chosen(form, v) /\ IrView!Run(FALSE, Chosen(form, v))
  BY Zenon DEF IrView!SelectVariant, IrView!Refresh, IrVariants, Chosen
<1>2. form # NoFile /\ moves' \in Nat /\ saved' = saved /\ command' \in BOOLEAN
  BY DEF IrView!SelectVariant, IrView!Counted, IrInv
<1> DEFINE s == Chosen(form, v)
<1>3. s \in Selections /\ BaselineFits(s)
  BY <1>2, SelectionChosen DEF IrInv
<1> HIDE DEF s
<1> QED
  BY <1>1, <1>2, <1>3, RunBegins DEF s

LEMMA RefreshIsClicked == IrInv /\ IrView!RefreshClicked => IrInv'
<1> SUFFICES ASSUME IrInv, IrView!RefreshClicked PROVE IrInv'
  OBVIOUS
<1>1. form # NoFile /\ IrView!Run(FALSE, form) /\ moves' = moves + 1 /\ UNCHANGED <<form, kept, command, saved>>
  BY DEF IrView!RefreshClicked, IrView!Refresh, IrView!Counted
<1>2. form \in Selections /\ BaselineFits(form) /\ moves' \in Nat /\ command' \in BOOLEAN
  BY <1>1 DEF IrInv
<1> QED
  BY <1>1, <1>2, RunBegins

LEMMA BaselineIsPinned == IrInv /\ IrView!PinBaseline => IrInv'
<1> SUFFICES ASSUME IrInv, IrView!PinBaseline PROVE IrInv'
  OBVIOUS
<1>1. form # NoFile /\ IrView!Run(TRUE, form) /\ moves' = moves + 1 /\ UNCHANGED <<form, kept, command, saved>>
  BY DEF IrView!PinBaseline, IrView!Counted
<1>2. form \in Selections /\ BaselineFits(form) /\ moves' \in Nat /\ command' \in BOOLEAN
  BY <1>1 DEF IrInv
<1> QED
  BY <1>1, <1>2, RunBegins

LEMMA BaselineIsCleared == IrInv /\ IrView!ClearBaseline => IrInv'
<1> SUFFICES ASSUME IrInv, IrView!ClearBaseline PROVE IrInv'
  OBVIOUS
<1> DEFINE s == [form EXCEPT !.baseline = NoFile]
<1>1. s \in Selections /\ BaselineFits(s)
  BY DEF IrInv, Selections, BaselineFits, IrView!ClearBaseline
<1>2. form' = s /\ IrView!Run(FALSE, s) /\ moves' = moves + 1 /\ saved' = saved /\ command' = command
  BY DEF IrView!ClearBaseline, IrView!Refresh, IrView!Counted
<1>3. moves' \in Nat /\ command' \in BOOLEAN
  BY <1>2 DEF IrInv
<1> HIDE DEF s
<1> QED
  BY <1>1, <1>2, <1>3, RunBegins

LEMMA TextIsSaved == IrInv /\ IrView!Save => IrInv'
<1> SUFFICES ASSUME IrInv, IrView!Save PROVE IrInv'
  OBVIOUS
<1>1. /\ saved' \in DOMAIN Bodies /\ saved' = saved + 1 /\ command' = (command \/ form # NoFile)
      /\ UNCHANGED <<form, kept, reading, moves, ran>>
  BY DEF IrView!Save
<1>2. reading' \subseteq Inspections /\ \A r \in reading' : r.from <= saved'
  <2>1. saved \in Nat /\ \A r \in reading : r.from \in Nat /\ r.from <= saved
    BY TextsAreNumbers DEF IrInv, Inspections
  <2>2. \A r \in reading : r.from <= saved + 1
    BY <2>1
  <2> QED
    BY <1>1, <2>2 DEF IrInv
<1>3. form' # NoFile => form' \in Selections /\ BaselineFits(form')
  BY <1>1 DEF IrInv
<1>4. ASSUME ~ran' PROVE WillBeCurrent'
  <2>1. WillBeCurrent /\ (form' # NoFile => command')
    BY <1>1, <1>4 DEF IrInv
  <2> QED
    BY <1>1, <2>1 DEF WillBeCurrent, IsCurrent
<1>5. moves' \in Nat /\ command' \in BOOLEAN /\ ran' \in BOOLEAN
  BY <1>1 DEF IrInv
<1> QED
  BY <1>1, <1>2, <1>3, <1>4, <1>5 DEF IrInv

LEMMA PanelIsRefreshed == IrInv /\ IrView!AutoRefresh => IrInv'
<1> SUFFICES ASSUME IrInv, IrView!AutoRefresh PROVE IrInv'
  OBVIOUS
<1>1. /\ command' = FALSE /\ moves' = moves + 1 /\ UNCHANGED <<form, kept, saved>>
      /\ form # NoFile => IrView!Run(FALSE, form)
      /\ form = NoFile => UNCHANGED <<reading, ran>>
  BY DEF IrView!AutoRefresh, IrView!Counted, IrView!Refresh
<1>2. moves' \in Nat /\ command' \in BOOLEAN
  <2>1. moves \in Nat /\ moves' = moves + 1
    BY <1>1 DEF IrInv
  <2>2. command' \in BOOLEAN
    BY <1>1
  <2> QED
    BY <2>1, <2>2
<1>3. CASE form = NoFile
  <2>1. ~ran' => WillBeCurrent'
    BY <1>1, <1>3 DEF IrInv, WillBeCurrent
  <2> QED
    BY <1>1, <1>2, <1>3, <2>1 DEF IrInv
<1>4. CASE form # NoFile
  <2>1. form \in Selections /\ BaselineFits(form)
    BY <1>4 DEF IrInv
  <2> QED
    BY <1>1, <1>2, <1>4, <2>1, RunBegins
<1> QED
  BY <1>3, <1>4

LEMMA IrMax == ASSUME NEW S PROVE IrView!Max(S) = CHOOSE x \in S : \A y \in S : x >= y
BY DEF IrView!Max

(* What is compared are the outlines of versions, and the empty one.       *)
IsOutline(o) == o = <<>> \/ o \in {Bodies[v] : v \in DOMAIN Bodies}

LEMMA OutlineLists ==
  ASSUME NEW o, IsOutline(o)
  PROVE  /\ Len(o) \in Nat /\ DOMAIN o = 1 .. Len(o)
         /\ \A i \in DOMAIN o : IsFiniteSet(DOMAIN o[i]) /\ \A f \in DOMAIN o[i] : o[i][f] \in Nat
<1>1. CASE o = <<>>
  BY <1>1
<1>2. CASE \E v \in DOMAIN Bodies : o = Bodies[v]
  <2>1. PICK v \in DOMAIN Bodies : o = Bodies[v]
    BY <1>2
  <2>2. /\ Len(o) \in Nat /\ DOMAIN o = 1 .. Len(o)
        /\ \A i \in DOMAIN o : IsFiniteSet(DOMAIN o[i]) /\ o[i] \in [DOMAIN o[i] -> Nat]
    BY <2>1, InspectAssumption
  <2> QED
    BY <2>2
<1> QED
  BY <1>1, <1>2 DEF IsOutline

(* Of some copies in an outline, one is the last.                          *)
LEMMA LastIsCopy ==
  ASSUME NEW o, IsOutline(o), NEW S \in SUBSET DOMAIN o, S # {} PROVE IrView!Max(S) \in S
<1>1. S \in SUBSET (1 .. Len(o)) /\ Len(o) \in Nat
  BY OutlineLists
<1>2. \E i \in S : \A j \in S : j <= i
  BY <1>1, GreatestNumber
<1>3. \A i, j \in S : j <= i <=> i >= j
  BY <1>1
<1>4. \E i \in S : \A j \in S : i >= j
  BY <1>2, <1>3
<1> QED
  BY <1>4, IrMax

(* A name has the length of one of its copies, and none without a copy.    *)
LEMMA CountIsOfCopy ==
  ASSUME NEW o, IsOutline(o), NEW f
  PROVE  /\ IrView!LineCount(o, f) \in Nat
         /\ f \in IrView!NamesIn(o) <=> IrView!Having(o, f) # {}
         /\ f \notin IrView!NamesIn(o) => IrView!LineCount(o, f) = 0
         /\ f \in IrView!NamesIn(o) => \E i \in DOMAIN o : f \in DOMAIN o[i] /\ IrView!LineCount(o, f) = o[i][f]
<1> DEFINE S == IrView!Having(o, f)
<1>1. S \in SUBSET DOMAIN o /\ \A i \in S : f \in DOMAIN o[i]
  BY DEF IrView!Having
<1>2. f \in IrView!NamesIn(o) <=> S # {}
  BY DEF IrView!Having, IrView!NamesIn
<1>3. IrView!LineCount(o, f) = IF S = {} THEN 0 ELSE o[IrView!Max(S)][f]
  BY DEF IrView!LineCount
<1> HIDE DEF S
<1>4. S # {} => IrView!Max(S) \in S
  BY <1>1, LastIsCopy
<1>5. S # {} => \E i \in DOMAIN o : f \in DOMAIN o[i] /\ IrView!LineCount(o, f) = o[i][f]
  BY <1>1, <1>3, <1>4
<1>6. IrView!LineCount(o, f) \in Nat
  BY <1>3, <1>5, OutlineLists
<1> QED
  BY <1>2, <1>3, <1>5, <1>6 DEF S

(* The names of an outline are finitely many.                              *)
LEMMA NamesAreFinite == ASSUME NEW o, IsOutline(o) PROVE IsFiniteSet(IrView!NamesIn(o))
<1> DEFINE T == {DOMAIN o[i] : i \in DOMAIN o}
           s == [i \in DOMAIN o |-> DOMAIN o[i]]
<1>1. IsFiniteSet(DOMAIN o)
  BY OutlineLists, FS_Interval
<1>2. s \in Surjection(DOMAIN o, T)
  BY DEF Surjection
<1>3. IsFiniteSet(T)
  BY <1>1, <1>2, FS_Surjection
<1>4. \A V \in T : IsFiniteSet(V)
  BY OutlineLists
<1> QED
  BY <1>3, <1>4, FS_UNION DEF IrView!NamesIn

(* What is listed for a name is how much a copy that differs has grown.    *)
LEMMA DeltaIsOfCopy ==
  ASSUME NEW b, IsOutline(b), NEW c, IsOutline(c), NEW f
  PROVE  /\ f \in IrView!Changed(b, c) =>
              \E i \in IrView!Differing(b, c, f) : IrView!LineDelta(b, c, f) = c[i][f] - IrView!LineCount(b, f)
         /\ f \notin IrView!NamesIn(c) => IrView!LineDelta(b, c, f) = 0 - IrView!LineCount(b, f)
<1>1. f \notin IrView!NamesIn(c) => IrView!LineDelta(b, c, f) = 0 - IrView!LineCount(b, f)
  BY DEF IrView!LineDelta
<1>2. ASSUME f \in IrView!Changed(b, c)
      PROVE  \E i \in IrView!Differing(b, c, f) : IrView!LineDelta(b, c, f) = c[i][f] - IrView!LineCount(b, f)
  <2> DEFINE S == IrView!Differing(b, c, f)
  <2>1. S \in SUBSET DOMAIN c /\ S # {} /\ f \in IrView!NamesIn(c)
    BY <1>2 DEF IrView!Changed, IrView!Differing, IrView!Having
  <2>2. IrView!LineDelta(b, c, f) = c[IrView!Max(S)][f] - IrView!LineCount(b, f)
    BY <2>1 DEF IrView!LineDelta
  <2> HIDE DEF S
  <2>3. IrView!Max(S) \in S
    BY <2>1, LastIsCopy
  <2> QED
    BY <2>2, <2>3 DEF S
<1> QED
  BY <1>1, <1>2

DeltaNames(b, c) == IrView!Changed(b, c) \cup (IrView!NamesIn(b) \ IrView!NamesIn(c))

LEMMA DeltasAreOfNames ==
  ASSUME NEW b, IsOutline(b), NEW c, IsOutline(c)
  PROVE  /\ IrView!ComputeFunctionDeltas(b, c) = [f \in DeltaNames(b, c) |-> IrView!LineDelta(b, c, f)]
         /\ DeltaNames(b, c) \subseteq IrView!NamesIn(b) \cup IrView!NamesIn(c)
         /\ \A f \in DeltaNames(b, c) : IrView!LineDelta(b, c, f) \in Int
<1>1. IrView!ComputeFunctionDeltas(b, c) = [f \in DeltaNames(b, c) |-> IrView!LineDelta(b, c, f)]
  BY Zenon DEF IrView!ComputeFunctionDeltas, DeltaNames
<1>2. DeltaNames(b, c) \subseteq IrView!NamesIn(b) \cup IrView!NamesIn(c)
  BY DEF DeltaNames, IrView!Changed
<1>3. ASSUME NEW f \in DeltaNames(b, c) PROVE IrView!LineDelta(b, c, f) \in Int
  <2>1. IrView!LineCount(b, f) \in Nat
    BY CountIsOfCopy
  <2>2. CASE f \in IrView!Changed(b, c)
    <3>1. PICK i \in IrView!Differing(b, c, f) : IrView!LineDelta(b, c, f) = c[i][f] - IrView!LineCount(b, f)
      BY <2>2, DeltaIsOfCopy
    <3>2. i \in DOMAIN c /\ f \in DOMAIN c[i]
      BY DEF IrView!Differing, IrView!Having
    <3>3. c[i][f] \in Nat
      BY <3>2, OutlineLists
    <3> QED
      BY <2>1, <3>1, <3>3
  <2>3. CASE f \notin IrView!NamesIn(c)
    <3>1. IrView!LineDelta(b, c, f) = 0 - IrView!LineCount(b, f)
      BY <2>3, DeltaIsOfCopy
    <3> QED
      BY <2>1, <3>1
  <2> QED
    BY <2>2, <2>3 DEF DeltaNames
<1> QED
  BY <1>1, <1>2, <1>3

(* The changes between two versions are a table.                           *)
LEMMA ChangesAreListed ==
  ASSUME NEW b, IsOutline(b), NEW t \in DOMAIN Bodies
  PROVE  IrView!ComputeFunctionDeltas(b, Bodies[t]) # NoFile
<1> DEFINE every == UNION {IrView!NamesIn(Bodies[v]) : v \in DOMAIN Bodies}
           S == DeltaNames(b, Bodies[t])
           d == [f \in S |-> IrView!LineDelta(b, Bodies[t], f)]
<1>1. IsOutline(Bodies[t])
  BY DEF IsOutline
<1>2. IrView!NamesIn(b) \subseteq every
  <2>1. CASE b = <<>>
    BY <2>1 DEF IrView!NamesIn
  <2>2. CASE \E v \in DOMAIN Bodies : b = Bodies[v]
    BY <2>2
  <2> QED
    BY <2>1, <2>2 DEF IsOutline
<1>3. /\ IrView!ComputeFunctionDeltas(b, Bodies[t]) = d
      /\ S \subseteq every /\ \A f \in S : IrView!LineDelta(b, Bodies[t], f) \in Int
  BY <1>1, <1>2, DeltasAreOfNames
<1>4. every = UNION {UNION {DOMAIN Bodies[v][i] : i \in DOMAIN Bodies[v]} : v \in DOMAIN Bodies}
  BY DEF IrView!NamesIn
<1> HIDE DEF S, every
<1>5. d \in [S -> Int]
  BY <1>3
<1>6. NoFile \notin [S -> Int]
  BY <1>3, <1>4, InspectAssumption
<1> QED
  BY <1>3, <1>5, <1>6

(* What a run brings for the selection and the text that it is of.         *)
LEMMA OutputIsShown ==
  ASSUME NEW r \in Inspections, form \in Selections, BaselineFits(form), r.contract = form.contract, r.variant = form.variant,
         NEW t \in DOMAIN Bodies
  PROVE  /\ IrView!Output(r, t) = [contract |-> form.contract, variant |-> form.variant, text |-> t]
         /\ form.baseline # NoFile /\ form.variant \in {"irOptimized", "ir"} => IrView!Deltas(IrView!Output(r, t)) # NoFile
<1> DEFINE o == IrView!Output(r, t)
<1>1. o = [contract |-> form.contract, variant |-> form.variant, text |-> t] /\ o.variant = form.variant /\ o.text = t
  BY DEF IrView!Output
<1>2. ASSUME form.baseline # NoFile, form.variant \in {"irOptimized", "ir"} PROVE IrView!Deltas(o) # NoFile
  <2> HIDE DEF o
  <2>1. Bodies[t] # NoFile /\ IrView!Outline(o) = Bodies[t]
    <3>1. Bodies[t] # NoFile
      BY InspectAssumption
    <3> QED
      BY <1>1, <1>2, <3>1 DEF IrView!Outline
  <2> DEFINE b == IF form.baseline.outline = NoFile THEN <<>> ELSE form.baseline.outline
  <2>2. IsOutline(b)
    BY <1>2 DEF BaselineFits, Baselines, IsOutline
  <2> HIDE DEF b
  <2>3. form.baseline.variant = form.variant /\ form.variant # "assembly"
    BY <1>2 DEF BaselineFits
  <2>4. IrView!Deltas(o) = IrView!ComputeFunctionDeltas(b, Bodies[t])
    BY <1>2, <2>1, <2>3 DEF IrView!Deltas, b
  <2> QED
    BY <2>2, <2>4, ChangesAreListed
<1> QED
  BY <1>1, <1>2

LEMMA TextsSinceRun ==
  ASSUME IrInv, NEW r \in reading, NEW t \in r.from .. saved
  PROVE  t \in DOMAIN Bodies /\ (r.from = saved => t = saved)
<1>1. /\ Len(Bodies) \in Nat /\ DOMAIN Bodies = 1 .. Len(Bodies)
      /\ r.from \in DOMAIN Bodies /\ saved \in DOMAIN Bodies
  BY InspectAssumption DEF IrInv, Inspections
<1> QED
  BY <1>1

LEMMA RefreshCompletes == IrInv /\ IrView!RefreshEnds => IrInv'
<1> SUFFICES ASSUME IrInv, IrView!RefreshEnds PROVE IrInv'
  OBVIOUS
<1>1. PICK r \in {q \in reading : ~q.pin} :
        /\ IrView!Ended(r)
        /\ \/ form = NoFile
           \/ form # NoFile /\ kept' = IrView!Page("failed")
           \/ form # NoFile /\ \E t \in r.from .. saved :
                kept' = [says |-> "output", output |-> IrView!Output(r, t), against |-> form.baseline,
                         deltas |-> IrView!Deltas(IrView!Output(r, t))]
  BY Zenon DEF IrView!RefreshEnds
<1>2. /\ reading' = reading \ {r} /\ UNCHANGED <<form, command, saved, moves>>
      /\ ran' = (ran \/ (form # NoFile /\ <<form.contract, form.variant>> # <<r.contract, r.variant>>))
  BY <1>1 DEF IrView!RefreshEnds, IrView!Ended
<1>3. ASSUME ~ran' PROVE WillBeCurrent'
  <2>1. ~ran /\ WillBeCurrent /\ reading' = {}
    BY <1>2, <1>3 DEF IrInv, WillBeCurrent
  <2>2. ASSUME form # NoFile PROVE IsCurrent'
    <3>1. CASE kept' = IrView!Page("failed")
      BY <3>1 DEF IsCurrent, IrView!Page
    <3>2. CASE command
      BY <1>2, <3>2 DEF IsCurrent
    <3>3. ASSUME ~command, NEW t \in r.from .. saved,
                 kept' = [says |-> "output", output |-> IrView!Output(r, t), against |-> form.baseline,
                          deltas |-> IrView!Deltas(IrView!Output(r, t))]
          PROVE  IsCurrent'
      <4>1. r \in Inspections /\ form \in Selections /\ BaselineFits(form) /\ r.contract = form.contract /\ r.variant = form.variant /\ r.from = saved
        BY <1>1, <2>1, <2>2, <3>3 DEF IrInv, WillBeCurrent
      <4>2. t \in DOMAIN Bodies /\ t = saved
        BY <3>3, <4>1, TextsSinceRun
      <4>3. /\ IrView!Output(r, t) = [contract |-> form.contract, variant |-> form.variant, text |-> t]
            /\ form.baseline # NoFile /\ form.variant \in {"irOptimized", "ir"} => IrView!Deltas(IrView!Output(r, t)) # NoFile
        BY <4>1, <4>2, OutputIsShown
      <4>4. kept'.says = "output" /\ kept'.output = IrView!Output(r, t) /\ kept'.deltas = IrView!Deltas(IrView!Output(r, t))
        BY <3>3
      <4> QED
        BY <1>2, <4>2, <4>3, <4>4 DEF IsCurrent
    <3> QED
      BY <1>1, <2>2, <3>1, <3>2, <3>3
  <2> QED
    BY <1>2, <2>1, <2>2 DEF WillBeCurrent
<1>4. form' # NoFile => form' \in Selections /\ BaselineFits(form')
  BY <1>2 DEF IrInv
<1>5. /\ reading' \subseteq Inspections /\ (\A q \in reading' : q.from <= saved') /\ saved' \in DOMAIN Bodies /\ moves' \in Nat
      /\ command' \in BOOLEAN /\ ran' \in BOOLEAN
  BY <1>2 DEF IrInv
<1> QED
  BY <1>3, <1>4, <1>5 DEF IrInv

LEMMA PinCompletes == IrInv /\ IrView!PinEnds => IrInv'
<1> SUFFICES ASSUME IrInv, IrView!PinEnds PROVE IrInv'
  OBVIOUS
<1> DEFINE pinned(r, t) == [variant |-> form.variant, text |-> t,
                            outline |-> IF form.variant = "assembly" THEN NoFile ELSE IrView!Outline(IrView!Output(r, t))]
           chosen(r, t) == [form EXCEPT !.baseline = pinned(r, t)]
           next(s) == [id |-> moves, pin |-> FALSE, contract |-> s.contract, variant |-> s.variant, from |-> saved]
<1>1. PICK r \in {q \in reading : q.pin} :
        \/ IrView!Ended(r) /\ form' = form
        \/ \E t \in r.from .. saved :
             /\ form # NoFile /\ form' = chosen(r, t) /\ reading' = (reading \ {r}) \cup {next(chosen(r, t))}
             /\ ran' = (ran \/ reading # {r} \/ <<chosen(r, t).contract, chosen(r, t).variant>> # <<r.contract, r.variant>>)
  BY Zenon DEF IrView!PinEnds
<1>2. moves' = moves + 1 /\ UNCHANGED <<kept, command, saved>>
  BY DEF IrView!PinEnds, IrView!Counted
<1>3. /\ saved' \in DOMAIN Bodies /\ command' \in BOOLEAN /\ saved' = saved
      /\ r \in Inspections /\ reading \subseteq Inspections /\ \A q \in reading : q.from <= saved
  BY <1>1, <1>2 DEF IrInv
<1>4. moves' \in Nat
  BY <1>2 DEF IrInv
<1>5. CASE IrView!Ended(r) /\ form' = form
  <2>1. /\ reading' = reading \ {r}
        /\ ran' = (ran \/ (form # NoFile /\ <<form.contract, form.variant>> # <<r.contract, r.variant>>))
    BY <1>5 DEF IrView!Ended
  <2>2. ASSUME ~ran' PROVE WillBeCurrent'
    <3>1. WillBeCurrent /\ reading' = {}
      BY <1>1, <2>1, <2>2 DEF IrInv, WillBeCurrent
    <3>2. form # NoFile => IsCurrent
      BY <1>1, <3>1 DEF WillBeCurrent
    <3>3. form' # NoFile => IsCurrent'
      BY <1>2, <1>5, <3>2 DEF IsCurrent
    <3> QED
      BY <3>1, <3>3 DEF WillBeCurrent
  <2>3. form' # NoFile => form' \in Selections /\ BaselineFits(form')
    BY <1>5 DEF IrInv
  <2>4. reading' \subseteq Inspections /\ (\A q \in reading' : q.from <= saved') /\ ran' \in BOOLEAN
    BY <1>3, <2>1 DEF IrInv
  <2> QED
    BY <1>3, <1>4, <2>2, <2>3, <2>4 DEF IrInv
<1>6. ASSUME NEW t \in r.from .. saved, form # NoFile, form' = chosen(r, t), reading' = (reading \ {r}) \cup {next(chosen(r, t))},
             ran' = (ran \/ reading # {r} \/ <<chosen(r, t).contract, chosen(r, t).variant>> # <<r.contract, r.variant>>)
      PROVE  IrInv'
  <2> DEFINE b == pinned(r, t)
             s == [form EXCEPT !.baseline = b]
             n == next(s)
  <2>1. b \in Baselines /\ b.variant = form.variant
    <3>1. t \in DOMAIN Bodies /\ t \in Nat
      BY <1>1, TextsSinceRun, TextsAreNumbers
    <3>2. form.variant \in IrVariants /\ IrView!Output(r, t).text = t
      BY <1>6 DEF IrInv, Selections, IrView!Output
    <3>3. b.outline \in {Bodies[v] : v \in DOMAIN Bodies} \cup {NoFile}
      BY <3>1, <3>2 DEF IrView!Outline
    <3> QED
      BY <3>1, <3>2, <3>3 DEF Baselines
  <2> HIDE DEF b
  <2>2. s \in Selections /\ BaselineFits(s)
    BY <1>6, <2>1 DEF IrInv, Selections, BaselineFits
  <2> HIDE DEF s
  <2>3. n \in Inspections /\ n.from = saved /\ ~n.pin /\ n.contract = s.contract /\ n.variant = s.variant
    BY <1>3, <2>2 DEF IrInv, Inspections, Selections
  <2> HIDE DEF n
  <2>4. form' = s /\ reading' = (reading \ {r}) \cup {n} /\ ran' \in BOOLEAN /\ (~ran' => ~ran /\ reading = {r})
    BY <1>6 DEF IrInv, n, s, b
  <2>5. ~ran' => WillBeCurrent'
    BY <1>3, <2>3, <2>4 DEF WillBeCurrent
  <2>6. reading' \subseteq Inspections /\ \A q \in reading' : q.from <= saved'
    BY <1>3, <2>3, <2>4, TextsAreNumbers
  <2> QED
    BY <1>3, <1>4, <2>2, <2>4, <2>5, <2>6 DEF IrInv
<1> QED
  BY <1>1, <1>5, <1>6

LEMMA IrNext == IrInv /\ [IrView!IrNext]_(IrView!irVars) => IrInv'
<1> SUFFICES ASSUME IrInv, [IrView!IrNext]_(IrView!irVars) PROVE IrInv'
  OBVIOUS
<1>1. CASE UNCHANGED IrView!irVars
  BY <1>1 DEF IrInv, WillBeCurrent, IsCurrent, IrView!irVars
<1>2. CASE IrView!IrNext
  BY <1>2, PanelOpens, PanelCloses, VariantIsSelected, RefreshIsClicked, BaselineIsPinned, BaselineIsCleared, TextIsSaved, PanelIsRefreshed,
     RefreshCompletes, PinCompletes DEF IrView!IrNext
<1> QED
  BY <1>1, <1>2

(* When runs do not cross, a panel at rest shows the selected contract and  *)
(* variant as they are on disk, or that forge failed, and has compared them *)
(* with the baseline (IrViewerPanel.refresh).                               *)
THEOREM SelectedIsShown == PartsSpec => [](part = "ir" => IrView!ShowsWhatIsSelected)
<1> DEFINE J == part = "ir" => IrInv
<1>1. PartsInit => J
  BY IrInit
<1>2. J /\ [PartsNext]_allVars => J'
  <2> SUFFICES ASSUME J, [PartsNext]_allVars, part' = "ir" PROVE IrInv'
    OBVIOUS
  <2>1. part = "ir" /\ [IrView!IrNext]_(IrView!irVars)
    BY DEF PartsNext, allVars, viewVars, IrView!irVars
  <2> QED
    BY <2>1, IrNext
<1>3. J => (part = "ir" => IrView!ShowsWhatIsSelected)
  <2> SUFFICES ASSUME IrInv PROVE IrView!ShowsWhatIsSelected
    OBVIOUS
  <2>1. ASSUME ~ran, form # NoFile, reading = {} PROVE IsCurrent
    BY <2>1 DEF IrInv, WillBeCurrent
  <2> QED
    BY <2>1 DEF IsCurrent, IrView!ShowsWhatIsSelected
<1> QED
  BY <1>1, <1>2, <1>3, PTL DEF PartsSpec

(* The viewer's sums are those of Induction.                               *)
LEMMA LinesAreSummed == ASSUME NEW q PROVE IrView!Total(q) = SumOf(q, DOMAIN q)
BY DEF IrView!Total, SumOf, MapThenSumSet, MapThenFoldSet, IrView!MapThenSumSet, IrView!MapThenFoldSet

(* A panel that shows changes shows those from its baseline to its output.  *)
ChangesAreShown ==
  kept.says = "output" /\ kept.deltas # NoFile /\ kept.against.outline # NoFile =>
    \E v, w \in DOMAIN Bodies :
      /\ kept.against.outline = Bodies[v] /\ kept.output.text = w
      /\ kept.deltas = IrView!ComputeFunctionDeltas(Bodies[v], Bodies[w])

(* A name whose copies agree has the length that any of them has.          *)
LEMMA AgreedLength ==
  ASSUME NEW o, IsOutline(o), NEW f, IrView!CopiesAgree(o, f)
  PROVE  /\ IrView!Body(o, f) = IrView!LineCount(o, f)
         /\ \A i \in IrView!Having(o, f) : o[i][f] = IrView!LineCount(o, f)
<1> DEFINE S == IrView!Having(o, f)
           L == IrView!Lengths(o, f)
<1>1. \A i \in S : o[i][f] \in L
  BY DEF IrView!Lengths, IrView!Having
<1>2. L # {} <=> S # {}
  BY DEF IrView!Lengths, IrView!Having
<1>3. S # {} => IrView!LineCount(o, f) \in L
  <2>1. SUFFICES ASSUME S # {} PROVE IrView!LineCount(o, f) \in L
    OBVIOUS
  <2>2. PICK i \in DOMAIN o : f \in DOMAIN o[i] /\ IrView!LineCount(o, f) = o[i][f]
    BY <2>1, CountIsOfCopy
  <2> QED
    BY <2>2 DEF IrView!Lengths
<1>4. \A m, n \in L : m = n
  BY DEF IrView!CopiesAgree
<1>5. IrView!Body(o, f) = IF L = {} THEN 0 ELSE CHOOSE n \in L : TRUE
  BY Zenon DEF IrView!Body
<1>6. S = {} => IrView!LineCount(o, f) = 0
  BY CountIsOfCopy
<1> HIDE DEF S, L
<1>7. L # {} => IrView!Body(o, f) \in L
  BY <1>5
<1>8. \A i \in S : o[i][f] = IrView!LineCount(o, f)
  BY <1>1, <1>3, <1>4
<1>9. IrView!Body(o, f) = IrView!LineCount(o, f)
  BY <1>2, <1>3, <1>4, <1>5, <1>6, <1>7
<1> QED
  BY <1>8, <1>9 DEF S

(* The changes between two versions add up to what the functions grew.     *)
LEMMA DeltasAddUp ==
  ASSUME NEW b, IsOutline(b), NEW c, IsOutline(c),
         NEW N, N = IrView!Comparable(b, c), NEW q, q = IrView!ComputeFunctionDeltas(b, c)
  PROVE  SumOf([f \in N |-> IrView!Body(c, f)], N)
           = SumOf([f \in N |-> IrView!Body(b, f)], N) + SumOf([f \in N \cap DOMAIN q |-> q[f]], N \cap DOMAIN q)
<1> DEFINE x == [f \in N |-> IrView!Body(b, f)]
           y == [f \in N |-> IrView!Body(c, f)]
           D == N \cap DOMAIN q
           h == [f \in D |-> q[f]]
<1>1. IsFiniteSet(N) /\ \A f \in N : IrView!CopiesAgree(b, f) /\ IrView!CopiesAgree(c, f)
  <2>1. IsFiniteSet(IrView!NamesIn(b) \cup IrView!NamesIn(c))
    BY NamesAreFinite, FS_Union
  <2>2. N \subseteq IrView!NamesIn(b) \cup IrView!NamesIn(c)
    BY DEF IrView!Comparable
  <2> QED
    BY <2>1, <2>2, FS_Subset DEF IrView!Comparable
<1>2. IsFiniteSet(D) /\ D \subseteq N
  BY <1>1, FS_Subset
<1>3. DOMAIN q = DeltaNames(b, c) /\ \A f \in DeltaNames(b, c) : q[f] = IrView!LineDelta(b, c, f) /\ q[f] \in Int
  BY DeltasAreOfNames
<1>4. \A f \in N : x[f] = IrView!LineCount(b, f) /\ y[f] = IrView!LineCount(c, f)
  BY <1>1, AgreedLength
<1>5. \A f : IrView!LineCount(b, f) \in Nat /\ IrView!LineCount(c, f) \in Nat
  BY CountIsOfCopy
<1>6. ASSUME NEW f \in N PROVE Within(y, N, f) = Within(x, N, f) + Within(h, D, f)
  <2>1. Within(y, N, f) = IrView!LineCount(c, f) /\ Within(x, N, f) = IrView!LineCount(b, f)
    BY <1>4 DEF Within
  <2>2. \A i \in IrView!Having(c, f) : c[i][f] = IrView!LineCount(c, f)
    BY <1>1, AgreedLength
  <2>3. CASE f \in IrView!Changed(b, c)
    <3>1. PICK i \in IrView!Differing(b, c, f) : IrView!LineDelta(b, c, f) = c[i][f] - IrView!LineCount(b, f)
      BY <2>3, DeltaIsOfCopy
    <3>2. IrView!LineDelta(b, c, f) = IrView!LineCount(c, f) - IrView!LineCount(b, f)
      BY <2>2, <3>1 DEF IrView!Differing
    <3>3. f \in D /\ h[f] = IrView!LineDelta(b, c, f)
      BY <1>3, <2>3 DEF DeltaNames
    <3>4. Within(h, D, f) = IrView!LineCount(c, f) - IrView!LineCount(b, f)
      BY <3>2, <3>3 DEF Within
    <3> QED
      BY <1>5, <2>1, <3>4
  <2>4. CASE f \notin IrView!NamesIn(c)
    <3>1. f \in IrView!NamesIn(b) /\ IrView!LineCount(c, f) = 0
      BY <2>4, CountIsOfCopy DEF IrView!Comparable
    <3>2. f \in D /\ h[f] = 0 - IrView!LineCount(b, f)
      BY <1>3, <2>4, <3>1, DeltaIsOfCopy DEF DeltaNames
    <3>3. Within(h, D, f) = 0 - IrView!LineCount(b, f)
      BY <3>2 DEF Within
    <3> QED
      BY <1>5, <2>1, <3>1, <3>3
  <2>5. CASE f \in IrView!NamesIn(c) /\ f \notin IrView!Changed(b, c)
    <3>1. f \notin D
      BY <1>3, <2>5 DEF DeltaNames
    <3>2. IrView!Having(c, f) # {} /\ IrView!Differing(b, c, f) = {}
      BY <2>5, CountIsOfCopy DEF IrView!Changed
    <3>3. PICK i \in IrView!Having(c, f) : c[i][f] = IrView!LineCount(b, f)
      BY <3>2 DEF IrView!Differing
    <3>4. IrView!LineCount(c, f) = IrView!LineCount(b, f)
      BY <2>2, <3>3
    <3>5. Within(h, D, f) = 0
      BY <3>1 DEF Within
    <3> QED
      BY <1>5, <2>1, <3>4, <3>5
  <2> QED
    BY <2>3, <2>4, <2>5
<1>7. (\A f \in N : x[f] \in Int /\ y[f] \in Int) /\ \A f \in D : h[f] \in Int
  BY <1>3, <1>4, <1>5
<1> HIDE DEF x, y, h, D
<1>8. SumOf(y, N) = SumOf(x, N) + SumOf(h, D)
  <2>1. D \subseteq N \cup N /\ \A f \in N \cup N : Within(y, N, f) = Within(x, N, f) + Within(h, D, f)
    BY <1>2, <1>6
  <2> QED
    BY <1>1, <1>2, <1>7, <2>1, SumsDiffer
<1> QED
  BY <1>8 DEF x, y, h, D

LEMMA ShownChangesAddUp == ChangesAreShown => IrView!ListsWhatChanged
<1> SUFFICES ASSUME ChangesAreShown, kept.says = "output", kept.deltas # NoFile, kept.against.outline # NoFile,
                    NEW b, b = kept.against.outline, NEW c, c = Bodies[kept.output.text]
             PROVE  IrView!Total([f \in IrView!Comparable(b, c) |-> IrView!Body(c, f)])
                      = IrView!Total([f \in IrView!Comparable(b, c) |-> IrView!Body(b, f)])
                          + IrView!Total([f \in IrView!Comparable(b, c) \cap DOMAIN kept.deltas |-> kept.deltas[f]])
  BY Zenon DEF IrView!ListsWhatChanged
<1>1. IsOutline(b) /\ IsOutline(c) /\ kept.deltas = IrView!ComputeFunctionDeltas(b, c)
  BY DEF ChangesAreShown, IsOutline
<1> DEFINE N == IrView!Comparable(b, c)
           x == [f \in N |-> IrView!Body(b, f)]
           y == [f \in N |-> IrView!Body(c, f)]
           D == N \cap DOMAIN kept.deltas
           h == [f \in D |-> kept.deltas[f]]
<1>2. SumOf(y, N) = SumOf(x, N) + SumOf(h, D)
  BY <1>1, DeltasAddUp
<1>3. DOMAIN y = N /\ DOMAIN x = N /\ DOMAIN h = D
  OBVIOUS
<1> HIDE DEF x, y, h, N, D
<1>4. IrView!Total(y) = IrView!Total(x) + IrView!Total(h)
  BY <1>2, <1>3, LinesAreSummed
<1> QED
  BY <1>4 DEF x, y, h, N, D

LEMMA PageShowsNoChanges == ASSUME NEW says, kept' = IrView!Page(says) PROVE ChangesAreShown'
BY DEF ChangesAreShown, IrView!Page

(* Every page is a message, an output as it was, or one that a run brings. *)
LEMMA ChangesStayShown == IrInv /\ ChangesAreShown /\ [IrView!IrNext]_(IrView!irVars) => ChangesAreShown'
<1> SUFFICES ASSUME IrInv, ChangesAreShown, [IrView!IrNext]_(IrView!irVars) PROVE ChangesAreShown'
  OBVIOUS
<1>1. CASE UNCHANGED kept
  BY <1>1 DEF ChangesAreShown
<1>2. CASE IrView!Show \/ IrView!Dispose
  BY <1>2, PageShowsNoChanges DEF IrView!Show, IrView!Dispose
<1>3. CASE IrView!RefreshEnds
  <2>1. PICK r \in reading :
          \/ UNCHANGED kept
          \/ kept' = IrView!Page("failed")
          \/ form # NoFile /\ \E t \in r.from .. saved :
               kept' = [says |-> "output", output |-> IrView!Output(r, t), against |-> form.baseline,
                        deltas |-> IrView!Deltas(IrView!Output(r, t))]
    BY Zenon, <1>3 DEF IrView!RefreshEnds
  <2>2. ASSUME form # NoFile, NEW t \in r.from .. saved,
               kept' = [says |-> "output", output |-> IrView!Output(r, t), against |-> form.baseline,
                        deltas |-> IrView!Deltas(IrView!Output(r, t))]
        PROVE  ChangesAreShown'
    <3> DEFINE o == IrView!Output(r, t)
    <3>1. t \in DOMAIN Bodies /\ o.text = t
      BY TextsSinceRun DEF IrView!Output
    <3> HIDE DEF o
    <3>2. kept'.output = o /\ kept'.against = form.baseline /\ kept'.deltas = IrView!Deltas(o)
      BY <2>2 DEF o
    <3>3. SUFFICES ASSUME IrView!Deltas(o) # NoFile, form.baseline.outline # NoFile
                   PROVE  \E v, w \in DOMAIN Bodies :
                            /\ form.baseline.outline = Bodies[v] /\ o.text = w
                            /\ IrView!Deltas(o) = IrView!ComputeFunctionDeltas(Bodies[v], Bodies[w])
      BY <3>2 DEF ChangesAreShown
    <3>4. form.baseline # NoFile /\ IrView!Outline(o) # NoFile
      BY <3>3 DEF IrView!Deltas
    <3>5. IrView!Outline(o) = Bodies[t]
      BY <3>1, <3>4 DEF IrView!Outline
    <3>6. IrView!Deltas(o) = IrView!ComputeFunctionDeltas(form.baseline.outline, Bodies[t])
      BY <3>3, <3>5 DEF IrView!Deltas
    <3>7. \E v \in DOMAIN Bodies : form.baseline.outline = Bodies[v]
      BY <2>2, <3>3, <3>4 DEF IrInv, BaselineFits, Baselines
    <3> QED
      BY <3>1, <3>6, <3>7
  <2> QED
    BY <1>1, <2>1, <2>2, PageShowsNoChanges
<1> QED
  BY <1>1, <1>2, <1>3 DEF IrView!IrNext, IrView!irVars, IrView!SelectVariant, IrView!RefreshClicked, IrView!PinBaseline,
     IrView!ClearBaseline, IrView!Save, IrView!AutoRefresh, IrView!PinEnds

(* When runs do not cross, a panel at rest shows the selected contract and  *)
(* variant as they are on disk, or that forge failed, and has compared them *)
(* with the baseline; and the changes it shows add up to what the functions *)
(* grew (IrViewerPanel.refresh, computeFunctionDeltas).                     *)
THEOREM DiskIsShown == PartsSpec => []ShowsWhatIsOnDisk
<1> DEFINE J == part = "ir" => IrInv /\ ChangesAreShown
<1>1. PartsInit => J
  <2> SUFFICES ASSUME PartsInit, part = "ir" PROVE ChangesAreShown
    BY IrInit
  <2>1. kept = IrView!Page("loading")
    BY Zenon DEF PartsInit, IrView!IrInit
  <2> QED
    BY <2>1 DEF ChangesAreShown, IrView!Page
<1>2. J /\ [PartsNext]_allVars => J'
  <2> SUFFICES ASSUME J, [PartsNext]_allVars, part' = "ir" PROVE IrInv' /\ ChangesAreShown'
    OBVIOUS
  <2>1. part = "ir" /\ [IrView!IrNext]_(IrView!irVars)
    BY DEF PartsNext, allVars, viewVars, IrView!irVars
  <2> QED
    BY <2>1, IrNext, ChangesStayShown
<1>3. J => (part = "ir" => IrView!ListsWhatChanged)
  BY ShownChangesAddUp
<1>4. PartsSpec => [](part = "ir" => IrView!ListsWhatChanged)
  BY <1>1, <1>2, <1>3, PTL DEF PartsSpec
<1>5. (part = "ir" => IrView!ShowsWhatIsSelected) /\ (part = "ir" => IrView!ListsWhatChanged) => ShowsWhatIsOnDisk
  BY DEF ShowsWhatIsOnDisk, IrView!ShowsWhatIsOnDisk
<1> QED
  BY <1>4, <1>5, SelectedIsShown, PTL
-----------------------------------------------------------------------------
(***************************************************************************)
(* The view of the project graph.                                          *)
(***************************************************************************)
AnyScope == Scopes \cup {{}}
Statuses == {"shown", "busy", "indexing"}
Renderings == {"all", "neighbors"}
SomeGraphs == [scope : AnyScope, nodes : SUBSET Nodes, focus : Nodes \cup {NoFile}]
PageGraphs == {g \in SomeGraphs : g.focus \in g.nodes \cup {NoFile}}
Pages == [boxes : AnyScope, scope : Renderings, active : Nodes \cup {NoFile}, graph : PageGraphs, status : Statuses]
Tellings == [type : {"status"}, status : {"shown", "indexing"}]
Drawings == [type : {"setGraph"}, graph : PageGraphs, scope : Renderings]
Requests == [type : {"cursor", "workspace", "search", "query", "rebuild", "path"}, scope : AnyScope]

Operations(ids, panels) ==
  [id : ids, kind : {"show", "cursor", "workspace", "search", "query", "rebuild", "path"},
   step : {"rebuild", "graph", "whole", "stats"}, scope : AnyScope, on : panels, graph : PageGraphs, cursor : BOOLEAN]
IsOperation(op) ==
  /\ op \in Operations({op.id}, {op.on})
  /\ op.step = "whole" => op.kind = "show"
  /\ op.step = "rebuild" <=> op.kind = "rebuild"

ViewTypes ==
  /\ page \in Pages /\ page.active \in page.graph.nodes \cup {NoFile}
  /\ toHost \in Seq(Requests) /\ toPage \in Seq(Tellings \cup Drawings)
  /\ flags \in AnyScope /\ visible \in BOOLEAN /\ position \in BOOLEAN
  /\ failed \in BOOLEAN /\ disturbed \in BOOLEAN /\ prompted \in BOOLEAN
  /\ \A op \in operations : IsOperation(op)

(* What a page says once it has received all messages, and who will tell it *)
(* something else.                                                          *)
StatusOf(m) == IF m.type = "status" THEN m.status ELSE "shown"
FinalStatus(p, ms) == IF ms = <<>> THEN p.status ELSE StatusOf(ms[Len(ms)])
Answers(op, on) == op.kind # "show" /\ (op.kind = "cursor" /\ op.step = "stats" => op.on = on)

ClosedIsSilent == graphPanel = 0 => toHost = <<>> /\ toPage = <<>> /\ ~visible /\ page.status = "shown"
IndexingEnds ==
  /\ visible => phase = "indexing"
  /\ FinalStatus(page, toPage) = "indexing" => visible
BusyIsAnswered ==
  FinalStatus(page, toPage) = "busy" => failed \/ toHost # <<>> \/ \E op \in operations : Answers(op, graphPanel)

(* Without a disturbance at most one request or operation is under way, its *)
(* scope is that of the boxes, and so is the graph that the page has or     *)
(* will have, unless that request brings another.                           *)
GraphComes(ms) == \E i \in DOMAIN ms : ms[i].type = "setGraph"
GraphsHave(ms, scope) == \A i \in DOMAIN ms : ms[i].type = "setGraph" => ms[i].graph.scope = scope
DrawnAs(boxes) == GraphsHave(toPage, boxes) /\ (GraphComes(toPage) \/ page.graph.scope = boxes)
ShowFits(op) == op.kind = "show" /\ op.scope = flags /\ (op.step = "stats" => op.graph.scope = op.scope)
RequestFits(m) ==
  /\ m.scope = page.boxes
  /\ m.type \notin {"workspace", "cursor"} => page.graph.scope = page.boxes
  /\ m.type = "rebuild" => flags = page.boxes
AnswerFits(op) ==
  /\ op.kind # "show"
  /\ IF op.step = "rebuild" THEN flags = page.boxes ELSE op.scope = page.boxes /\ (prompted \/ flags = page.boxes)
  /\ op.step = "stats" => op.graph.scope = op.scope /\ (op.kind = "cursor" => op.on = graphPanel)
  /\ op.kind \in {"search", "query", "path", "rebuild"} => page.graph.scope = page.boxes

AtRest == toHost = <<>> /\ operations = {} /\ DrawnAs(page.boxes) /\ (prompted \/ flags = page.boxes)
Requested ==
  /\ Len(toHost) = 1 /\ operations = {} /\ ~GraphComes(toPage)
  /\ RequestFits(toHost[1])
Operating == toHost = <<>> /\ ~GraphComes(toPage) /\ \E op \in operations : operations = {op} /\ AnswerFits(op)
Showing == toHost = <<>> /\ \E op \in operations : operations = {op} /\ ShowFits(op)
BoxesAreFollowed ==
  ~disturbed => Showing \/ (IF graphPanel = 0 THEN operations = {} ELSE AtRest \/ Requested \/ Operating)

ViewInv == ViewTypes /\ ClosedIsSilent /\ IndexingEnds /\ BusyIsAnswered /\ BoxesAreFollowed


(* What updates of records and of the messages leave.                       *)
Boxed(p, b) == [p EXCEPT !.boxes = b, !.status = "busy"]
Drawn(p, g, a, r) == [p EXCEPT !.graph = g, !.active = a, !.scope = r, !.status = "shown"]
Redirected(op, s) == [op EXCEPT !.kind = "cursor", !.step = "graph", !.scope = s]
Brought(op, g, n, t) == [op EXCEPT !.graph = g, !.on = n, !.step = t]
Counted(op, g) == [op EXCEPT !.graph = g, !.step = "stats"]

LEMMA PageBoxed ==
  ASSUME NEW p \in Pages, NEW b \in AnyScope, NEW q, q = Boxed(p, b)
  PROVE  q \in Pages /\ q.boxes = b /\ q.status = "busy" /\ q.graph = p.graph /\ q.active = p.active
<1> "busy" \in Statuses
  BY DEF Statuses
<1>1. q \in Pages
  BY Zenon DEF Pages, Boxed
<1>2. q.boxes = b /\ q.status = "busy" /\ q.graph = p.graph /\ q.active = p.active
  BY Zenon DEF Pages, Boxed
<1> QED
  BY <1>1, <1>2

LEMMA PageDrawn ==
  ASSUME NEW p \in Pages, NEW g \in PageGraphs, NEW a \in Nodes \cup {NoFile}, NEW r \in Renderings, NEW q, q = Drawn(p, g, a, r)
  PROVE  q \in Pages /\ q.boxes = p.boxes /\ q.status = "shown" /\ q.graph = g /\ q.active = a
<1> "shown" \in Statuses
  BY DEF Statuses
<1>1. q \in Pages
  BY Zenon DEF Pages, Drawn
<1>2. q.boxes = p.boxes /\ q.status = "shown" /\ q.graph = g /\ q.active = a
  BY Zenon DEF Pages, Drawn
<1> QED
  BY <1>1, <1>2

LEMMA OperationRedirected ==
  ASSUME NEW op, IsOperation(op), NEW s \in AnyScope, NEW q, q = Redirected(op, s)
  PROVE  IsOperation(q) /\ q.kind = "cursor" /\ q.step = "graph" /\ q.scope = s
<1>1. op \in Operations({op.id}, {op.on})
  BY DEF IsOperation
<1>2. q \in Operations({op.id}, {op.on})
  BY <1>1, Zenon DEF Operations, Redirected
<1>3. q.kind = "cursor" /\ q.step = "graph" /\ q.scope = s /\ q.id = op.id /\ q.on = op.on
  BY <1>1, Zenon DEF Operations, Redirected
<1> QED
  BY <1>2, <1>3 DEF IsOperation

LEMMA OperationDrawn ==
  ASSUME NEW op, IsOperation(op), op.step = "graph", NEW g \in PageGraphs, NEW n, NEW t \in {"whole", "stats"},
         t = "whole" => op.kind = "show", NEW q, q = Brought(op, g, n, t)
  PROVE  IsOperation(q) /\ q.kind = op.kind /\ q.step = t /\ q.scope = op.scope /\ q.on = n /\ q.graph = g
<1>1. op \in Operations({op.id}, {op.on})
  BY DEF IsOperation
<1>2. op \in Operations({op.id}, {op.on, n}) /\ t \in {"rebuild", "graph", "whole", "stats"} /\ n \in {op.on, n}
  BY <1>1 DEF Operations
<1>3. q \in Operations({op.id}, {op.on, n})
  BY <1>2, Zenon DEF Operations, Brought
<1>4. q.kind = op.kind /\ q.step = t /\ q.scope = op.scope /\ q.id = op.id /\ q.on = n /\ q.graph = g
  BY <1>1, Zenon DEF Operations, Brought
<1>5. q \in Operations({q.id}, {q.on})
  BY <1>3, <1>4 DEF Operations
<1> QED
  BY <1>4, <1>5 DEF IsOperation

LEMMA OperationCounted ==
  ASSUME NEW op, IsOperation(op), op.step = "whole", NEW g \in PageGraphs, NEW q, q = Counted(op, g)
  PROVE  IsOperation(q) /\ q.kind = op.kind /\ q.step = "stats" /\ q.scope = op.scope /\ q.graph = g
<1>1. op \in Operations({op.id}, {op.on})
  BY DEF IsOperation
<1>2. q \in Operations({op.id}, {op.on})
  BY <1>1, Zenon DEF Operations, Counted
<1>3. q.kind = op.kind /\ q.step = "stats" /\ q.scope = op.scope /\ q.id = op.id /\ q.on = op.on /\ q.graph = g
  BY <1>1, Zenon DEF Operations, Counted
<1> QED
  BY <1>2, <1>3 DEF IsOperation

LEMMA MessagePosted ==
  ASSUME NEW ms \in Seq(Tellings \cup Drawings), NEW m \in Tellings \cup Drawings, NEW p, NEW ns, ns = Append(ms, m)
  PROVE /\ ns \in Seq(Tellings \cup Drawings) /\ ns # <<>> /\ FinalStatus(p, ns) = StatusOf(m)
        /\ m.type = "status" => (GraphComes(ns) <=> GraphComes(ms)) /\ \A s : GraphsHave(ms, s) => GraphsHave(ns, s)
        /\ m.type = "setGraph" => GraphComes(ns) /\ \A s : GraphsHave(ms, s) /\ m.graph.scope = s => GraphsHave(ns, s)
<1>1. ns \in Seq(Tellings \cup Drawings) /\ Len(ns) = Len(ms) + 1 /\ ns[Len(ns)] = m /\ \A i \in 1 .. Len(ms) : ns[i] = ms[i]
  BY AppendProperties
<1>2. DOMAIN ns = 1 .. Len(ns) /\ DOMAIN ms = 1 .. Len(ms) /\ Len(ms) \in Nat
  BY <1>1, LenProperties
<1>3. ns # <<>> /\ FinalStatus(p, ns) = StatusOf(m)
  BY <1>1, <1>2, EmptySeq DEF FinalStatus
<1>4. \A i \in DOMAIN ns : i = Len(ns) \/ i \in DOMAIN ms
  BY <1>1, <1>2
<1>5. Len(ns) \in DOMAIN ns /\ DOMAIN ms \subseteq DOMAIN ns
  BY <1>1, <1>2
<1>6. m.type = "status" => (GraphComes(ns) <=> GraphComes(ms))
  BY <1>1, <1>2, <1>4, <1>5 DEF GraphComes
<1>7. ASSUME NEW s, GraphsHave(ms, s), m.type = "setGraph" => m.graph.scope = s PROVE GraphsHave(ns, s)
  BY <1>1, <1>2, <1>4, <1>7 DEF GraphsHave
<1>8. m.type = "setGraph" => GraphComes(ns)
  BY <1>1, <1>5 DEF GraphComes
<1> QED
  BY <1>1, <1>3, <1>6, <1>7, <1>8

LEMMA MessageReceived ==
  ASSUME NEW ms \in Seq(Tellings \cup Drawings), ms # <<>>, NEW p, NEW q, q.status = StatusOf(Head(ms)),
         NEW ns, ns = Tail(ms), NEW m, m = Head(ms)
  PROVE /\ ns \in Seq(Tellings \cup Drawings) /\ m \in Tellings \cup Drawings
        /\ FinalStatus(q, ns) = FinalStatus(p, ms)
        /\ GraphComes(ms) <=> (m.type = "setGraph" \/ GraphComes(ns))
        /\ \A s : GraphsHave(ms, s) => GraphsHave(ns, s) /\ (m.type = "setGraph" => m.graph.scope = s)
<1>1. ns \in Seq(Tellings \cup Drawings) /\ Len(ns) = Len(ms) - 1 /\ \A i \in 1 .. Len(ns) : ns[i] = ms[i + 1]
  BY HeadTailProperties
<1>2. Len(ms) \in Nat \ {0} /\ DOMAIN ms = 1 .. Len(ms) /\ DOMAIN ns = 1 .. Len(ns) /\ m = ms[1] /\ 1 \in DOMAIN ms
  BY <1>1, HeadTailProperties, LenProperties, EmptySeq
<1>3. m \in Tellings \cup Drawings
  BY <1>2, ElementOfSeq
<1>4. FinalStatus(q, ns) = FinalStatus(p, ms)
  <2>1. CASE Len(ms) = 1
    <3>1. ns = <<>>
      BY <1>1, <2>1, EmptySeq
    <3> QED
      BY <3>1, <1>2, <2>1 DEF FinalStatus
  <2>2. CASE Len(ms) # 1
    <3>1. Len(ns) \in 1 .. Len(ns) /\ Len(ns) + 1 = Len(ms) /\ Len(ns) # 0
      BY <1>1, <1>2, <2>2
    <3>2. ns[Len(ns)] = ms[Len(ms)]
      BY <1>1, <3>1
    <3>3. ns # <<>>
      BY <3>1
    <3> QED
      BY <3>2, <3>3 DEF FinalStatus
  <2> QED
    BY <2>1, <2>2
<1>5. \A i \in DOMAIN ms : i = 1 \/ (i - 1 \in DOMAIN ns /\ ms[i] = ns[i - 1])
  BY <1>1, <1>2
<1>6. \A i \in DOMAIN ns : i + 1 \in DOMAIN ms /\ ns[i] = ms[i + 1]
  BY <1>1, <1>2
<1>7. GraphComes(ms) <=> (m.type = "setGraph" \/ GraphComes(ns))
  BY <1>2, <1>5, <1>6 DEF GraphComes
<1>8. \A s : GraphsHave(ms, s) => GraphsHave(ns, s) /\ (m.type = "setGraph" => m.graph.scope = s)
  BY <1>2, <1>6 DEF GraphsHave
<1> QED
  BY <1>1, <1>3, <1>4, <1>7, <1>8


LEMMA MessageStatus == \A m \in Tellings \cup Drawings : StatusOf(m) \in {"shown", "indexing"} /\ m.type \in {"status", "setGraph"}
  BY DEF StatusOf, Tellings, Drawings

LEMMA ViewInit == Graphs!Init => ViewInv
<1> SUFFICES ASSUME Graphs!Init PROVE ViewInv
  OBVIOUS
<1>1. page \in Pages /\ page.active = NoFile /\ page.boxes = {} /\ page.status = "shown" /\ page.graph.scope = {}
  <2>1. Graphs!NoPage = [boxes |-> {}, scope |-> "all", active |-> NoFile, graph |-> Graphs!NoGraph, status |-> "shown"]
    BY DEF Graphs!NoPage
  <2>2. \A ns \in SUBSET Nodes : Graphs!Graph({}, ns, NoFile) \in PageGraphs /\ Graphs!Graph({}, ns, NoFile).scope = {}
    BY DEF Graphs!Graph, PageGraphs, SomeGraphs, AnyScope
  <2>3. Graphs!NoGraph \in PageGraphs /\ Graphs!NoGraph.scope = {}
    BY <2>2 DEF Graphs!NoGraph
  <2>4. page = Graphs!NoPage \/ page = [Graphs!NoPage EXCEPT !.graph = Graphs!Graph({}, Nodes, NoFile)]
    BY DEF Graphs!Init
  <2>5. page = Graphs!NoPage \/ page = [boxes |-> {}, scope |-> "all", active |-> NoFile, graph |-> Graphs!Graph({}, Nodes, NoFile), status |-> "shown"]
    BY <2>1, <2>4
  <2> QED
    BY <2>1, <2>2, <2>3, <2>5 DEF Pages, AnyScope, Renderings, Statuses
<1> USE DEF Graphs!Init
<1>2. ViewTypes
  BY <1>1, EmptySeq DEF ViewTypes, AnyScope
<1>3. ClosedIsSilent
  BY <1>1 DEF ClosedIsSilent
<1>4. FinalStatus(page, toPage) = "shown"
  BY <1>1 DEF FinalStatus
<1>5. IndexingEnds /\ BusyIsAnswered
  BY <1>4 DEF IndexingEnds, BusyIsAnswered
<1>6. AtRest
  BY <1>1 DEF AtRest, DrawnAs, GraphsHave
<1> QED
  BY <1>2, <1>3, <1>5, <1>6 DEF ViewInv, BoxesAreFollowed, AtRest

(* What the page sends: only its status and its boxes change.               *)
LEMMA PageSends ==
  ASSUME ViewInv, NEW kind \in {"cursor", "workspace", "search", "query", "rebuild", "path"}, NEW b \in AnyScope, Graphs!Sends(kind, b),
         page' \in Pages, page'.boxes = b, page'.graph = page.graph, page'.active = page.active,
         page'.status \in {page.status, "busy"}, kind \in {"cursor", "workspace"} \/ b = page.boxes
  PROVE  ViewInv'
<1> USE DEF ViewInv
<1> DEFINE m == [type |-> kind, scope |-> b]
<1>1. m \in Requests
  BY DEF Requests
<1>2. /\ graphPanel # 0 /\ toHost' = Append(toHost, m)
      /\ UNCHANGED <<graphPanel, toPage, flags, visible, operations, position, phase, failed, prompted>>
      /\ disturbed' = (disturbed \/ ~Graphs!Quiet \/ (kind = "rebuild" /\ prompted))
  BY DEF Graphs!Sends
<1>3. toHost' \in Seq(Requests) /\ toHost' # <<>> /\ (toHost = <<>> => Len(toHost') = 1 /\ toHost'[1] = m)
  <2>1. toHost \in Seq(Requests)
    BY DEF ViewTypes
  <2>2. toHost' \in Seq(Requests) /\ Len(toHost') = Len(toHost) + 1 /\ toHost'[Len(toHost')] = m /\ Len(toHost) \in Nat
    BY <1>1, <1>2, <2>1, AppendProperties, LenProperties
  <2>3. toHost' # <<>>
    BY <2>2, EmptySeq
  <2>4. toHost = <<>> => Len(toHost) = 0
    BY EmptySeq
  <2> QED
    BY <2>2, <2>3, <2>4
<1> HIDE DEF m
<1>4. ViewTypes'
  BY <1>2, <1>3 DEF ViewTypes
<1>5. ClosedIsSilent'
  BY <1>2 DEF ClosedIsSilent
<1>6. IndexingEnds'
  BY <1>2 DEF IndexingEnds, FinalStatus
<1>7. BusyIsAnswered'
  BY <1>3 DEF BusyIsAnswered
<1>8. ASSUME ~disturbed' PROVE Requested'
  <2>1. ~disturbed /\ operations = {} /\ toHost = <<>> /\ toPage = <<>> /\ ~(kind = "rebuild" /\ prompted)
    BY <1>2, <1>8 DEF Graphs!Quiet, ViewTypes
  <2>2. AtRest
    BY <1>2, <2>1, EmptySeq DEF BoxesAreFollowed, Showing, Requested, Operating
  <2>3. ~GraphComes(toPage)
    BY <2>1 DEF GraphComes
  <2>4. page.graph.scope = page.boxes /\ (prompted \/ flags = page.boxes)
    BY <2>2, <2>3 DEF AtRest, DrawnAs
  <2>5. RequestFits(m)'
    <3>1. m.type = kind /\ m.scope = b
      BY DEF m
    <3> QED
      BY <1>2, <2>1, <2>4, <3>1 DEF RequestFits, m
  <2> QED
    BY <1>2, <1>3, <2>1, <2>3, <2>5 DEF Requested
<1>9. BoxesAreFollowed'
  BY <1>2, <1>8 DEF BoxesAreFollowed
<1> QED
  BY <1>4, <1>5, <1>6, <1>7, <1>9

LEMMA Toggles == ViewInv /\ Graphs!Toggle => ViewInv'
<1> SUFFICES ASSUME ViewInv, NEW b \in Scopes \ {page.boxes},
                    Graphs!Sends(IF page.scope = "neighbors" THEN "cursor" ELSE "workspace", b),
                    page' = Boxed(page, b)
             PROVE  ViewInv'
  BY Zenon DEF Graphs!Toggle, Boxed
<1>1. page \in Pages /\ b \in AnyScope
  BY DEF ViewInv, ViewTypes, AnyScope
<1>2. page' \in Pages /\ page'.boxes = b /\ page'.status = "busy" /\ page'.graph = page.graph /\ page'.active = page.active
  BY <1>1, PageBoxed
<1>3. CASE page.scope = "neighbors"
  BY <1>1, <1>2, <1>3, PageSends
<1>4. CASE page.scope # "neighbors"
  BY <1>1, <1>2, <1>4, PageSends
<1> QED
  BY <1>3, <1>4

LEMMA Asks == ViewInv /\ (Graphs!Ask \/ Graphs!Load) => ViewInv'
<1>1. ASSUME ViewInv, NEW kind \in {"search", "query", "rebuild"}, Graphs!Sends(kind, page.boxes),
             page' = [page EXCEPT !.status = "busy"]
      PROVE  ViewInv'
  <2>1. page \in Pages /\ page.boxes \in AnyScope
    BY <1>1 DEF ViewInv, ViewTypes, Pages
  <2>2. page' \in Pages /\ page'.boxes = page.boxes /\ page'.status = "busy" /\ page'.graph = page.graph /\ page'.active = page.active
    BY <1>1, <2>1 DEF Pages, Statuses
  <2> QED
    BY <1>1, <2>1, <2>2, PageSends
<1>2. ASSUME ViewInv, NEW kind \in {"workspace", "cursor", "path"}, Graphs!Sends(kind, page.boxes), UNCHANGED page
      PROVE  ViewInv'
  <2>1. page \in Pages /\ page.boxes \in AnyScope
    BY <1>2 DEF ViewInv, ViewTypes, Pages
  <2> QED
    BY <1>2, <2>1, PageSends
<1> QED
  BY <1>1, <1>2 DEF Graphs!Ask, Graphs!Load


LEMMA Selects == ViewInv /\ Graphs!Select => ViewInv'
<1> SUFFICES ASSUME ViewInv, Graphs!Select PROVE ViewInv'
  OBVIOUS
<1>1. page \in Pages /\ page.status = "shown" /\ page.active \in page.graph.nodes \cup {NoFile}
  BY DEF ViewInv, ViewTypes, Graphs!Select
<1>2. UNCHANGED <<graphPanel, toHost, toPage, flags, visible, operations, position, phase, operated, failed, disturbed, prompted>>
  BY DEF Graphs!Select
<1>3. page.graph.nodes \subseteq Nodes
  BY <1>1 DEF Pages, PageGraphs, SomeGraphs
<1>4. /\ page' \in Pages /\ page'.active \in page'.graph.nodes \cup {NoFile}
      /\ page'.boxes = page.boxes /\ page'.graph = page.graph /\ page'.status = page.status
  <2>1. CASE \E n \in page.graph.nodes : page' = [page EXCEPT !.active = n]
    BY <1>1, <1>3, <2>1 DEF Pages
  <2>2. CASE \E s \in {"neighbors", "all"} : page' = [page EXCEPT !.scope = s]
    BY <1>1, <2>2 DEF Pages, Renderings
  <2> QED
    BY <2>1, <2>2 DEF Graphs!Select
<1>5. ViewTypes'
  BY <1>2, <1>4 DEF ViewInv, ViewTypes
<1>6. ClosedIsSilent' /\ IndexingEnds' /\ BusyIsAnswered'
  BY <1>2, <1>4 DEF ViewInv, ClosedIsSilent, IndexingEnds, BusyIsAnswered, FinalStatus
<1>7. BoxesAreFollowed'
  BY <1>2, <1>4 DEF ViewInv, BoxesAreFollowed, Showing, ShowFits, AtRest, DrawnAs, Requested, RequestFits, Operating, AnswerFits
<1> QED
  BY <1>5, <1>6, <1>7 DEF ViewInv

LEMMA PageReceives == ViewInv /\ Graphs!PageReceives => ViewInv'
<1> SUFFICES ASSUME ViewInv, Graphs!PageReceives PROVE ViewInv'
  OBVIOUS
<1> DEFINE m == Head(toPage)
<1>1. /\ page \in Pages /\ page.active \in page.graph.nodes \cup {NoFile} /\ toPage \in Seq(Tellings \cup Drawings)
      /\ toPage # <<>> /\ toPage' = Tail(toPage)
      /\ UNCHANGED <<graphPanel, toHost, flags, visible, operations, position, phase, operated, failed, disturbed, prompted>>
  BY DEF ViewInv, ViewTypes, Graphs!PageReceives
<1>2. m \in Tellings \cup Drawings
  BY <1>1, HeadTailProperties
<1>3. page' = IF m.type = "status" THEN [page EXCEPT !.status = m.status]
              ELSE [page EXCEPT !.graph = m.graph, !.active = Graphs!Focused(page, m.graph), !.scope = m.scope, !.status = "shown"]
  BY DEF Graphs!PageReceives
<1> HIDE DEF m
<1>4. /\ page' \in Pages /\ page'.active \in page'.graph.nodes \cup {NoFile} /\ page'.boxes = page.boxes
      /\ page'.status = StatusOf(m) /\ page'.graph = IF m.type = "setGraph" THEN m.graph ELSE page.graph
  <2>1. CASE m.type = "status"
    <3>1. m.status \in Statuses
      BY <1>2, <2>1 DEF Tellings, Drawings, Statuses
    <3>2. page' = [page EXCEPT !.status = m.status]
      BY <1>3, <2>1, Zenon
    <3> QED
      BY <1>1, <2>1, <3>1, <3>2 DEF Pages, StatusOf
  <2>2. CASE m.type # "status"
    <3> DEFINE a == Graphs!Focused(page, m.graph)
    <3>1. m.type = "setGraph" /\ m.graph \in PageGraphs /\ m.scope \in Renderings
      BY <1>2, <2>2 DEF Tellings, Drawings
    <3>2. a \in m.graph.nodes \cup {NoFile} /\ m.graph.nodes \subseteq Nodes
      BY <3>1 DEF Graphs!Focused, PageGraphs, SomeGraphs
    <3>3. a \in Nodes \cup {NoFile}
      BY <3>2
    <3>4. page' = Drawn(page, m.graph, a, m.scope)
      BY <1>3, <2>2, Zenon DEF Drawn
    <3> HIDE DEF a
    <3>5. page' \in Pages /\ page'.boxes = page.boxes /\ page'.status = "shown" /\ page'.graph = m.graph /\ page'.active = a
      BY <1>1, <3>1, <3>3, <3>4, PageDrawn
    <3> QED
      BY <2>2, <3>1, <3>2, <3>5 DEF StatusOf
  <2> QED
    BY <2>1, <2>2
<1>5. /\ toPage' \in Seq(Tellings \cup Drawings)
      /\ FinalStatus(page', toPage') = FinalStatus(page, toPage)
      /\ GraphComes(toPage) <=> (m.type = "setGraph" \/ GraphComes(toPage'))
      /\ \A s : GraphsHave(toPage, s) => GraphsHave(toPage', s) /\ (m.type = "setGraph" => m.graph.scope = s)
  <2>1. m = Head(toPage)
    BY DEF m
  <2>2. page'.status = StatusOf(Head(toPage))
    BY <1>4, <2>1
  <2> QED
    BY <1>1, <2>1, <2>2, MessageReceived
<1>6. ViewTypes'
  BY <1>1, <1>4, <1>5 DEF ViewInv, ViewTypes
<1>7. ClosedIsSilent'
  BY <1>1, EmptySeq DEF ViewInv, ClosedIsSilent
<1>8. IndexingEnds' /\ BusyIsAnswered'
  BY <1>1, <1>5 DEF ViewInv, IndexingEnds, BusyIsAnswered
<1>9. AtRest => AtRest'
  BY <1>1, <1>4, <1>5 DEF AtRest, DrawnAs
<1>10. Requested => Requested'
  BY <1>1, <1>4, <1>5 DEF Requested, RequestFits
<1>11. Operating => Operating'
  BY <1>1, <1>4, <1>5 DEF Operating, AnswerFits
<1>12. Showing => Showing'
  BY <1>1 DEF Showing, ShowFits
<1>13. BoxesAreFollowed'
  BY <1>1, <1>9, <1>10, <1>11, <1>12 DEF ViewInv, BoxesAreFollowed
<1> QED
  BY <1>6, <1>7, <1>8, <1>13 DEF ViewInv

(* Nothing of an operation is changed by what the user chooses elsewhere.    *)
LEMMA Prompts == ViewInv /\ Graphs!Prompt => ViewInv'
<1> SUFFICES ASSUME ViewInv, Graphs!Prompt PROVE ViewInv'
  OBVIOUS
<1>1. /\ flags' \in Scopes /\ prompted' = TRUE /\ disturbed' = (disturbed \/ ~Graphs!Quiet)
      /\ UNCHANGED <<graphPanel, page, toHost, toPage, visible, operations, position, phase, failed>>
  BY DEF Graphs!Prompt
<1>2. ViewTypes' /\ ClosedIsSilent' /\ IndexingEnds' /\ BusyIsAnswered'
  BY <1>1 DEF ViewInv, ViewTypes, AnyScope, ClosedIsSilent, IndexingEnds, BusyIsAnswered
<1>3. ASSUME ~disturbed' PROVE IF graphPanel' = 0 THEN operations' = {} ELSE AtRest'
  <2>1. ~disturbed /\ operations = {} /\ toHost = <<>>
    BY <1>1, <1>3 DEF ViewInv, ViewTypes, Graphs!Quiet
  <2>2. graphPanel # 0 => AtRest
    BY <2>1, EmptySeq DEF ViewInv, BoxesAreFollowed, Showing, Requested, Operating
  <2> QED
    BY <1>1, <2>1, <2>2 DEF AtRest, DrawnAs
<1> QED
  BY <1>2, <1>3 DEF ViewInv, BoxesAreFollowed

LEMMA Remembers == ViewInv /\ Graphs!Remember => ViewInv'
  BY DEF Graphs!Remember, ViewInv, ViewTypes, ClosedIsSilent, IndexingEnds, BusyIsAnswered, BoxesAreFollowed, Showing, ShowFits,
         AtRest, DrawnAs, Requested, RequestFits, Operating, AnswerFits

LEMMA Shuts == ViewInv /\ Graphs!Close => ViewInv'
<1> SUFFICES ASSUME ViewInv, Graphs!Close PROVE ViewInv'
  OBVIOUS
<1>1. /\ graphPanel' = 0 /\ flags' = {} /\ visible' = FALSE /\ toHost' = <<>> /\ toPage' = <<>>
      /\ disturbed' = (operations # {}) /\ prompted' = FALSE /\ UNCHANGED <<operations, position, phase, failed>>
  BY DEF Graphs!Close
<1>2. page' = [boxes |-> {}, scope |-> "all", active |-> NoFile, graph |-> Graphs!NoGraph, status |-> "shown"]
  BY DEF Graphs!Close, Graphs!NoPage
<1>3. Graphs!NoGraph \in PageGraphs
  BY DEF Graphs!NoGraph, Graphs!Graph, PageGraphs, SomeGraphs, AnyScope
<1>4. page' \in Pages /\ page'.active = NoFile /\ FinalStatus(page', toPage') = "shown"
  BY <1>1, <1>2, <1>3 DEF Pages, AnyScope, Renderings, Statuses, FinalStatus
<1>5. ViewTypes'
  BY <1>1, <1>4, EmptySeq DEF ViewInv, ViewTypes, AnyScope
<1>6. ClosedIsSilent' /\ IndexingEnds' /\ BusyIsAnswered'
  BY <1>1, <1>2, <1>4 DEF ClosedIsSilent, IndexingEnds, BusyIsAnswered
<1>7. BoxesAreFollowed'
  BY <1>1 DEF BoxesAreFollowed
<1> QED
  BY <1>5, <1>6, <1>7 DEF ViewInv


(* An operation that ends or becomes another, in an open or a closed panel.  *)
LEMMA OperationMoves ==
  ASSUME ViewInv, NEW op \in operations, NEW N, operations' = (operations \ {op}) \cup N, \A n \in N : IsOperation(n),
         UNCHANGED <<graphPanel, page, toHost, flags, visible, position, phase, failed, disturbed, prompted>>,
         \/ toPage' = toPage /\ (graphPanel # 0 /\ Answers(op, graphPanel) => \E n \in N : Answers(n, graphPanel))
         \/ graphPanel # 0 /\ \E m \in Tellings \cup Drawings :
              toPage' = Append(toPage, m) /\ StatusOf(m) = "shown"
  PROVE  ViewTypes' /\ ClosedIsSilent' /\ IndexingEnds' /\ BusyIsAnswered'
<1> USE DEF ViewInv
<1>1. CASE toPage' = toPage /\ (graphPanel # 0 /\ Answers(op, graphPanel) => \E n \in N : Answers(n, graphPanel))
  <2>1. ViewTypes'
    BY <1>1 DEF ViewTypes
  <2>2. ClosedIsSilent' /\ IndexingEnds'
    BY <1>1 DEF ClosedIsSilent, IndexingEnds
  <2>3. graphPanel = 0 => FinalStatus(page', toPage') # "busy"
    BY <1>1 DEF ClosedIsSilent, FinalStatus
  <2>4. graphPanel # 0 /\ (\E o \in operations : Answers(o, graphPanel)) => \E o \in operations' : Answers(o, graphPanel')
    BY <1>1
  <2>5. BusyIsAnswered'
    BY <1>1, <2>3, <2>4 DEF BusyIsAnswered
  <2> QED
    BY <2>1, <2>2, <2>5
<1>2. ASSUME graphPanel # 0, NEW m \in Tellings \cup Drawings, toPage' = Append(toPage, m), StatusOf(m) = "shown"
      PROVE  ViewTypes' /\ ClosedIsSilent' /\ IndexingEnds' /\ BusyIsAnswered'
  <2>1. toPage' \in Seq(Tellings \cup Drawings) /\ FinalStatus(page', toPage') = "shown"
    BY <1>2, MessagePosted DEF ViewTypes
  <2>2. ViewTypes'
    BY <2>1 DEF ViewTypes
  <2>3. ClosedIsSilent' /\ IndexingEnds' /\ BusyIsAnswered'
    BY <1>2, <2>1 DEF ClosedIsSilent, IndexingEnds, BusyIsAnswered
  <2> QED
    BY <2>2, <2>3
<1> QED
  BY <1>1, <1>2

(* What is under way without a disturbance, if something is.                 *)
LEMMA OneUnderWay ==
  ASSUME ViewInv, NEW op \in operations, ~disturbed
  PROVE  operations = {op} /\ toHost = <<>> /\ (ShowFits(op) \/ (graphPanel # 0 /\ ~GraphComes(toPage) /\ AnswerFits(op)))
BY DEF ViewInv, BoxesAreFollowed, Showing, AtRest, Requested, Operating

(* It ends with a message to an open panel, or without one.                  *)
LEMMA OperationEnds ==
  ASSUME ViewInv, NEW op \in operations, operations' = operations \ {op},
         UNCHANGED <<graphPanel, page, toHost, flags, visible, position, phase, failed, disturbed, prompted>>,
         NEW m \in Tellings \cup Drawings, StatusOf(m) = "shown",
         \/ graphPanel # 0 /\ toPage' = Append(toPage, m)
         \/ toPage' = toPage /\ (graphPanel = 0 \/ ~Answers(op, graphPanel)),
         ~disturbed /\ AnswerFits(op) /\ graphPanel # 0 =>
           IF m.type = "setGraph" THEN m.graph.scope = page.boxes ELSE page.graph.scope = page.boxes,
         op.kind # "show"
  PROVE  ViewInv'
<1>1. ViewTypes' /\ ClosedIsSilent' /\ IndexingEnds' /\ BusyIsAnswered'
  <2>1. operations' = (operations \ {op}) \cup {}
    OBVIOUS
  <2> QED
    BY <2>1, OperationMoves
<1>2. ASSUME ~disturbed, graphPanel # 0 PROVE AtRest'
  <2>1. operations = {op} /\ toHost = <<>> /\ ~GraphComes(toPage) /\ AnswerFits(op)
    BY <1>2, OneUnderWay DEF ShowFits
  <2>2. toPage' = Append(toPage, m)
    BY <1>2, <2>1 DEF AnswerFits, Answers
  <2>3. GraphsHave(toPage, page.boxes) /\ toPage \in Seq(Tellings \cup Drawings)
    BY <2>1 DEF GraphComes, GraphsHave, ViewInv, ViewTypes
  <2>4. GraphsHave(toPage', page.boxes) /\ (GraphComes(toPage') \/ page.graph.scope = page.boxes)
    BY <1>2, <2>1, <2>2, <2>3, MessagePosted, MessageStatus
  <2>5. prompted \/ flags = page.boxes
    BY <1>2, <2>1 DEF AnswerFits
  <2> QED
    BY <2>1, <2>4, <2>5 DEF AtRest, DrawnAs
<1>3. ASSUME ~disturbed, graphPanel = 0 PROVE operations' = {}
  BY <1>3, OneUnderWay DEF ShowFits
<1> QED
  BY <1>1, <1>2, <1>3 DEF ViewInv, BoxesAreFollowed

(* Or it goes on as another.                                                 *)
LEMMA OperationGoesOn ==
  ASSUME ViewInv, NEW op \in operations, NEW n, operations' = (operations \ {op}) \cup {n}, IsOperation(n),
         UNCHANGED <<graphPanel, page, toHost, toPage, flags, visible, position, phase, failed, disturbed, prompted>>,
         graphPanel # 0 /\ Answers(op, graphPanel) => Answers(n, graphPanel),
         ~disturbed /\ ShowFits(op) => ShowFits(n),
         ~disturbed /\ graphPanel # 0 /\ AnswerFits(op) => AnswerFits(n)
  PROVE  ViewInv'
<1>1. ViewTypes' /\ ClosedIsSilent' /\ IndexingEnds' /\ BusyIsAnswered'
  BY OperationMoves
<1>2. ASSUME ~disturbed PROVE Showing' \/ (graphPanel # 0 /\ Operating')
  <2>1. operations' = {n} /\ toHost = <<>>
    BY <1>2, OneUnderWay
  <2>2. ShowFits(n) \/ (graphPanel # 0 /\ ~GraphComes(toPage) /\ AnswerFits(n))
    BY <1>2, OneUnderWay
  <2>3. CASE ShowFits(n)
    BY <2>1, <2>3 DEF Showing, ShowFits
  <2>4. CASE graphPanel # 0 /\ ~GraphComes(toPage) /\ AnswerFits(n)
    BY <2>1, <2>4 DEF Operating, AnswerFits
  <2> QED
    BY <2>2, <2>3, <2>4
<1> QED
  BY <1>1, <1>2 DEF ViewInv, BoxesAreFollowed

LEMMA AnswersAreGraphs ==
  ASSUME NEW s \in AnyScope, NEW g \in Graphs!Answers(s) PROVE g \in PageGraphs /\ g.scope = s
BY DEF Graphs!Answers, Graphs!Answered, Graphs!Graph, PageGraphs, SomeGraphs

LEMMA GraphIsAnswered == ASSUME NEW op \in operations PROVE ViewInv /\ Graphs!GraphAnswered(op) => ViewInv'
<1> SUFFICES ASSUME ViewInv, Graphs!GraphAnswered(op) PROVE ViewInv'
  OBVIOUS
<1>1. /\ op.step = "graph" /\ IsOperation(op) /\ op.scope \in AnyScope /\ op.kind # "rebuild"
      /\ UNCHANGED <<graphPanel, page, toHost, flags, visible, position, phase, failed, disturbed, prompted>>
  BY DEF ViewInv, ViewTypes, Graphs!GraphAnswered, Graphs!Waiting, IsOperation, Operations
<1> DEFINE m == [type |-> "status", status |-> "shown"]
<1>2. m \in Tellings \cup Drawings /\ StatusOf(m) = "shown" /\ m.type # "setGraph"
  BY DEF Tellings, StatusOf
<1>3. CASE op.kind \in {"search", "query", "path"} /\ Graphs!Settles(op, Graphs!Status("shown"))
  <2>1. operations' = operations \ {op} /\ IF graphPanel # 0 THEN toPage' = Append(toPage, m) ELSE toPage' = toPage
    BY <1>3 DEF Graphs!Settles, Graphs!Others, Graphs!Post, Graphs!Status
  <2> HIDE DEF m
  <2>2. AnswerFits(op) => page.graph.scope = page.boxes
    BY <1>3 DEF AnswerFits
  <2> QED
    BY <1>1, <1>2, <1>3, <2>1, <2>2, OperationEnds
<1>4. ASSUME NEW g \in Graphs!Answers(op.scope), UNCHANGED toPage, op.kind = "cursor" /\ graphPanel = 0, operations' = Graphs!Others(op)
      PROVE  ViewInv'
  <2>1. operations' = operations \ {op}
    BY <1>4 DEF Graphs!Others
  <2> HIDE DEF m
  <2> QED
    BY <1>1, <1>2, <1>4, <2>1, OperationEnds
<1>5. ASSUME NEW g \in Graphs!Answers(op.scope), NEW t \in {"whole", "stats"}, t = "whole" => op.kind = "show",
             ~(op.kind = "cursor" /\ graphPanel = 0), UNCHANGED toPage,
             operations' = Graphs!Others(op) \cup {Brought(op, g, graphPanel, t)}
      PROVE  ViewInv'
  <2> DEFINE n == Brought(op, g, graphPanel, t)
  <2>1. g \in PageGraphs /\ g.scope = op.scope
    BY <1>1, AnswersAreGraphs
  <2>2. IsOperation(n) /\ n.kind = op.kind /\ n.step = t /\ n.scope = op.scope /\ n.on = graphPanel /\ n.graph = g
    BY <1>1, <1>5, <2>1, OperationDrawn
  <2>3. operations' = (operations \ {op}) \cup {n}
    BY <1>5 DEF Graphs!Others
  <2> HIDE DEF n
  <2>4. ShowFits(op) => ShowFits(n)
    BY <2>1, <2>2 DEF ShowFits
  <2>5. AnswerFits(op) => AnswerFits(n)
    BY <1>1, <2>1, <2>2 DEF AnswerFits
  <2>6. Answers(op, graphPanel) => Answers(n, graphPanel)
    BY <2>2 DEF Answers
  <2> QED
    BY <1>1, <1>5, <2>2, <2>3, <2>4, <2>5, <2>6, OperationGoesOn
<1>6. \/ op.kind \in {"search", "query", "path"} /\ Graphs!Settles(op, Graphs!Status("shown"))
      \/ \E g \in Graphs!Answers(op.scope) :
           /\ UNCHANGED toPage
           /\ IF op.kind = "cursor" /\ graphPanel = 0 THEN operations' = Graphs!Others(op)
              ELSE operations' = Graphs!Others(op) \cup {Brought(op, g, graphPanel, IF op.kind = "show" /\ g.nodes = {} THEN "whole" ELSE "stats")}
  BY Zenon DEF Graphs!GraphAnswered, Brought
<1>7. ASSUME NEW g \in Graphs!Answers(op.scope), UNCHANGED toPage,
             IF op.kind = "cursor" /\ graphPanel = 0 THEN operations' = Graphs!Others(op)
             ELSE operations' = Graphs!Others(op) \cup {Brought(op, g, graphPanel, IF op.kind = "show" /\ g.nodes = {} THEN "whole" ELSE "stats")}
      PROVE  ViewInv'
  <2>1. CASE op.kind = "cursor" /\ graphPanel = 0
    BY <1>4, <1>7, <2>1
  <2>2. CASE ~(op.kind = "cursor" /\ graphPanel = 0)
    BY <1>5, <1>7, <2>2
  <2> QED
    BY <2>1, <2>2
<1> QED
  BY <1>3, <1>6, <1>7

LEMMA WholeIsAnswered == ASSUME NEW op \in operations PROVE ViewInv /\ Graphs!WholeAnswered(op) => ViewInv'
<1> SUFFICES ASSUME ViewInv, NEW g \in Graphs!Answers(op.scope), op.step = "whole",
                    operations' = Graphs!Others(op) \cup {Counted(op, g)},
                    UNCHANGED <<graphPanel, page, toHost, toPage, flags, visible, position, phase, operated, failed, disturbed, prompted>>
             PROVE  ViewInv'
  BY Zenon DEF Graphs!WholeAnswered, Graphs!Waiting, Counted
<1> DEFINE n == Counted(op, g)
<1>1. IsOperation(op) /\ op.scope \in AnyScope /\ op.kind = "show"
  BY DEF ViewInv, ViewTypes, IsOperation, Operations
<1>2. g \in PageGraphs /\ g.scope = op.scope
  BY <1>1, AnswersAreGraphs
<1>3. IsOperation(n) /\ n.kind = "show" /\ n.step = "stats" /\ n.scope = op.scope /\ n.graph = g
  BY <1>1, <1>2, OperationCounted
<1>4. operations' = (operations \ {op}) \cup {n}
  BY DEF Graphs!Others
<1> HIDE DEF n
<1>5. ShowFits(op) => ShowFits(n)
  BY <1>2, <1>3 DEF ShowFits
<1>6. ~AnswerFits(op) /\ ~Answers(op, graphPanel)
  BY <1>1 DEF AnswerFits, Answers
<1> QED
  BY <1>3, <1>4, <1>5, <1>6, OperationGoesOn

LEMMA StatsAreAnswered == ASSUME NEW op \in operations PROVE ViewInv /\ Graphs!StatsAnswered(op) => ViewInv'
<1> SUFFICES ASSUME ViewInv, Graphs!StatsAnswered(op) PROVE ViewInv'
  OBVIOUS
<1>1. /\ op.step = "stats" /\ op.kind # "show" /\ IsOperation(op) /\ op.graph \in PageGraphs
      /\ UNCHANGED <<graphPanel, page, toHost, flags, visible, position, phase, failed, disturbed, prompted>>
  BY DEF ViewInv, ViewTypes, Graphs!StatsAnswered, Graphs!Waiting, IsOperation, Operations
<1> DEFINE m == Graphs!SetGraph(op.graph, IF op.kind = "cursor" THEN "neighbors" ELSE "all")
<1>2. m \in Drawings /\ StatusOf(m) = "shown" /\ m.type = "setGraph" /\ m.graph = op.graph
  BY <1>1 DEF Drawings, StatusOf, Graphs!SetGraph, Renderings
<1>3. operations' = operations \ {op}
  BY DEF Graphs!StatsAnswered, Graphs!Settles, Graphs!Others
<1>4. \/ graphPanel # 0 /\ toPage' = Append(toPage, m)
      \/ toPage' = toPage /\ (graphPanel = 0 \/ (op.kind = "cursor" /\ op.on # graphPanel))
  BY DEF Graphs!StatsAnswered, Graphs!Settles, Graphs!Post
<1> HIDE DEF m
<1>5. AnswerFits(op) => m.graph.scope = page.boxes
  BY <1>1, <1>2 DEF AnswerFits
<1>6. op.kind = "cursor" /\ op.on # graphPanel => ~Answers(op, graphPanel)
  BY <1>1 DEF Answers
<1> QED
  BY <1>1, <1>2, <1>3, <1>4, <1>5, <1>6, OperationEnds

LEMMA RebuildEnds == ASSUME NEW op \in operations PROVE ViewInv /\ Graphs!Rebuilt(op) => ViewInv'
<1> SUFFICES ASSUME ViewInv, Graphs!Rebuilt(op) PROVE ViewInv'
  OBVIOUS
<1>1. /\ op.step = "rebuild" /\ op.kind = "rebuild" /\ IsOperation(op) /\ flags \in AnyScope
      /\ UNCHANGED <<graphPanel, page, toHost, flags, visible, position, phase, failed, disturbed, prompted>>
  BY DEF ViewInv, ViewTypes, Graphs!Rebuilt, Graphs!Waiting, IsOperation
<1> DEFINE m == [type |-> "status", status |-> "shown"]
           n == Redirected(op, flags)
<1>2. m \in Tellings \cup Drawings /\ StatusOf(m) = "shown" /\ m.type # "setGraph"
  BY DEF Tellings, StatusOf
<1>3. AnswerFits(op) => page.graph.scope = page.boxes /\ flags = page.boxes
  BY <1>1 DEF AnswerFits
<1>4. \/ graphPanel = 0 /\ operations' = operations \ {op} /\ toPage' = toPage
      \/ graphPanel # 0 /\ operations' = operations \ {op} /\ toPage' = Append(toPage, m)
      \/ operations' = (operations \ {op}) \cup {n} /\ toPage' = toPage
  BY Zenon DEF Graphs!Rebuilt, Graphs!CursorFrom, Graphs!Others, Graphs!Post, Graphs!Status, Redirected
<1>5. IsOperation(n) /\ n.kind = "cursor" /\ n.step = "graph" /\ n.scope = flags
  BY <1>1, OperationRedirected
<1> HIDE DEF m, n
<1>6. CASE operations' = operations \ {op} /\ ((graphPanel = 0 /\ toPage' = toPage) \/ (graphPanel # 0 /\ toPage' = Append(toPage, m)))
  BY <1>1, <1>2, <1>3, <1>6, OperationEnds
<1>7. CASE operations' = (operations \ {op}) \cup {n} /\ toPage' = toPage
  <2>1. Answers(n, graphPanel)
    BY <1>5 DEF Answers
  <2>2. AnswerFits(op) => AnswerFits(n)
    BY <1>3, <1>5 DEF AnswerFits
  <2>3. ~ShowFits(op)
    BY <1>1 DEF ShowFits
  <2> QED
    BY <1>1, <1>5, <1>7, <2>1, <2>2, <2>3, OperationGoesOn
<1> QED
  BY <1>4, <1>6, <1>7

LEMMA Fails == ASSUME NEW op \in operations PROVE ViewInv /\ Graphs!Fails(op) => ViewInv'
BY DEF Graphs!Fails, Graphs!Others, ViewInv, ViewTypes, ClosedIsSilent, IndexingEnds, BusyIsAnswered, BoxesAreFollowed


LEMMA HostReceives == ViewInv /\ Graphs!HostReceives => ViewInv'
<1> SUFFICES ASSUME ViewInv, Graphs!HostReceives PROVE ViewInv'
  OBVIOUS
<1> DEFINE m  == Head(toHost)
           op == Graphs!Operation(m.type, IF m.type = "rebuild" THEN "rebuild" ELSE "graph", m.scope)
           n  == IF m.type = "cursor" THEN Redirected(op, m.scope) ELSE op
           said == [type |-> "status", status |-> "shown"]
<1>1. /\ toHost \in Seq(Requests) /\ toHost # <<>> /\ toHost' = Tail(toHost) /\ toPage \in Seq(Tellings \cup Drawings)
      /\ UNCHANGED <<graphPanel, page, visible, position, phase, operated, failed>>
      /\ disturbed' = (disturbed \/ (m.type = "cursor" /\ ~position))
      /\ IF m.type = "rebuild" THEN UNCHANGED <<flags, prompted>> ELSE flags' = m.scope /\ prompted' = FALSE
  BY DEF ViewInv, ViewTypes, Graphs!HostReceives, Graphs!FlagsFrom
<1>2. m \in Requests /\ m = toHost[1] /\ toHost' \in Seq(Requests) /\ (Len(toHost) = 1 => toHost' = <<>>)
  <2>1. toHost' \in Seq(Requests) /\ m \in Requests /\ m = toHost[1] /\ Len(toHost') = Len(toHost) - 1
    BY <1>1, HeadTailProperties
  <2> QED
    BY <2>1, EmptySeq
<1>3. IsOperation(op) /\ op.kind = m.type /\ op.step = (IF m.type = "rebuild" THEN "rebuild" ELSE "graph") /\ op.scope = m.scope
  <2>1. Graphs!NoGraph \in PageGraphs
    BY DEF Graphs!NoGraph, Graphs!Graph, PageGraphs, SomeGraphs, AnyScope
  <2> QED
    BY <1>2, <2>1 DEF Graphs!Operation, IsOperation, Operations, Requests
<1>4. \/ operations' = operations \cup {n} /\ toPage' = toPage /\ (m.type = "cursor" => position)
      \/ m.type = "cursor" /\ ~position /\ operations' = operations /\ toPage' = Append(toPage, said)
  BY Zenon DEF Graphs!HostReceives, Graphs!CursorFrom, Graphs!Post, Graphs!Status, Redirected
<1>5. said \in Tellings \cup Drawings /\ StatusOf(said) = "shown"
  BY DEF Tellings, StatusOf
<1> HIDE DEF op, said, m
<1>6. /\ IsOperation(n) /\ n.kind = m.type /\ n.scope = m.scope
      /\ n.step = IF m.type = "rebuild" THEN "rebuild" ELSE "graph"
  <2>1. CASE m.type = "cursor"
    <3>1. m.scope \in AnyScope
      BY <1>2 DEF Requests
    <3> QED
      BY <1>3, <2>1, <3>1, OperationRedirected
  <2>2. CASE m.type # "cursor"
    BY <1>3, <2>2
  <2> QED
    BY <2>1, <2>2
<1> HIDE DEF n
<1>7. graphPanel # 0 /\ m.scope \in AnyScope /\ m.type # "show"
  BY <1>1, <1>2 DEF ViewInv, ClosedIsSilent, Requests
<1>8. CASE m.type = "cursor" /\ ~position /\ operations' = operations /\ toPage' = Append(toPage, said)
  <2>1. toPage' \in Seq(Tellings \cup Drawings) /\ FinalStatus(page', toPage') = "shown"
    BY <1>1, <1>5, <1>8, MessagePosted
  <2>2. ViewTypes'
    BY <1>1, <1>2, <1>7, <1>8, <2>1 DEF ViewInv, ViewTypes
  <2>3. ClosedIsSilent' /\ IndexingEnds' /\ BusyIsAnswered' /\ BoxesAreFollowed'
    BY <1>1, <1>7, <1>8, <2>1 DEF ViewInv, ClosedIsSilent, IndexingEnds, BusyIsAnswered, BoxesAreFollowed
  <2> QED
    BY <2>2, <2>3 DEF ViewInv
<1>9. CASE operations' = operations \cup {n} /\ toPage' = toPage /\ (m.type = "cursor" => position)
  <2>1. ViewTypes'
    BY <1>1, <1>2, <1>6, <1>7, <1>9 DEF ViewInv, ViewTypes
  <2>2. Answers(n, graphPanel)
    BY <1>6, <1>7 DEF Answers
  <2>3. ClosedIsSilent' /\ IndexingEnds' /\ BusyIsAnswered'
    BY <1>1, <1>7, <1>9, <2>2 DEF ViewInv, ClosedIsSilent, IndexingEnds, BusyIsAnswered
  <2>4. ASSUME ~disturbed' PROVE Operating'
    <3>1. Requested
      BY <1>1, <1>7, <2>4, EmptySeq DEF ViewInv, BoxesAreFollowed, Showing, AtRest, Operating
    <3>2. RequestFits(m) /\ operations' = {n} /\ toHost' = <<>> /\ ~GraphComes(toPage')
      BY <1>2, <1>9, <3>1 DEF Requested
    <3>3. PICK k : k = n
      OBVIOUS
    <3>4. AnswerFits(k)'
      BY <1>1, <1>6, <1>7, <3>2, <3>3 DEF AnswerFits, RequestFits
    <3> QED
      BY <3>2, <3>3, <3>4 DEF Operating
  <2> QED
    BY <1>1, <1>7, <2>1, <2>3, <2>4 DEF ViewInv, BoxesAreFollowed
<1> QED
  BY <1>4, <1>8, <1>9

LEMMA PageIsShown == ViewInv /\ Graphs!Show => ViewInv'
<1> SUFFICES ASSUME ViewInv, NEW s \in Scopes, NEW cursor \in BOOLEAN, flags' = s, prompted' = FALSE,
                    operations' = operations \cup {[Graphs!Operation("show", IF position THEN "graph" ELSE "whole", s) EXCEPT !.cursor = cursor /\ position]},
                    disturbed' = (disturbed \/ ~Graphs!Quiet),
                    UNCHANGED <<graphPanel, page, toHost, toPage, visible, position, phase, failed>>
             PROVE  ViewInv'
  BY DEF Graphs!Show
<1> DEFINE op == [Graphs!Operation("show", IF position THEN "graph" ELSE "whole", s) EXCEPT !.cursor = cursor /\ position]
<1>1. IsOperation(op) /\ op.kind = "show" /\ op.step \in {"graph", "whole"} /\ op.scope = s
  <2>1. Graphs!NoGraph \in PageGraphs
    BY DEF Graphs!NoGraph, Graphs!Graph, PageGraphs, SomeGraphs, AnyScope
  <2>2. s \in AnyScope /\ (cursor /\ position) \in BOOLEAN
    BY DEF AnyScope
  <2> QED
    BY <2>1, <2>2 DEF Graphs!Operation, IsOperation, Operations
<1> HIDE DEF op
<1>2. operations' = operations \cup {op}
  BY DEF op
<1>3. ViewTypes'
  BY <1>1, <1>2 DEF ViewInv, ViewTypes, AnyScope
<1>4. ClosedIsSilent' /\ IndexingEnds' /\ BusyIsAnswered'
  BY <1>2 DEF ViewInv, ClosedIsSilent, IndexingEnds, BusyIsAnswered
<1>5. ASSUME ~disturbed' PROVE Showing'
  <2>1. operations = {} /\ toHost = <<>>
    BY <1>5 DEF ViewInv, ViewTypes, Graphs!Quiet
  <2> QED
    BY <1>1, <1>2, <2>1 DEF Showing, ShowFits
<1> QED
  BY <1>3, <1>4, <1>5 DEF ViewInv, BoxesAreFollowed


(* A panel of another number than any that operations were begun on.         *)
LEMMA FreeNumber == ASSUME NEW x PROVE Graphs!Free({x}) # 0
<1>1. \E i \in 1 .. MaxOperations + 1 : i \notin {x}
  <2>1. 1 \in 1 .. MaxOperations + 1 /\ 2 \in 1 .. MaxOperations + 1
    BY PartsAssumption
  <2> QED
    BY <2>1
<1>2. Graphs!Free({x}) \in 1 .. MaxOperations + 1
  BY <1>1, Zenon DEF Graphs!Free
<1> QED
  BY <1>2, PartsAssumption

LEMMA ShowCompletes == ASSUME NEW op \in operations PROVE ViewInv /\ Graphs!ShowEnds(op) => ViewInv'
<1> SUFFICES ASSUME ViewInv, Graphs!ShowEnds(op) PROVE ViewInv'
  OBVIOUS
<1>1. /\ op.step = "stats" /\ op.kind = "show" /\ IsOperation(op) /\ op.graph \in PageGraphs /\ flags \in AnyScope
      /\ UNCHANGED <<toHost, flags, visible, position, phase, operated, failed, prompted>>
  BY DEF ViewInv, ViewTypes, Graphs!ShowEnds, Graphs!Waiting, IsOperation, Operations
<1>2. CASE operations' = Graphs!Others(op) /\ disturbed' = TRUE /\ UNCHANGED <<graphPanel, page, toPage>>
  <2>1. operations' = operations \ {op}
    BY <1>2 DEF Graphs!Others
  <2>2. ~Answers(op, graphPanel)
    BY <1>1 DEF Answers
  <2>3. ViewTypes' /\ ClosedIsSilent' /\ IndexingEnds' /\ BusyIsAnswered'
    BY <1>1, <1>2, <2>1, <2>2 DEF ViewInv, ViewTypes, ClosedIsSilent, IndexingEnds, BusyIsAnswered
  <2> QED
    BY <1>2, <2>3 DEF ViewInv, BoxesAreFollowed
<1> DEFINE old    == IF graphPanel = 0 THEN NoFile ELSE page.active
           chosen == IF old \in op.graph.nodes THEN old ELSE op.graph.focus
           drawn  == IF graphPanel # 0 THEN page.scope ELSE IF chosen # NoFile THEN "neighbors" ELSE "all"
           more   == IF op.cursor THEN {Redirected(op, flags)} ELSE {}
<1>3. CASE /\ graphPanel' = IF graphPanel = 0 THEN Graphs!Free({o.on : o \in operations}) ELSE graphPanel
           /\ page' = [boxes |-> flags, scope |-> drawn, active |-> chosen, graph |-> op.graph, status |-> "shown"]
           /\ toPage' = <<>> /\ operations' = Graphs!Others(op) \cup more /\ UNCHANGED disturbed
  <2>1. chosen \in op.graph.nodes \cup {NoFile} /\ op.graph.nodes \subseteq Nodes
    BY <1>1 DEF PageGraphs, SomeGraphs
  <2>2. drawn \in Renderings
    BY DEF ViewInv, ViewTypes, Pages, Renderings
  <2> HIDE DEF chosen, drawn
  <2>3. /\ page' \in Pages /\ page'.active \in page'.graph.nodes \cup {NoFile} /\ page'.status = "shown"
        /\ page'.boxes = flags /\ page'.graph = op.graph
    BY <1>1, <1>3, <2>1, <2>2 DEF Pages, Statuses
  <2>4. \A n \in more : n = Redirected(op, flags) /\ IsOperation(n) /\ n.kind = "cursor" /\ n.step = "graph" /\ n.scope = flags
    BY <1>1, OperationRedirected
  <2> HIDE DEF more
  <2>5. operations' = (operations \ {op}) \cup more
    BY <1>3 DEF Graphs!Others
  <2>6. ViewTypes'
    BY <1>1, <1>3, <2>3, <2>4, <2>5, EmptySeq DEF ViewInv, ViewTypes
  <2>7. ClosedIsSilent'
    BY <1>1, <1>3, <2>3 DEF ViewInv, ClosedIsSilent
  <2>8. FinalStatus(page', toPage') = "shown"
    BY <1>3, <2>3 DEF FinalStatus
  <2>9. IndexingEnds' /\ BusyIsAnswered'
    BY <1>1, <2>8 DEF ViewInv, IndexingEnds, BusyIsAnswered
  <2>10. ASSUME ~disturbed' PROVE graphPanel' # 0 /\ (AtRest' \/ Operating')
    <3>1. operations = {op} /\ toHost = <<>> /\ ShowFits(op)
      BY <1>1, <1>3, <2>10, OneUnderWay DEF AnswerFits
    <3>2. graphPanel' # 0
      <4>1. {o.on : o \in operations} = {op.on}
        BY <3>1
      <4> QED
        BY <1>3, <4>1, FreeNumber
    <3>3. ~GraphComes(toPage') /\ GraphsHave(toPage', page'.boxes)
      BY <1>3 DEF GraphComes, GraphsHave
    <3>4. page'.graph.scope = page'.boxes /\ flags' = page'.boxes /\ toHost' = <<>>
      BY <1>1, <2>3, <3>1 DEF ShowFits
    <3>5. ASSUME more = {} PROVE AtRest'
      <4>1. operations' = {}
        BY <2>5, <3>1, <3>5
      <4> QED
        BY <3>3, <3>4, <4>1 DEF AtRest, DrawnAs
    <3>6. ASSUME NEW n \in more PROVE Operating'
      <4>1. operations' = {n}
        BY <2>4, <2>5, <3>1, <3>6
      <4>2. AnswerFits(n)'
        BY <2>3, <2>4, <3>4, <3>6, <1>1 DEF AnswerFits
      <4> QED
        BY <3>3, <3>4, <4>1, <4>2 DEF Operating
    <3> QED
      BY <3>2, <3>5, <3>6
  <2> QED
    BY <2>6, <2>7, <2>9, <2>10 DEF ViewInv, BoxesAreFollowed
<1> QED
  BY <1>2, <1>3, Zenon DEF Graphs!ShowEnds, Redirected

LEMMA ServerTells == ViewInv /\ Graphs!ServerState => ViewInv'
<1> SUFFICES ASSUME ViewInv, Graphs!ServerState PROVE ViewInv'
  OBVIOUS
<1> USE DEF ViewInv
<1>1. /\ phase' \in {"indexing", "idle"} /\ toPage \in Seq(Tellings \cup Drawings)
      /\ UNCHANGED <<graphPanel, page, toHost, flags, operations, position, failed, disturbed, prompted>>
  BY DEF ViewTypes, Graphs!ServerState
<1>2. CASE visible' = visible /\ toPage' = toPage /\ (graphPanel = 0 \/ (phase' = "idle" /\ ~visible))
  <2>1. ViewTypes' /\ ClosedIsSilent'
    BY <1>1, <1>2 DEF ViewTypes, ClosedIsSilent
  <2>2. ~visible /\ IndexingEnds' /\ BusyIsAnswered'
    BY <1>1, <1>2 DEF ClosedIsSilent, IndexingEnds, BusyIsAnswered
  <2>3. BoxesAreFollowed'
    BY <1>1, <1>2 DEF BoxesAreFollowed, Showing, ShowFits, AtRest, DrawnAs, Requested, RequestFits, Operating, AnswerFits
  <2> QED
    BY <2>1, <2>2, <2>3
<1>3. ASSUME graphPanel # 0, NEW s \in {"shown", "indexing"}, visible' = (s = "indexing"), s = "indexing" => phase' = "indexing",
             toPage' = Append(toPage, Graphs!Status(s))
      PROVE  ViewInv'
  <2> DEFINE m == Graphs!Status(s)
  <2>1. m \in Tellings \cup Drawings /\ StatusOf(m) = s /\ m.type = "status"
    BY DEF Tellings, StatusOf, Graphs!Status
  <2> HIDE DEF m
  <2>2. /\ toPage' \in Seq(Tellings \cup Drawings) /\ FinalStatus(page', toPage') = s
        /\ (GraphComes(toPage') <=> GraphComes(toPage)) /\ \A b : GraphsHave(toPage, b) => GraphsHave(toPage', b)
    <3>1. toPage' = Append(toPage, m)
      BY <1>3 DEF m
    <3> QED
      BY <1>1, <2>1, <3>1, MessagePosted
  <2>3. ViewTypes' /\ ClosedIsSilent'
    BY <1>1, <1>3, <2>2 DEF ViewTypes, ClosedIsSilent
  <2>4. IndexingEnds' /\ BusyIsAnswered'
    BY <1>3, <2>2 DEF IndexingEnds, BusyIsAnswered
  <2>5. BoxesAreFollowed'
    BY <1>1, <2>2 DEF BoxesAreFollowed, Showing, ShowFits, AtRest, DrawnAs, Requested, RequestFits, Operating, AnswerFits
  <2> QED
    BY <2>3, <2>4, <2>5
<1>4. \/ visible' = visible /\ toPage' = toPage /\ (graphPanel = 0 \/ (phase' = "idle" /\ ~visible))
      \/ graphPanel # 0 /\ phase' = "indexing" /\ visible' = TRUE /\ toPage' = Append(toPage, Graphs!Status("indexing"))
      \/ graphPanel # 0 /\ phase' = "idle" /\ visible' = FALSE /\ toPage' = Append(toPage, Graphs!Status("shown"))
  BY DEF Graphs!ServerState, Graphs!Post
<1> QED
  BY <1>2, <1>3, <1>4

LEMMA ViewNext == ViewInv /\ [Graphs!Next]_graphVars => ViewInv'
<1> SUFFICES ASSUME ViewInv, [Graphs!Next]_graphVars PROVE ViewInv'
  OBVIOUS
<1>1. CASE UNCHANGED graphVars
  BY <1>1 DEF graphVars, ViewInv, ViewTypes, ClosedIsSilent, IndexingEnds, BusyIsAnswered, BoxesAreFollowed, Showing, ShowFits,
              AtRest, DrawnAs, Requested, RequestFits, Operating, AnswerFits
<1>2. CASE Graphs!Next
  BY <1>2, Toggles, Asks, Selects, PageReceives, HostReceives, GraphIsAnswered, WholeIsAnswered, StatsAreAnswered, RebuildEnds, Fails,
     ShowCompletes, PageIsShown, Shuts, Prompts, Remembers, ServerTells DEF Graphs!Next
<1> QED
  BY <1>1, <1>2

(* Once nothing is under way, the graph's page waits for nothing and shows   *)
(* what its boxes say, unless something crossed or failed                    *)
(* (ProjectGraphExporter).                                                   *)
THEOREM BoxesAreShown == PartsSpec => []ShowsWhatBoxesSay
<1>1. PartsInit => ViewInv
  BY ViewInit DEF PartsInit
<1>2. ViewInv /\ [PartsNext]_allVars => ViewInv'
  <2> SUFFICES ASSUME ViewInv, [PartsNext]_allVars PROVE ViewInv'
    OBVIOUS
  <2>1. [Graphs!Next]_graphVars
    BY DEF PartsNext, allVars, graphVars
  <2> QED
    BY <2>1, ViewNext
<1>3. ViewInv => ShowsWhatBoxesSay
  <2> SUFFICES ASSUME ViewInv, graphPanel # 0, Graphs!Quiet
               PROVE  /\ page.status = "busy" => failed
                      /\ page.status = "indexing" => phase = "indexing"
                      /\ page.active \in page.graph.nodes \cup {NoFile}
                      /\ disturbed \/ page.graph.scope = page.boxes
    BY DEF ShowsWhatBoxesSay, Graphs!ShowsWhatBoxesSay
  <2>1. operations = {} /\ toHost = <<>> /\ toPage = <<>> /\ FinalStatus(page, toPage) = page.status
    BY DEF Graphs!Quiet, FinalStatus
  <2>2. (page.status = "busy" => failed) /\ (page.status = "indexing" => phase = "indexing")
    BY <2>1 DEF ViewInv, BusyIsAnswered, IndexingEnds
  <2>3. page.active \in page.graph.nodes \cup {NoFile}
    BY DEF ViewInv, ViewTypes
  <2>4. ASSUME ~disturbed PROVE page.graph.scope = page.boxes
    <3>1. AtRest
      BY <2>1, <2>4, EmptySeq DEF ViewInv, BoxesAreFollowed, Showing, Requested, Operating
    <3> QED
      BY <2>1, <3>1 DEF AtRest, DrawnAs, GraphComes
  <2> QED
    BY <2>2, <2>3, <2>4
<1> QED
  BY <1>1, <1>2, <1>3, PTL DEF PartsSpec
-----------------------------------------------------------------------------
(***************************************************************************)
(* The call hierarchy.  A list is of a set if it has its elements, each    *)
(* once.                                                                   *)
(***************************************************************************)
Lists(s, S) ==
  /\ s \in Seq(S) /\ Len(s) \in Nat
  /\ \A x \in S : HasElement(s, x)
  /\ \A i, j \in 1 .. Len(s) : s[i] = s[j] => i = j

LEMMA HierarchyFlattens == ASSUME NEW p PROVE Hierarchy!FlattenSeq(p) = FlattenSeq(p)
BY Zenon DEF Hierarchy!FlattenSeq, FlattenSeq

LEMMA HierarchyLists == ASSUME NEW S PROVE Hierarchy!SetToSeq(S) = SetToSeq(S)
BY Zenon DEF Hierarchy!SetToSeq, SetToSeq, Hierarchy!IsInjective, IsInjective, Hierarchy!Cardinality, Cardinality

LEMMA ListsElements ==
  ASSUME NEW S, NEW s, Lists(s, S)
  PROVE  /\ DOMAIN s = 1 .. Len(s) /\ Hierarchy!ToSet(s) = S /\ Hierarchy!IsInjective(s)
         /\ \A i \in 1 .. Len(s) : s[i] \in S
<1>1. s \in Seq(S) /\ Len(s) \in Nat
  BY DEF Lists
<1>2. DOMAIN s = 1 .. Len(s) /\ \A i \in 1 .. Len(s) : s[i] \in S
  BY <1>1, LenProperties, ElementOfSeq
<1>3. Hierarchy!ToSet(s) = S
  BY <1>2 DEF Lists, HasElement, Hierarchy!ToSet
<1>4. Hierarchy!IsInjective(s)
  BY <1>2 DEF Lists, Hierarchy!IsInjective
<1> QED
  BY <1>2, <1>3, <1>4

LEMMA ListsNone == Lists(<<>>, {})
BY EmptySeq DEF Lists

LEMMA ListsFromFunction ==
  ASSUME NEW n \in Nat, NEW S, NEW s \in [1 .. n -> S], \A x \in S : \E i \in 1 .. n : s[i] = x,
         \A i, j \in 1 .. n : s[i] = s[j] => i = j
  PROVE  Lists(s, S) /\ Len(s) = n
<1>1. s \in Seq(S) /\ Len(s) = n
  BY ListIs
<1> QED
  BY <1>1 DEF Lists, HasElement

LEMMA ListsSet == ASSUME NEW S, IsFiniteSet(S) PROVE Lists(Hierarchy!SetToSeq(S), S)
<1>1. Hierarchy!SetToSeq(S) = SetToSeq(S)
  BY HierarchyLists
<1>2. /\ Cardinality(S) \in Nat /\ SetToSeq(S) \in [1 .. Cardinality(S) -> S]
      /\ \A i, j \in 1 .. Cardinality(S) : SetToSeq(S)[i] = SetToSeq(S)[j] => i = j
      /\ \A x \in S : \E i \in 1 .. Cardinality(S) : SetToSeq(S)[i] = x
  BY SetListed
<1> QED
  BY <1>1, <1>2, ListsFromFunction

LEMMA ListsJoined ==
  ASSUME NEW S, NEW s, Lists(s, S), NEW T, NEW t, Lists(t, T), S \cap T = {}
  PROVE  Lists(s \o t, S \cup T)
<1>1. /\ s \in Seq(S) /\ t \in Seq(T) /\ Len(s) \in Nat /\ Len(t) \in Nat
      /\ \A i \in 1 .. Len(s) : s[i] \in S
      /\ \A i \in 1 .. Len(t) : t[i] \in T
  BY ListsElements DEF Lists
<1>2. s \in Seq(S \cup T) /\ t \in Seq(S \cup T)
  BY <1>1
<1>3. /\ s \o t \in Seq(S \cup T) /\ Len(s \o t) = Len(s) + Len(t)
      /\ \A i \in 1 .. Len(s) + Len(t) : (s \o t)[i] = IF i <= Len(s) THEN s[i] ELSE t[i - Len(s)]
  BY <1>2, ConcatProperties
<1>4. ASSUME NEW x \in S \cup T PROVE HasElement(s \o t, x)
  <2>1. CASE x \in S
    <3>1. PICK i \in 1 .. Len(s) : s[i] = x
      BY <2>1 DEF Lists, HasElement
    <3>2. i \in 1 .. Len(s \o t) /\ (s \o t)[i] = x
      BY <1>1, <1>3, <3>1
    <3> QED
      BY <3>2 DEF HasElement
  <2>2. CASE x \in T
    <3>1. PICK i \in 1 .. Len(t) : t[i] = x
      BY <2>2 DEF Lists, HasElement
    <3>2. i + Len(s) \in 1 .. Len(s \o t) /\ (s \o t)[i + Len(s)] = x
      BY <1>1, <1>3, <3>1
    <3> QED
      BY <3>2 DEF HasElement
  <2> QED
    BY <2>1, <2>2
<1>5. ASSUME NEW i \in 1 .. Len(s \o t), NEW j \in 1 .. Len(s \o t), (s \o t)[i] = (s \o t)[j] PROVE i = j
  <2>1. CASE i <= Len(s) /\ j <= Len(s)
    BY <2>1, <1>1, <1>3, <1>5 DEF Lists
  <2>2. CASE i <= Len(s) /\ j > Len(s)
    <3>1. s[i] \in S /\ t[j - Len(s)] \in T /\ s[i] = t[j - Len(s)]
      BY <2>2, <1>1, <1>3, <1>5
    <3> QED
      BY <3>1
  <2>3. CASE i > Len(s) /\ j <= Len(s)
    <3>1. s[j] \in S /\ t[i - Len(s)] \in T /\ s[j] = t[i - Len(s)]
      BY <2>3, <1>1, <1>3, <1>5
    <3> QED
      BY <3>1
  <2>4. CASE i > Len(s) /\ j > Len(s)
    <3>1. i - Len(s) \in 1 .. Len(t) /\ j - Len(s) \in 1 .. Len(t) /\ t[i - Len(s)] = t[j - Len(s)]
      BY <2>4, <1>1, <1>3, <1>5
    <3>2. i - Len(s) = j - Len(s)
      BY <3>1 DEF Lists
    <3> QED
      BY <3>2, <1>1, <1>3
  <2> QED
    BY <2>1, <2>2, <2>3, <2>4, <1>1, <1>3
<1> QED
  BY <1>1, <1>3, <1>4, <1>5 DEF Lists

LEMMA ListsKept ==
  ASSUME NEW S, NEW s, Lists(s, S), NEW P \in SUBSET (1 .. Len(s))
  PROVE  Lists(Hierarchy!Kept(s, P), {s[i] : i \in P})
<1> DEFINE places == Listed(P, Len(s))
<1>1. Len(s) \in Nat /\ DOMAIN s = 1 .. Len(s) /\ \A i, j \in 1 .. Len(s) : s[i] = s[j] => i = j
  BY ListsElements DEF Lists
<1>2. IsListed(places, P, Len(s))
  BY <1>1, ListedInOrder
<1>3. Hierarchy!InOrder(P, Len(s)) = places
  BY HierarchyFlattens, Zenon DEF Hierarchy!InOrder, Listed
<1> HIDE DEF places
<1>4. /\ Len(places) \in Nat /\ DOMAIN places = 1 .. Len(places)
      /\ \A i \in 1 .. Len(places) : places[i] \in P /\ places[i] \in 1 .. Len(s)
      /\ \A x \in P : \E i \in 1 .. Len(places) : places[i] = x
      /\ \A i, j \in 1 .. Len(places) : i < j => places[i] < places[j]
  <2>1. places \in Seq(1 .. Len(s)) /\ Len(places) \in Nat
    BY <1>2 DEF IsListed
  <2>2. DOMAIN places = 1 .. Len(places) /\ \A i \in 1 .. Len(places) : places[i] \in 1 .. Len(s)
    BY <2>1, LenProperties, ElementOfSeq
  <2>3. \A i \in 1 .. Len(places) : places[i] \in P
    BY <2>2, <1>2 DEF IsListed, HasElement
  <2>4. \A x \in P : \E i \in 1 .. Len(places) : places[i] = x
    BY <1>2 DEF IsListed, HasElement
  <2> QED
    BY <2>1, <2>2, <2>3, <2>4, <1>2 DEF IsListed
<1>5. Hierarchy!Kept(s, P) = [i \in 1 .. Len(places) |-> s[places[i]]]
  BY <1>3, <1>4 DEF Hierarchy!Kept
<1>6. [i \in 1 .. Len(places) |-> s[places[i]]] \in [1 .. Len(places) -> {s[i] : i \in P}]
  BY <1>4
<1>7. \A i, j \in 1 .. Len(places) : s[places[i]] = s[places[j]] => i = j
  <2> SUFFICES ASSUME NEW i \in 1 .. Len(places), NEW j \in 1 .. Len(places), s[places[i]] = s[places[j]] PROVE i = j
    OBVIOUS
  <2>1. places[i] = places[j]
    BY <1>1, <1>4
  <2>2. ~(i < j) /\ ~(j < i)
    BY <2>1, <1>4
  <2> QED
    BY <2>2, <1>4
<1>8. \A x \in {s[i] : i \in P} : \E i \in 1 .. Len(places) : s[places[i]] = x
  BY <1>4
<1> DEFINE list == [i \in 1 .. Len(places) |-> s[places[i]]]
<1>9. /\ \A x \in {s[i] : i \in P} : \E i \in 1 .. Len(places) : list[i] = x
      /\ \A i, j \in 1 .. Len(places) : list[i] = list[j] => i = j
  BY <1>7, <1>8
<1> HIDE DEF list
<1>10. Lists(list, {s[i] : i \in P})
  BY <1>4, <1>6, <1>9, ListsFromFunction DEF list
<1> QED
  BY <1>5, <1>10 DEF list

LEMMA ListsFlat ==
  ASSUME NEW n \in Nat, NEW p, DOMAIN p = 1 .. n, p = [i \in 1 .. n |-> p[i]], NEW F, \A i \in 1 .. n : Lists(p[i], F[i]),
         \A i, j \in 1 .. n : i # j => F[i] \cap F[j] = {}
  PROVE  Lists(Hierarchy!FlattenSeq(p), UNION {F[i] : i \in 1 .. n})
<1> DEFINE X == UNION {F[i] : i \in 1 .. n}
           Up(k) == UNION {F[i] : i \in 1 .. k}
<1>1. \A i \in 1 .. n : p[i] \in Seq(X)
  <2> TAKE i \in 1 .. n
  <2>1. p[i] \in Seq(F[i]) /\ F[i] \subseteq X
    BY DEF Lists
  <2> QED
    BY <2>1
<1>2. p \in Seq(Seq(X)) /\ Len(p) = n
  <2>1. p \in [1 .. n -> Seq(X)]
    BY <1>1
  <2> QED
    BY <2>1, ListIs
<1> HIDE DEF X
<1>3. PICK J : Joined(J, p, X) /\ FlattenSeq(p) = J[Len(p)]
  BY <1>2, FlattenSteps
<1> DEFINE T == {k \in 0 .. n : Lists(J[k], Up(k))}
<1>8. Up(0) = {}
  OBVIOUS
<1>9. \A k \in 0 .. n - 1 : Up(k + 1) = Up(k) \cup F[k + 1] /\ Up(k) \cap F[k + 1] = {}
  <2> TAKE k \in 0 .. n - 1
  <2>1. 1 .. k + 1 = (1 .. k) \cup {k + 1} /\ \A i \in 1 .. k : F[i] \cap F[k + 1] = {}
    OBVIOUS
  <2> QED
    BY <2>1
<1>10. Up(n) = UNION {F[i] : i \in 1 .. n}
  OBVIOUS
<1> HIDE DEF Up
<1>4. 0 \in T
  <2>1. J[0] = <<>> /\ 0 \in 0 .. n
    BY <1>3 DEF Joined
  <2> QED
    BY <2>1, <1>8, ListsNone
<1>5. \A k \in 0 .. n - 1 : k \in T => k + 1 \in T
  <2> SUFFICES ASSUME NEW k \in 0 .. n - 1, Lists(J[k], Up(k)) PROVE Lists(J[k + 1], Up(k + 1))
    OBVIOUS
  <2>1. k + 1 \in 1 .. n /\ J[k + 1] = J[k] \o p[k + 1]
    <3>1. k + 1 \in 1 .. n /\ (k + 1) - 1 = k
      OBVIOUS
    <3>2. J[k + 1] = J[(k + 1) - 1] \o p[k + 1]
      BY <1>2, <1>3, <3>1 DEF Joined
    <3> QED
      BY <3>1, <3>2
  <2>2. Lists(J[k] \o p[k + 1], Up(k) \cup F[k + 1])
    BY <2>1, <1>9, ListsJoined
  <2> QED
    BY <2>1, <2>2, <1>9
<1>6. \A k \in 0 .. n : k \in T
  <2> HIDE DEF T
  <2> QED
    BY ONLY n \in Nat, <1>4, <1>5, NumbersUpTo, Zenon
<1>7. Lists(J[n], Up(n))
  BY <1>6
<1> QED
  BY <1>2, <1>3, <1>7, <1>10, HierarchyFlattens

LEMMA ListsRest ==
  ASSUME NEW S, NEW s, Lists(s, S), NEW e \in 0 .. Len(s)
  PROVE  Lists(SubSeq(s, e + 1, Len(s)), {s[i] : i \in e + 1 .. Len(s)})
<1> DEFINE n == Len(s) - e
           t == SubSeq(s, e + 1, Len(s))
<1>1. Len(s) \in Nat /\ n \in Nat /\ e \in Nat /\ \A i \in 1 .. Len(s) : s[i] \in S
  BY ListsElements DEF Lists
<1>2. t \in Seq(S) /\ Len(t) = n /\ \A i \in 1 .. n : t[i] = s[i + e]
  <2>1. /\ t \in Seq(S) /\ Len(t) = IF e + 1 <= Len(s) THEN Len(s) - (e + 1) + 1 ELSE 0
        /\ \A i \in 1 .. Len(s) - (e + 1) + 1 : t[i] = s[e + 1 + i - 1]
    <3>1. e + 1 \in Int /\ Len(s) \in Int /\ \A i \in e + 1 .. Len(s) : s[i] \in S
      BY <1>1
    <3> QED
      BY <3>1, SubSeqProperties
  <2> HIDE DEF t
  <2>2. n = Len(s) - (e + 1) + 1 /\ \A i \in 1 .. n : e + 1 + i - 1 = i + e
    BY <1>1
  <2>3. e + 1 <= Len(s) \/ n = 0
    BY <1>1
  <2> QED
    BY <1>1, <2>1, <2>2, <2>3
<1> HIDE DEF t
<1>3. t \in [1 .. n -> {s[i] : i \in e + 1 .. Len(s)}]
  <2>1. t = [i \in 1 .. n |-> t[i]]
    BY <1>2, LenProperties
  <2>2. \A i \in 1 .. n : i + e \in e + 1 .. Len(s) /\ t[i] = s[i + e]
    BY <1>1, <1>2
  <2> QED
    BY <2>1, <2>2
<1>4. \A x \in {s[i] : i \in e + 1 .. Len(s)} : \E i \in 1 .. n : t[i] = x
  <2> SUFFICES ASSUME NEW i \in e + 1 .. Len(s) PROVE \E j \in 1 .. n : t[j] = s[i]
    OBVIOUS
  <2>1. i - e \in 1 .. n /\ t[i - e] = s[i]
    BY <1>1, <1>2
  <2> QED
    BY <2>1
<1>5. \A i, j \in 1 .. n : t[i] = t[j] => i = j
  <2> SUFFICES ASSUME NEW i \in 1 .. n, NEW j \in 1 .. n, t[i] = t[j] PROVE i = j
    OBVIOUS
  <2>1. i + e \in 1 .. Len(s) /\ j + e \in 1 .. Len(s) /\ s[i + e] = s[j + e]
    BY <1>1, <1>2
  <2>2. i + e = j + e
    BY <2>1 DEF Lists
  <2> QED
    BY <2>2, <1>1
<1> QED
  BY <1>1, <1>3, <1>4, <1>5, ListsFromFunction DEF t

(* An index of the calls X by the keys K has for every key the calls of it. *)
IndexedBy(K, lists, X) ==
  /\ \A k \in DOMAIN lists : Lists(lists[k], {s \in X : K[s] = k})
  /\ \A s \in X : K[s] \in DOMAIN lists

LEMMA IndexAnswers ==
  ASSUME NEW K, NEW lists, NEW X, IndexedBy(K, lists, X), NEW k
  PROVE  Lists(Hierarchy!SitesAt(lists, k), {s \in X : K[s] = k})
<1>1. CASE k \in DOMAIN lists
  BY <1>1 DEF Hierarchy!SitesAt, IndexedBy
<1>2. CASE k \notin DOMAIN lists
  <2>1. {s \in X : K[s] = k} = {}
    BY <1>2 DEF IndexedBy
  <2>2. Hierarchy!SitesAt(lists, k) = <<>>
    BY <1>2 DEF Hierarchy!SitesAt
  <2> QED
    BY <2>1, <2>2, ListsNone
<1> QED
  BY <1>1, <1>2

Keyed(K, X, k) == {s \in X : K[s] = k}

LEMMA IndexAnswersAll ==
  ASSUME NEW K, NEW lists, NEW X, IndexedBy(K, lists, X), NEW k
  PROVE  Hierarchy!ToSet(Hierarchy!SitesAt(lists, k)) = Keyed(K, X, k)
<1>1. Lists(Hierarchy!SitesAt(lists, k), Keyed(K, X, k))
  BY IndexAnswers DEF Keyed
<1> QED
  BY <1>1, ListsElements

\* An index with the calls U that u lists.
Grown(K, lists, U, u) ==
  [k \in DOMAIN lists \cup {K[s] : s \in U} |->
     Hierarchy!SitesAt(lists, k) \o Hierarchy!Kept(u, {i \in 1 .. Len(u) : K[u[i]] = k})]

LEMMA IndexGrows ==
  ASSUME NEW K, NEW lists, NEW X, IndexedBy(K, lists, X), NEW U, NEW u, Lists(u, U), X \cap U = {}
  PROVE  IndexedBy(K, Grown(K, lists, U, u), X \cup U)
<1> DEFINE next == Grown(K, lists, U, u)
<1>1. /\ DOMAIN next = DOMAIN lists \cup {K[s] : s \in U}
      /\ \A k \in DOMAIN next :
           next[k] = Hierarchy!SitesAt(lists, k) \o Hierarchy!Kept(u, {i \in 1 .. Len(u) : K[u[i]] = k})
  BY DEF Grown
<1> HIDE DEF next
<1>2. ASSUME NEW k \in DOMAIN next PROVE Lists(next[k], {s \in X \cup U : K[s] = k})
  <2> DEFINE P == {i \in 1 .. Len(u) : K[u[i]] = k}
             A == {s \in X : K[s] = k}
             B == {u[i] : i \in P}
  <2>1. Lists(Hierarchy!SitesAt(lists, k), A)
    BY IndexAnswers
  <2>2. Lists(Hierarchy!Kept(u, P), B)
    <3>1. P \in SUBSET (1 .. Len(u))
      OBVIOUS
    <3> HIDE DEF P
    <3> QED
      BY <3>1, ListsKept
  <2>3. B = {s \in U : K[s] = k}
    <3>1. \A i \in 1 .. Len(u) : u[i] \in U
      BY ListsElements
    <3>2. \A s \in U : \E i \in 1 .. Len(u) : u[i] = s
      BY DEF Lists, HasElement
    <3> QED
      BY <3>1, <3>2
  <2>4. A \cap B = {} /\ A \cup B = {s \in X \cup U : K[s] = k}
    BY <2>3
  <2>5. next[k] = Hierarchy!SitesAt(lists, k) \o Hierarchy!Kept(u, P)
    BY <1>1
  <2> HIDE DEF A, B, P
  <2>6. Lists(Hierarchy!SitesAt(lists, k) \o Hierarchy!Kept(u, P), A \cup B)
    BY <2>1, <2>2, <2>4, ListsJoined
  <2> QED
    BY <2>4, <2>5, <2>6
<1>3. \A s \in X \cup U : K[s] \in DOMAIN next
  BY <1>1 DEF IndexedBy
<1> QED
  BY <1>2, <1>3 DEF IndexedBy, next

\* The calls of other files.
OfOthers(X, f) == {s \in X : s.file # f}

(* Where a file is taken out of the lists it is noted under. *)
LEMMA IndexForgets ==
  ASSUME NEW K, NEW lists, NEW X, IndexedBy(K, lists, X), NEW keys, NEW f, \A s \in X : s.file = f => K[s] \in keys
  PROVE  IndexedBy(K, Hierarchy!Without(lists, keys, f), OfOthers(X, f))
<1> DEFINE Y == {s \in X : s.file # f}
           P(k) == {i \in DOMAIN lists[k] : lists[k][i].file # f}
           rest == [k \in DOMAIN lists |-> IF k \in keys THEN Hierarchy!Kept(lists[k], P(k)) ELSE lists[k]]
           next == [k \in {j \in DOMAIN lists : rest[j] # <<>>} |-> rest[k]]
<1>1. Hierarchy!Without(lists, keys, f) = next
  BY Zenon DEF Hierarchy!Without
<1>2. ASSUME NEW k \in DOMAIN lists PROVE Lists(rest[k], {s \in Y : K[s] = k})
  <2>1. Lists(lists[k], {s \in X : K[s] = k})
    BY DEF IndexedBy
  <2>2. CASE k \in keys
    <3>1. P(k) \in SUBSET (1 .. Len(lists[k]))
      BY <2>1, ListsElements
    <3>2. {lists[k][i] : i \in P(k)} = {s \in Y : K[s] = k}
      <4>1. /\ DOMAIN lists[k] = 1 .. Len(lists[k])
            /\ \A i \in 1 .. Len(lists[k]) : lists[k][i] \in {s \in X : K[s] = k}
        BY <2>1, ListsElements
      <4>2. \A s \in {s \in X : K[s] = k} : \E i \in 1 .. Len(lists[k]) : lists[k][i] = s
        BY <2>1 DEF Lists, HasElement
      <4> QED
        BY <4>1, <4>2
    <3> HIDE DEF P
    <3>3. Lists(Hierarchy!Kept(lists[k], P(k)), {lists[k][i] : i \in P(k)})
      BY <2>1, <3>1, ListsKept
    <3>4. rest[k] = Hierarchy!Kept(lists[k], P(k))
      BY <2>2
    <3> HIDE DEF rest, Y
    <3> QED
      BY <3>2, <3>3, <3>4
  <2>3. CASE k \notin keys
    <3>1. {s \in Y : K[s] = k} = {s \in X : K[s] = k} /\ rest[k] = lists[k]
      BY <2>3
    <3> QED
      BY <2>1, <3>1
  <2> QED
    BY <2>2, <2>3
<1>3. ASSUME NEW s \in Y PROVE K[s] \in DOMAIN lists /\ rest[K[s]] # <<>>
  <2>1. K[s] \in DOMAIN lists
    BY DEF IndexedBy
  <2>2. Lists(rest[K[s]], {t \in Y : K[t] = K[s]})
    BY <1>2, <2>1
  <2> HIDE DEF rest
  <2>3. HasElement(rest[K[s]], s)
    BY <2>2 DEF Lists
  <2> QED
    BY <2>1, <2>3, EmptySeq DEF HasElement
<1> HIDE DEF rest, Y
<1>4. DOMAIN next = {j \in DOMAIN lists : rest[j] # <<>>} /\ \A k \in DOMAIN next : next[k] = rest[k]
  OBVIOUS
<1> HIDE DEF next
<1>5. IndexedBy(K, next, Y)
  BY <1>2, <1>3, <1>4 DEF IndexedBy
<1> QED
  BY <1>1, <1>5 DEF Y, OfOthers

(* Where lists go that have only calls of one file. *)
Unlisted(lists, keys) == [k \in DOMAIN lists \ keys |-> lists[k]]

LEMMA IndexDrops ==
  ASSUME NEW K, NEW lists, NEW X, IndexedBy(K, lists, X), NEW keys, NEW f,
         \A s \in X : s.file = f => K[s] \in keys, \A s \in X : K[s] \in keys => s.file = f
  PROVE  IndexedBy(K, Unlisted(lists, keys), OfOthers(X, f))
<1> DEFINE next == Unlisted(lists, keys)
<1>1. DOMAIN next = DOMAIN lists \ keys /\ \A k \in DOMAIN next : next[k] = lists[k]
  BY DEF Unlisted
<1>2. \A k \in DOMAIN next : {s \in {s \in X : s.file # f} : K[s] = k} = {s \in X : K[s] = k}
  BY <1>1
<1> HIDE DEF next
<1>3. IndexedBy(K, next, {s \in X : s.file # f})
  BY <1>1, <1>2 DEF IndexedBy
<1> QED
  BY <1>3 DEF next, OfOthers

\* The texts are among those that the files may have.
TextsFit == form \in [CallFiles -> UNION {CallTexts[f] : f \in CallFiles}] /\ \A f \in CallFiles : form[f] \in CallTexts[f]

\* The calls of a file and of files, as the index has them.
SitesFrom(f) == Hierarchy!ToSet(Hierarchy!SitesOf(f))
SitesIn(F) == UNION {SitesFrom(f) : f \in F}

CallRecords ==
  [at : Nat, caller : STRING, container : STRING \cup {NoFile}, name : STRING, mod : BOOLEAN,
   qualifier : STRING \cup {NoFile}, resolves : (CallFiles \X (STRING \cup {NoFile}) \X STRING) \cup {NoFile}]

(* A call in the index, its name and its caller. *)
SiteRecords ==
  [at : Nat, name : STRING, qualifier : STRING \cup {NoFile}, file : CallFiles, caller : STRING, mod : BOOLEAN,
   container : STRING \cup {NoFile}, target : (CallFiles \X (STRING \cup {NoFile}) \X STRING) \cup {NoFile}]
NamesOf == [s \in SiteRecords |-> s.name]
KeysOf == [s \in SiteRecords |-> Hierarchy!KeyOf(s)]

LEMMA CallsAreApart ==
  ASSUME TextsFit, NEW f \in CallFiles
  PROVE  /\ Hierarchy!Calls(f) \in Seq(CallRecords)
         /\ \A i, j \in 1 .. Len(Hierarchy!Calls(f)) : Hierarchy!Calls(f)[i].at = Hierarchy!Calls(f)[j].at => i = j
<1>1. CASE form[f] = NoFile
  <2>1. Hierarchy!Calls(f) = <<>>
    BY <1>1 DEF Hierarchy!Calls
  <2> QED
    BY <2>1, EmptySeq
<1>2. CASE form[f] # NoFile
  <2>1. form[f] \in CallTexts[f] \ {NoFile}
    BY <1>2 DEF TextsFit
  <2>2. /\ form[f].calls \in Seq(CallRecords)
        /\ \A i, j \in DOMAIN form[f].calls : form[f].calls[i].at = form[f].calls[j].at => i = j
    BY <2>1, CallAssumption DEF CallRecords
  <2>3. Hierarchy!Calls(f) = form[f].calls
    BY <1>2 DEF Hierarchy!Calls
  <2> QED
    BY <2>2, <2>3, LenProperties
<1> QED
  BY <1>1, <1>2

LEMMA SitesAreListed ==
  ASSUME TextsFit, NEW f \in CallFiles
  PROVE  /\ Lists(Hierarchy!SitesOf(f), SitesFrom(f))
         /\ SitesFrom(f) \subseteq SiteRecords
         /\ \A s \in SitesFrom(f) : s.file = f
         /\ form[f] = NoFile => SitesFrom(f) = {}
         /\ \A s, t \in SitesFrom(f) : s.at = t.at => s = t
<1> DEFINE c == Hierarchy!Calls(f)
           n == Len(c)
           all == [i \in DOMAIN c |-> Hierarchy!Site(f, c[i])]
           M == {i \in DOMAIN all : all[i].mod}
           X == {all[i] : i \in 1 .. n}
<1>1. c \in Seq(CallRecords) /\ \A i, j \in 1 .. n : c[i].at = c[j].at => i = j
  BY CallsAreApart
<1>2. n \in Nat /\ DOMAIN c = 1 .. n
  BY <1>1, LenProperties
<1>3. \A i \in 1 .. n : all[i].at = c[i].at /\ all[i].file = f
  BY <1>2 DEF Hierarchy!Site
<1>13. \A i \in 1 .. n : all[i] \in SiteRecords
  <2> TAKE i \in 1 .. n
  <2>1. c[i] \in CallRecords
    BY <1>1, <1>2, ElementOfSeq
  <2>2. all[i] = Hierarchy!Site(f, c[i])
    BY <1>2
  <2> HIDE DEF c, all
  <2> QED
    BY <2>1, <2>2 DEF CallRecords, SiteRecords, Hierarchy!Site
<1>4. Hierarchy!SitesOf(f) = Hierarchy!Kept(all, M) \o Hierarchy!Kept(all, DOMAIN all \ M)
  BY Zenon DEF Hierarchy!SitesOf
<1>5. form[f] = NoFile => n = 0
  <2>1. form[f] = NoFile => c = <<>>
    BY DEF Hierarchy!Calls
  <2> QED
    BY <2>1, EmptySeq
<1>6. DOMAIN all = 1 .. n /\ all \in [1 .. n -> X]
  BY <1>2
<1> HIDE DEF c, n, all
<1>14. \A s, t \in X : s.at = t.at => s = t
  <2> SUFFICES ASSUME NEW i \in 1 .. n, NEW j \in 1 .. n, all[i].at = all[j].at PROVE all[i] = all[j]
    OBVIOUS
  <2>1. i = j
    BY <1>1, <1>3
  <2> QED
    BY <2>1
<1>7. Lists(all, X) /\ Len(all) = n
  <2>1. \A i, j \in 1 .. n : all[i] = all[j] => i = j
    BY <1>1, <1>3
  <2>2. \A x \in X : \E i \in 1 .. n : all[i] = x
    OBVIOUS
  <2> QED
    BY <1>2, <1>6, <2>1, <2>2, ListsFromFunction
<1>8. M \in SUBSET (1 .. Len(all)) /\ DOMAIN all \ M \in SUBSET (1 .. Len(all))
  BY <1>6, <1>7
<1> DEFINE A == {all[i] : i \in M}
           B == {all[i] : i \in DOMAIN all \ M}
<1>9. A \cap B = {} /\ A \cup B = X
  <2>1. \A i \in M, j \in DOMAIN all \ M : all[i] # all[j]
    BY <1>7, <1>8, <1>6 DEF Lists
  <2> QED
    BY <2>1, <1>6
<1> HIDE DEF M
<1>10. Lists(Hierarchy!Kept(all, M), A) /\ Lists(Hierarchy!Kept(all, DOMAIN all \ M), B)
  BY <1>7, <1>8, ListsKept
<1> HIDE DEF A, B
<1>11. Lists(Hierarchy!SitesOf(f), X)
  <2>1. Lists(Hierarchy!Kept(all, M) \o Hierarchy!Kept(all, DOMAIN all \ M), A \cup B)
    BY <1>9, <1>10, ListsJoined
  <2> QED
    BY <1>4, <1>9, <2>1
<1>12. SitesFrom(f) = X
  BY <1>11, ListsElements DEF SitesFrom
<1> QED
  BY <1>3, <1>5, <1>11, <1>12, <1>13, <1>14

LEMMA ReachedInSteps ==
  ASSUME TextsFit
  PROVE  /\ \A n \in 0 .. Cardinality(CallFiles), f \in CallFiles :
              Hierarchy!Reached[n][f] = IF n = 0 THEN {f} ELSE Hierarchy!WithImports(Hierarchy!Reached[n - 1][f])
         /\ \A S \in SUBSET CallFiles : S \subseteq Hierarchy!WithImports(S) /\ Hierarchy!WithImports(S) \in SUBSET CallFiles
<1> DEFINE C == Cardinality(CallFiles)
           S == [CallFiles -> SUBSET CallFiles]
           b == [f \in CallFiles |-> {f}]
           next == [h \in S |-> [f \in CallFiles |-> Hierarchy!WithImports(h[f])]]
           F == [k \in 1 .. C |-> next]
           Is(g) == g = [n \in 0 .. C |-> [f \in CallFiles |-> IF n = 0 THEN {f} ELSE Hierarchy!WithImports(g[n - 1][f])]]
<1>1. C \in Nat
  BY CallAssumption, FS_CardinalityType
<1>2. ASSUME NEW G \in SUBSET CallFiles PROVE G \subseteq Hierarchy!WithImports(G) /\ Hierarchy!WithImports(G) \in SUBSET CallFiles
  <2>1. ASSUME NEW g \in G \cap Hierarchy!Present PROVE form[g].imports \subseteq CallFiles
    <3>1. g \in CallFiles /\ form[g] \in CallTexts[g] \ {NoFile}
      BY DEF TextsFit, Hierarchy!Present
    <3> QED
      BY <3>1, CallAssumption
  <2> QED
    BY <2>1 DEF Hierarchy!WithImports
<1>3. next \in [S -> S]
  BY <1>2
<1>4. b \in S /\ \A k \in 1 .. C : F[k] \in [S -> S] /\ F[k] = next
  BY <1>3
<1> HIDE DEF C
<1>5. \E g : Stepped(g, C, S, b, F)
  <2> HIDE DEF S, b, F
  <2> QED
    BY <1>1, <1>4, StepByStep
<1>6. PICK g : Stepped(g, C, S, b, F)
  BY <1>5
<1>7. Is(g)
  <2>1. g \in [0 .. C -> S] /\ g[0] = b /\ \A k \in 1 .. C : g[k] = next[g[k - 1]]
    BY <1>4, <1>6 DEF Stepped
  <2>2. ASSUME NEW k \in 1 .. C PROVE g[k] = [f \in CallFiles |-> Hierarchy!WithImports(g[k - 1][f])]
    <3>1. k - 1 \in 0 .. C
      BY <1>1
    <3>2. g[k - 1] \in S
      BY <2>1, <3>1
    <3> QED
      BY <2>1, <3>2
  <2> HIDE DEF S
  <2>3. g = [n \in 0 .. C |-> g[n]]
    BY <2>1
  <2>4. ASSUME NEW n \in 0 .. C
        PROVE  g[n] = [f \in CallFiles |-> IF n = 0 THEN {f} ELSE Hierarchy!WithImports(g[n - 1][f])]
    <3>1. CASE n = 0
      BY <2>1, <3>1
    <3>2. CASE n # 0
      <4>1. n \in 1 .. C
        BY <3>2, <1>1
      <4> QED
        BY <2>2, <3>2, <4>1
    <3> QED
      BY <3>1, <3>2
  <2> HIDE DEF next, F, b
  <2> QED
    BY <2>3, <2>4
<1>8. Hierarchy!Reached = CHOOSE h : Is(h)
  BY Zenon DEF Hierarchy!Reached, C, Hierarchy!Cardinality, Cardinality
<1>9. Is(Hierarchy!Reached)
  <2> HIDE DEF Is
  <2> QED
    BY <1>7, <1>8
<1>10. ASSUME NEW R, Is(R), NEW n \in 0 .. C, NEW f \in CallFiles
       PROVE  R[n][f] = IF n = 0 THEN {f} ELSE Hierarchy!WithImports(R[n - 1][f])
  <2>1. R[n] = [e \in CallFiles |-> IF n = 0 THEN {e} ELSE Hierarchy!WithImports(R[n - 1][e])]
    BY <1>10, Zenon
  <2> QED
    BY <2>1, Zenon
<1> HIDE DEF Is
<1> QED
  BY <1>2, <1>9, <1>10 DEF C

LEMMA ReachIsOfFiles ==
  ASSUME TextsFit, NEW f \in CallFiles
  PROVE  Hierarchy!Reach(f) \in SUBSET CallFiles /\ f \in Hierarchy!Reach(f)
<1> DEFINE C == Cardinality(CallFiles)
           T == {n \in 0 .. C : Hierarchy!Reached[n][f] \in SUBSET CallFiles /\ f \in Hierarchy!Reached[n][f]}
<1>1. C \in Nat
  BY CallAssumption, FS_CardinalityType
<1>2. \A n \in 0 .. C : Hierarchy!Reached[n][f] = IF n = 0 THEN {f} ELSE Hierarchy!WithImports(Hierarchy!Reached[n - 1][f])
  BY ReachedInSteps
<1>3. 0 \in T
  BY <1>1, <1>2
<1>4. \A n \in 0 .. C - 1 : n \in T => n + 1 \in T
  <2> SUFFICES ASSUME NEW n \in 0 .. C - 1, n \in T PROVE n + 1 \in T
    OBVIOUS
  <2>1. n + 1 \in 0 .. C /\ n + 1 # 0 /\ (n + 1) - 1 = n
    BY <1>1
  <2>2. Hierarchy!Reached[n + 1][f] = Hierarchy!WithImports(Hierarchy!Reached[n][f])
    BY <1>2, <2>1
  <2> QED
    BY <2>1, <2>2, ReachedInSteps
<1>5. \A n \in 0 .. C : n \in T
  <2> HIDE DEF T, C
  <2> QED
    BY ONLY <1>1, <1>3, <1>4, NumbersUpTo, Zenon
<1>6. C \in 0 .. C
  BY <1>1
<1>7. Hierarchy!Reach(f) = Hierarchy!Reached[C][f]
  BY Zenon DEF Hierarchy!Reach, Hierarchy!Cardinality, Cardinality
<1> QED
  BY <1>5, <1>6, <1>7

\* What every operator of the module depends on stays.
SameTexts == form' = form /\ graphed' = graphed /\ compiled' = compiled

LEMMA ReachStays ==
  ASSUME SameTexts
  PROVE  /\ Hierarchy!Present' = Hierarchy!Present
         /\ \A f : Hierarchy!Reach(f)' = Hierarchy!Reach(f)
<1> DEFINE With(t, S) == S \cup UNION {t[g].imports : g \in S \cap {f \in CallFiles : t[f] # NoFile}}
           Is(t, h) == h = [n \in 0 .. Hierarchy!Cardinality(CallFiles) |->
                              [f \in CallFiles |-> IF n = 0 THEN {f} ELSE With(t, h[n - 1][f])]]
           In(t) == CHOOSE h : Is(t, h)
<1>1. Hierarchy!Reached = In(form)
  BY Zenon DEF Hierarchy!Reached, Hierarchy!WithImports, Hierarchy!Present
<1>2. Hierarchy!Reached' = In(form')
  BY Zenon DEF Hierarchy!Reached, Hierarchy!WithImports, Hierarchy!Present
<1> HIDE DEF In
<1>3. Hierarchy!Reached' = Hierarchy!Reached
  BY <1>1, <1>2, Zenon DEF SameTexts
<1>4. Hierarchy!Present' = Hierarchy!Present
  BY DEF Hierarchy!Present, SameTexts
<1> QED
  BY <1>3, <1>4 DEF Hierarchy!Reach

LEMMA ChainStays ==
  ASSUME SameTexts
  PROVE  \A name, f : Hierarchy!AllowedQualifiers(name, f)' = Hierarchy!AllowedQualifiers(name, f)
<1>1. \A name, f : Hierarchy!NamedHere(name, f)' = Hierarchy!NamedHere(name, f)
  BY ReachStays DEF Hierarchy!NamedHere, SameTexts
<1>2. \A S : Hierarchy!WithBases(S)' = Hierarchy!WithBases(S)
  BY <1>1 DEF Hierarchy!WithBases
<1>3. \A name, f : Hierarchy!InheritanceChain(name, f)' = Hierarchy!InheritanceChain(name, f)
  BY <1>1, <1>2 DEF Hierarchy!InheritanceChain
<1> QED
  BY <1>3 DEF Hierarchy!AllowedQualifiers

LEMMA SymbolsStay ==
  ASSUME SameTexts
  PROVE  /\ Hierarchy!Symbols' = Hierarchy!Symbols
         /\ \A name : Hierarchy!SymbolsNamed(name)' = Hierarchy!SymbolsNamed(name)
         /\ \A f, S : Hierarchy!Visible(f, S)' = Hierarchy!Visible(f, S)
<1>4. \A f : /\ Hierarchy!Members(f)' = Hierarchy!Members(f)
           /\ Hierarchy!MembersOf(f, NoFile, form[f].free)' = Hierarchy!MembersOf(f, NoFile, form[f].free)
  BY DEF Hierarchy!Members, Hierarchy!MembersOf, SameTexts
<1>1. Hierarchy!Symbols' = Hierarchy!Symbols
  BY <1>4, ReachStays DEF Hierarchy!Symbols
<1>2. \A name : Hierarchy!SymbolsNamed(name)' = Hierarchy!SymbolsNamed(name)
  BY <1>1 DEF Hierarchy!SymbolsNamed
<1>3. \A f, S : Hierarchy!Visible(f, S)' = Hierarchy!Visible(f, S)
  BY ReachStays DEF Hierarchy!Visible
<1> QED
  BY <1>1, <1>2, <1>3

LEMMA SitesStay == ASSUME SameTexts PROVE \A f : SitesFrom(f)' = SitesFrom(f)
<1>1. \A f : Hierarchy!Calls(f)' = Hierarchy!Calls(f)
  BY DEF Hierarchy!Calls, SameTexts
<1>2. \A f, c : Hierarchy!Site(f, c)' = Hierarchy!Site(f, c)
  BY DEF Hierarchy!Site, SameTexts
<1>3. \A f : Hierarchy!SitesOf(f)' = Hierarchy!SitesOf(f)
  BY <1>1, <1>2 DEF Hierarchy!SitesOf
<1> QED
  BY <1>3 DEF SitesFrom

LEMMA CalleesStay == ASSUME SameTexts PROVE \A s : Hierarchy!Callee(s)' = Hierarchy!Callee(s)
<1>1. \A s : Hierarchy!Candidates(s)' = Hierarchy!Candidates(s)
  BY SymbolsStay DEF Hierarchy!Candidates
<1>2. \A s : Hierarchy!Preferred(s)' = Hierarchy!Preferred(s)
  BY <1>1, ChainStays DEF Hierarchy!Preferred
<1>3. ASSUME NEW s PROVE Hierarchy!Callee(s)' = Hierarchy!Callee(s)
  <2> DEFINE To(P, S) == IF s.target # NoFile THEN s.target
                         ELSE IF P = {} THEN NoFile
                         ELSE <<First(S).file, First(S).container, First(S).name>>
  <2>1. Hierarchy!Callee(s) = To(Hierarchy!Candidates(s), Hierarchy!Preferred(s))
    BY Zenon DEF Hierarchy!Callee, First
  <2>2. Hierarchy!Callee(s)' = To(Hierarchy!Candidates(s)', Hierarchy!Preferred(s)')
    BY Zenon DEF Hierarchy!Callee, First
  <2> HIDE DEF To
  <2> QED
    BY <1>1, <1>2, <2>1, <2>2
<1> QED
  BY <1>3

LEMMA MatchesStay == ASSUME SameTexts PROVE \A s, item : Hierarchy!MayCall(s, item)' = Hierarchy!MayCall(s, item)
<1>1. SUFFICES ASSUME NEW s, NEW item PROVE Hierarchy!MayCall(s, item)' <=> Hierarchy!MayCall(s, item)
  BY DEF Hierarchy!MayCall
<1> QED
  BY ChainStays DEF Hierarchy!MayCall, Hierarchy!MatchesTarget

LEMMA GraphStays ==
  ASSUME SameTexts
  PROVE  /\ \A item : Hierarchy!HasNode(item)' <=> Hierarchy!HasNode(item)
         /\ \A item : Hierarchy!GraphNode(item)' = Hierarchy!GraphNode(item)
         /\ \A item, F : Hierarchy!GraphIncoming(item, F)' = Hierarchy!GraphIncoming(item, F)
         /\ \A item : Hierarchy!GraphOutgoing(item)' = Hierarchy!GraphOutgoing(item)
<1>1. \A f : Hierarchy!Calls(f)' = Hierarchy!Calls(f)
  BY DEF Hierarchy!Calls, SameTexts
<1>2. \A item : Hierarchy!HasNode(item)' <=> Hierarchy!HasNode(item)
  BY SymbolsStay DEF Hierarchy!HasNode, SameTexts
<1>3. \A item : Hierarchy!GraphNode(item)' = Hierarchy!GraphNode(item)
  BY DEF Hierarchy!GraphNode, SameTexts
<1>4. \A item, F : Hierarchy!GraphIncoming(item, F)' = Hierarchy!GraphIncoming(item, F)
  BY <1>1, ReachStays DEF Hierarchy!GraphIncoming
<1>5. \A item : Hierarchy!GraphOutgoing(item)' = Hierarchy!GraphOutgoing(item)
  BY <1>1 DEF Hierarchy!GraphOutgoing
<1> QED
  BY <1>2, <1>3, <1>4, <1>5

(* The answer that a request is due: the graph's if it has the function, else *)
(* one that is right by the calls of the workspace.                           *)
KeyOfItem(item) == <<item.file, item.container, item.name>>
Callers(item, S) == {s.at : s \in {t \in S : Hierarchy!MayCall(t, item)}}
OwnCalls(item, S) == {t \in S : Hierarchy!KeyOf(t) = KeyOfItem(item) /\ Hierarchy!Callee(t) # NoFile}
IsDue(item, mode, answer) ==
  IF Hierarchy!HasNode(item)
  THEN answer = IF mode = "incoming" THEN Hierarchy!GraphIncoming(item, graphed) ELSE Hierarchy!GraphOutgoing(item)
  ELSE IF mode = "incoming" THEN answer = Callers(item, SitesIn(Hierarchy!Present))
  ELSE Hierarchy!ShowsTheCalls(answer, OwnCalls(item, SitesIn(Hierarchy!Present)))

LEMMA DueStays == ASSUME SameTexts PROVE \A item, mode, answer : IsDue(item, mode, answer)' <=> IsDue(item, mode, answer)
<1>1. SitesIn(Hierarchy!Present)' = SitesIn(Hierarchy!Present)
  BY SitesStay, ReachStays DEF SitesIn
<1>2. \A item, S : Callers(item, S)' = Callers(item, S)
  BY MatchesStay DEF Callers
<1>3. \A item, S : OwnCalls(item, S)' = OwnCalls(item, S)
  BY CalleesStay DEF OwnCalls, KeyOfItem, Hierarchy!KeyOf
<1>4. \A answer, own : Hierarchy!ShowsTheCalls(answer, own)' <=> Hierarchy!ShowsTheCalls(answer, own)
  <2> SUFFICES ASSUME NEW answer, NEW own
               PROVE  Hierarchy!ShowsTheCalls(answer, own)' <=> Hierarchy!ShowsTheCalls(answer, own)
    OBVIOUS
  <2>1. \A t, u : Hierarchy!Grouped(t, u)' <=> Hierarchy!Grouped(t, u)
    BY Zenon DEF Hierarchy!Grouped
  <2> DEFINE Places == {x[2] : x \in answer} = {t.at : t \in own}
             Led(x, t) == \E u \in own : (u = t \/ Hierarchy!Grouped(t, u)) /\ x[1] = Hierarchy!Callee(u)
             Alike(t, u, x, y) == x[2] = t.at /\ y[2] = u.at /\ Hierarchy!Grouped(t, u) => x[1] = y[1]
  <2>2. \A x, t : Led(x, t)' <=> Led(x, t)
    BY <2>1, CalleesStay
  <2>3. \A x, y, t, u : Alike(t, u, x, y)' <=> Alike(t, u, x, y)
    BY <2>1
  <2>4. Hierarchy!ShowsTheCalls(answer, own) <=>
          Places /\ (\A x \in answer, t \in own : x[2] = t.at => Led(x, t)) /\ \A x, y \in answer, t, u \in own : Alike(t, u, x, y)
    BY Zenon DEF Hierarchy!ShowsTheCalls
  <2>5. Hierarchy!ShowsTheCalls(answer, own)' <=>
          Places /\ (\A x \in answer, t \in own : x[2] = t.at => Led(x, t)') /\ \A x, y \in answer, t, u \in own : Alike(t, u, x, y)'
    BY Zenon DEF Hierarchy!ShowsTheCalls
  <2> HIDE DEF Places, Led, Alike
  <2> QED
    BY <2>2, <2>3, <2>4, <2>5
<1> QED
  BY <1>1, <1>2, <1>3, <1>4, GraphStays DEF IsDue, SameTexts

LEMMA PriorityIsListed ==
  ASSUME TextsFit, NEW item, item.file \in CallFiles, NEW mode
  PROVE  \E T : /\ T \in SUBSET CallFiles /\ Lists(Hierarchy!PriorityUris(item, mode), T)
                /\ item.file \in T /\ (mode = "incoming" => Hierarchy!Present \subseteq T)
<1> DEFINE f == item.file
           R == Hierarchy!Reach(f)
           P == Hierarchy!Present
           near == Hierarchy!SetToSeq(R \ {f})
           others == Hierarchy!SetToSeq(P \ R)
           T == IF mode = "incoming" THEN R \cup P ELSE R
<1>1. R \in SUBSET CallFiles /\ f \in R /\ P \in SUBSET CallFiles
  BY ReachIsOfFiles DEF Hierarchy!Present
<1> HIDE DEF R, P
<1>2. IsFiniteSet(R \ {f}) /\ IsFiniteSet(P \ R)
  BY <1>1, CallAssumption, FS_Subset
<1>3. Lists(near, R \ {f}) /\ Lists(others, P \ R)
  BY <1>2, ListsSet
<1>4. Lists(<<f>>, {f})
  <2>1. <<f>> \in [1 .. 1 -> {f}] /\ <<f>>[1] = f
    OBVIOUS
  <2>2. \A x \in {f} : \E i \in 1 .. 1 : <<f>>[i] = x
    BY <2>1
  <2>3. \A i, j \in 1 .. 1 : <<f>>[i] = <<f>>[j] => i = j
    OBVIOUS
  <2> QED
    BY <2>1, <2>2, <2>3, ListsFromFunction
<1> HIDE DEF near, others
<1>5. Lists(<<f>> \o near, {f} \cup (R \ {f})) /\ {f} \cup (R \ {f}) = R
  BY <1>1, <1>3, <1>4, ListsJoined
<1>6. Lists((<<f>> \o near) \o others, R \cup (P \ R)) /\ R \cup (P \ R) = R \cup P
  BY <1>3, <1>5, ListsJoined
<1>7. Lists((<<f>> \o near) \o <<>>, R \cup {}) /\ R \cup {} = R
  BY <1>5, ListsNone, ListsJoined
<1>8. Hierarchy!PriorityUris(item, mode) =
        IF mode = "incoming" THEN (<<f>> \o near) \o others ELSE (<<f>> \o near) \o <<>>
  BY DEF Hierarchy!PriorityUris, near, others, R, P
<1>9. Lists(Hierarchy!PriorityUris(item, mode), T)
  BY <1>6, <1>7, <1>8
<1> QED
  BY <1>1, <1>9 DEF P

(* What a portion of a list of files has indexed and marks. *)
Portioned(p, T) ==
  /\ p.mark \in SUBSET T
  /\ \E B : /\ B \in SUBSET p.mark /\ Lists(p.index, B) /\ B \cap indexedFiles = {}
            /\ \A f \in p.mark \ B : form[f] = NoFile

LEMMA PortionIsOfTheList ==
  ASSUME NEW T \in SUBSET CallFiles, NEW todo, Lists(todo, T), NEW p, p = Hierarchy!Portion(todo, FALSE)
  PROVE  /\ Portioned(p, T)
         /\ p.left = NoFile => T \subseteq indexedFiles \cup p.mark
         /\ p.left # NoFile => \E R : R \in SUBSET T /\ Lists(p.left, R) /\ T \subseteq indexedFiles \cup p.mark \cup R
<1> DEFINE n == Len(todo)
           fresh == {i \in DOMAIN todo : todo[i] \notin indexedFiles}
           read == {i \in fresh : form[todo[i]] # NoFile}
           full == {i \in read : Hierarchy!Cardinality({j \in read : j <= i}) = CallBatch}
           end == IF full = {} THEN n ELSE CHOOSE i \in full : TRUE
           done == {i \in read : i <= end}
           marked == {todo[i] : i \in {i \in fresh : i <= end}}
           B == {todo[i] : i \in done}
           R == {todo[i] : i \in end + 1 .. n}
<1>1. /\ n \in Nat /\ DOMAIN todo = 1 .. n /\ \A i \in 1 .. n : todo[i] \in T
      /\ \A x \in T : \E i \in 1 .. n : todo[i] = x
  BY ListsElements DEF Lists, HasElement
<1>2. /\ p.index = Hierarchy!Kept(todo, done) /\ p.mark = marked
      /\ p.left = IF full = {} THEN NoFile ELSE SubSeq(todo, end + 1, n)
  BY Zenon DEF Hierarchy!Portion
<1>3. fresh \in SUBSET (1 .. n) /\ read \in SUBSET fresh /\ full \in SUBSET read
  BY <1>1
<1> HIDE DEF full
<1>4. end \in 0 .. n /\ (full = {} => end = n)
  BY <1>1, <1>3
<1> HIDE DEF end, n
<1>5. done \in SUBSET (1 .. n) /\ B \in SUBSET marked /\ marked \in SUBSET T
  BY <1>1, <1>3
<1>6. B \cap indexedFiles = {} /\ \A f \in marked \ B : form[f] = NoFile
  OBVIOUS
<1>7. T \subseteq indexedFiles \cup marked \cup R
  <2> SUFFICES ASSUME NEW f \in T, f \notin indexedFiles PROVE f \in marked \cup R
    OBVIOUS
  <2>1. PICK i \in 1 .. n : todo[i] = f
    BY <1>1
  <2>2. i \in fresh
    BY <1>1, <2>1
  <2>3. i <= end \/ i \in end + 1 .. n
    BY <1>1, <1>4
  <2> QED
    BY <2>1, <2>2, <2>3
<1>8. full = {} => R = {}
  BY <1>1, <1>4
<1>9. R \in SUBSET T
  BY <1>1, <1>4
<1> HIDE DEF fresh, read, done, marked
<1>10. Lists(p.index, B)
  <2>1. Lists(Hierarchy!Kept(todo, done), B)
    BY <1>5, ListsKept DEF n
  <2> QED
    BY <1>2, <2>1
<1>11. Lists(SubSeq(todo, end + 1, n), R)
  BY <1>4, ListsRest DEF n
<1> HIDE DEF B, R
<1>12. Portioned(p, T)
  BY <1>2, <1>5, <1>6, <1>10 DEF Portioned
<1>13. p.left = NoFile => full = {}
  <2>1. SubSeq(todo, end + 1, n) \in Seq(R)
    BY <1>11 DEF Lists
  <2>2. SubSeq(todo, end + 1, n) \in Seq(CallFiles)
    <3>1. R \subseteq CallFiles
      BY <1>9
    <3> QED
      BY <2>1, <3>1
  <2>3. SubSeq(todo, end + 1, n) # NoFile
    BY <2>2, CallAssumption
  <2> QED
    BY <1>2, <2>3
<1> QED
  BY <1>2, <1>7, <1>8, <1>9, <1>11, <1>12, <1>13

LEMMA PortionOfNone ==
  ASSUME NEW todo, NEW p, p = Hierarchy!Portion(todo, TRUE), NEW T
  PROVE  Portioned(p, T) /\ p.left = NoFile
<1>1. p = [index |-> <<>>, mark |-> {}, left |-> NoFile]
  BY Zenon DEF Hierarchy!Portion
<1>2. p.index = <<>> /\ p.mark = {} /\ p.left = NoFile
  BY ONLY <1>1
<1> QED
  BY <1>2, ListsNone DEF Portioned

(* The index has the calls of the indexed files, by name and by caller; a     *)
(* file is noted under the names and the callers of its calls.                *)
IndexInv ==
  /\ indexedFiles \in SUBSET CallFiles
  /\ IndexedBy(NamesOf, incomingCalls, SitesIn(indexedFiles)) /\ IndexedBy(KeysOf, outgoingCalls, SitesIn(indexedFiles))
  /\ DOMAIN incomingByFile = CallFiles /\ DOMAIN outgoingByFile = CallFiles
  /\ incomingByFile = [f \in CallFiles |-> incomingByFile[f]] /\ outgoingByFile = [f \in CallFiles |-> outgoingByFile[f]]
  /\ \A f \in indexedFiles : \A s \in SitesFrom(f) : s.name \in incomingByFile[f] /\ Hierarchy!KeyOf(s) \in outgoingByFile[f]
  /\ \A f \in CallFiles : \A k \in outgoingByFile[f] : k[1] = f

LEMMA SitesHaveKeys ==
  ASSUME TextsFit, NEW F \in SUBSET CallFiles
  PROVE  \A s \in SitesIn(F) :
           /\ s \in SiteRecords /\ s.file \in F /\ s \in SitesFrom(s.file)
           /\ NamesOf[s] = s.name /\ KeysOf[s] = Hierarchy!KeyOf(s) /\ KeysOf[s][1] = s.file
<1> SUFFICES ASSUME NEW f \in F, NEW s \in SitesFrom(f)
             PROVE  /\ s \in SiteRecords /\ s.file \in F /\ s \in SitesFrom(s.file)
                    /\ NamesOf[s] = s.name /\ KeysOf[s] = Hierarchy!KeyOf(s) /\ KeysOf[s][1] = s.file
  BY DEF SitesIn
<1>1. s \in SiteRecords /\ s.file = f
  BY SitesAreListed
<1>2. Hierarchy!KeyOf(s)[1] = s.file
  BY DEF Hierarchy!KeyOf
<1> QED
  BY <1>1, <1>2 DEF NamesOf, KeysOf

LEMMA BatchIsListed ==
  ASSUME TextsFit, NEW B \in SUBSET CallFiles, NEW batch, Lists(batch, B)
  PROVE  Lists(Hierarchy!FlattenSeq([i \in DOMAIN batch |-> Hierarchy!SitesOf(batch[i])]), SitesIn(B))
<1> DEFINE n == Len(batch)
           p == [i \in 1 .. n |-> Hierarchy!SitesOf(batch[i])]
           F == [i \in 1 .. n |-> SitesFrom(batch[i])]
<1>1. /\ n \in Nat /\ DOMAIN batch = 1 .. n /\ \A i \in 1 .. n : batch[i] \in B
      /\ \A x \in B : \E i \in 1 .. n : batch[i] = x
      /\ \A i, j \in 1 .. n : batch[i] = batch[j] => i = j
  BY ListsElements DEF Lists, HasElement
<1> HIDE DEF n
<1>2. DOMAIN p = 1 .. n /\ p = [i \in 1 .. n |-> p[i]]
  OBVIOUS
<1>3. \A i \in 1 .. n : Lists(p[i], F[i]) /\ \A s \in F[i] : s.file = batch[i]
  BY <1>1, SitesAreListed
<1>4. \A i, j \in 1 .. n : i # j => F[i] \cap F[j] = {}
  <2> SUFFICES ASSUME NEW i \in 1 .. n, NEW j \in 1 .. n, NEW s \in F[i] \cap F[j] PROVE i = j
    OBVIOUS
  <2>1. batch[i] = batch[j]
    BY <1>3
  <2> QED
    BY <1>1, <2>1
<1>5. UNION {F[i] : i \in 1 .. n} = SitesIn(B)
  <2>1. \A i \in 1 .. n : F[i] = SitesFrom(batch[i])
    OBVIOUS
  <2> HIDE DEF F
  <2> QED
    BY <1>1, <2>1 DEF SitesIn
<1>6. [i \in DOMAIN batch |-> Hierarchy!SitesOf(batch[i])] = p
  BY <1>1
<1> HIDE DEF p, F
<1>7. Lists(Hierarchy!FlattenSeq(p), UNION {F[i] : i \in 1 .. n})
  BY <1>1, <1>2, <1>3, <1>4, ListsFlat
<1> QED
  BY <1>5, <1>6, <1>7

LEMMA BatchIsIndexed ==
  ASSUME TextsFit, IndexInv, SameTexts, NEW p, Portioned(p, CallFiles),
         Hierarchy!Index(p.index), indexedFiles' = indexedFiles \cup p.mark
  PROVE  IndexInv'
<1> DEFINE batch == p.index
           X == SitesIn(indexedFiles)
<1>1. PICK B : /\ B \in SUBSET p.mark /\ Lists(batch, B) /\ B \cap indexedFiles = {}
               /\ \A f \in p.mark \ B : form[f] = NoFile
  BY DEF Portioned
<1>2. p.mark \in SUBSET CallFiles /\ B \in SUBSET CallFiles /\ indexedFiles \in SUBSET CallFiles
  BY <1>1 DEF Portioned, IndexInv
<1> DEFINE U == SitesIn(B)
           sites == Hierarchy!FlattenSeq([i \in DOMAIN batch |-> Hierarchy!SitesOf(batch[i])])
<1>3. Lists(sites, U)
  BY <1>1, <1>2, BatchIsListed
<1>4. /\ \A s \in X : s.file \in indexedFiles /\ NamesOf[s] = s.name /\ KeysOf[s] = Hierarchy!KeyOf(s)
      /\ \A s \in U : s.file \in B /\ NamesOf[s] = s.name /\ KeysOf[s] = Hierarchy!KeyOf(s)
  BY <1>2, SitesHaveKeys
<1>5. X \cap U = {}
  BY <1>1, <1>4
<1>6. SitesIn(indexedFiles)' = X \cup U
  <2>1. SitesIn(indexedFiles)' = SitesIn(indexedFiles \cup p.mark)
    BY SitesStay DEF SitesIn
  <2>2. \A f \in p.mark \ B : SitesFrom(f) = {}
    BY <1>1, <1>2, SitesAreListed
  <2> QED
    BY <1>1, <2>1, <2>2 DEF SitesIn
<1>7. Hierarchy!ToSet(sites) = U /\ DOMAIN sites = 1 .. Len(sites) /\ \A i \in 1 .. Len(sites) : sites[i] \in U
  BY <1>3, ListsElements
<1>8. Hierarchy!ToSet(batch) = B
  BY <1>1, ListsElements
<1>9. /\ incomingCalls' = [k \in DOMAIN incomingCalls \cup {s.name : s \in Hierarchy!ToSet(sites)} |->
                             Hierarchy!SitesAt(incomingCalls, k) \o Hierarchy!OfName(sites, k)]
      /\ outgoingCalls' = [k \in DOMAIN outgoingCalls \cup {Hierarchy!KeyOf(s) : s \in Hierarchy!ToSet(sites)} |->
                             Hierarchy!SitesAt(outgoingCalls, k) \o Hierarchy!OfKey(sites, k)]
      /\ incomingByFile' = [f \in CallFiles |-> IF f \in Hierarchy!ToSet(batch)
                              THEN incomingByFile[f] \cup {s.name : s \in SitesFrom(f)} ELSE incomingByFile[f]]
      /\ outgoingByFile' = [f \in CallFiles |-> IF f \in Hierarchy!ToSet(batch)
                              THEN outgoingByFile[f] \cup {Hierarchy!KeyOf(s) : s \in SitesFrom(f)} ELSE outgoingByFile[f]]
  BY Zenon DEF Hierarchy!Index, SitesFrom
<1> HIDE DEF sites, batch, U, X
<1>10. \A k : Hierarchy!OfName(sites, k) = Hierarchy!Kept(sites, {i \in 1 .. Len(sites) : NamesOf[sites[i]] = k})
  <2> TAKE k
  <2>1. {i \in DOMAIN sites : sites[i].name = k} = {i \in 1 .. Len(sites) : NamesOf[sites[i]] = k}
    BY <1>4, <1>7
  <2> QED
    BY <2>1 DEF Hierarchy!OfName
<1>11. \A k : Hierarchy!OfKey(sites, k) = Hierarchy!Kept(sites, {i \in 1 .. Len(sites) : KeysOf[sites[i]] = k})
  <2> TAKE k
  <2>1. {i \in DOMAIN sites : Hierarchy!KeyOf(sites[i]) = k} = {i \in 1 .. Len(sites) : KeysOf[sites[i]] = k}
    BY <1>4, <1>7
  <2> QED
    BY <2>1 DEF Hierarchy!OfKey
<1>12. IndexedBy(NamesOf, incomingCalls', X \cup U)
  <2>1. {s.name : s \in Hierarchy!ToSet(sites)} = {NamesOf[s] : s \in U}
    BY <1>4, <1>7
  <2>2. incomingCalls' = Grown(NamesOf, incomingCalls, U, sites)
    BY <1>9, <1>10, <2>1 DEF Grown
  <2>3. IndexedBy(NamesOf, incomingCalls, X)
    BY DEF IndexInv, X
  <2> QED
    BY <1>3, <1>5, <2>2, <2>3, IndexGrows
<1>13. IndexedBy(KeysOf, outgoingCalls', X \cup U)
  <2>1. {Hierarchy!KeyOf(s) : s \in Hierarchy!ToSet(sites)} = {KeysOf[s] : s \in U}
    BY <1>4, <1>7
  <2>2. outgoingCalls' = Grown(KeysOf, outgoingCalls, U, sites)
    BY <1>9, <1>11, <2>1 DEF Grown
  <2>3. IndexedBy(KeysOf, outgoingCalls, X)
    BY DEF IndexInv, X
  <2> QED
    BY <1>3, <1>5, <2>2, <2>3, IndexGrows
<1>14. IndexedBy(NamesOf, incomingCalls, SitesIn(indexedFiles))' /\ IndexedBy(KeysOf, outgoingCalls, SitesIn(indexedFiles))'
  BY <1>6, <1>12, <1>13 DEF IndexedBy
<1>15. /\ DOMAIN incomingByFile' = CallFiles /\ DOMAIN outgoingByFile' = CallFiles
       /\ incomingByFile' = [f \in CallFiles |-> incomingByFile'[f]] /\ outgoingByFile' = [f \in CallFiles |-> outgoingByFile'[f]]
  BY <1>9
<1>16. \A f \in indexedFiles' : \A s \in SitesFrom(f)' : s.name \in incomingByFile'[f] /\ Hierarchy!KeyOf(s) \in outgoingByFile'[f]
  <2> SUFFICES ASSUME NEW f \in indexedFiles \cup p.mark, NEW s \in SitesFrom(f)
               PROVE  s.name \in incomingByFile'[f] /\ Hierarchy!KeyOf(s) \in outgoingByFile'[f]
    BY SitesStay
  <2>1. f \in indexedFiles \/ f \in B
    BY <1>1, <1>2, SitesAreListed
  <2> QED
    BY <1>2, <1>8, <1>9, <2>1 DEF IndexInv
<1>17. \A f \in CallFiles : \A k \in outgoingByFile'[f] : k[1] = f
  <2>1. \A f \in CallFiles : \A s \in SitesFrom(f) : Hierarchy!KeyOf(s)[1] = f
    BY SitesAreListed DEF Hierarchy!KeyOf
  <2> QED
    BY <1>9, <2>1 DEF IndexInv
<1> QED
  BY <1>2, <1>14, <1>15, <1>16, <1>17 DEF IndexInv, Hierarchy!KeyOf

LEMMA IndexStays ==
  ASSUME TextsFit, IndexInv, SameTexts, UNCHANGED callVars
  PROVE  IndexInv'
<1>1. /\ indexedFiles' = indexedFiles /\ incomingCalls' = incomingCalls /\ outgoingCalls' = outgoingCalls
      /\ incomingByFile' = incomingByFile /\ outgoingByFile' = outgoingByFile
  BY DEF callVars
<1>2. SitesIn(indexedFiles)' = SitesIn(indexedFiles)
  BY <1>1, SitesStay DEF SitesIn
<1>3. IndexedBy(NamesOf, incomingCalls, SitesIn(indexedFiles))' /\ IndexedBy(KeysOf, outgoingCalls, SitesIn(indexedFiles))'
  BY <1>1, <1>2 DEF IndexInv, IndexedBy
<1>4. \A f \in indexedFiles' : \A s \in SitesFrom(f)' : s.name \in incomingByFile'[f] /\ Hierarchy!KeyOf(s) \in outgoingByFile'[f]
  BY <1>1, SitesStay DEF IndexInv
<1> QED
  BY <1>1, <1>3, <1>4 DEF IndexInv, Hierarchy!KeyOf

\* A file's text has changed: what the index had of it is gone.
LEMMA FileIsInvalidated ==
  ASSUME TextsFit, IndexInv, NEW f \in CallFiles, NEW t \in CallTexts[f], form' = [form EXCEPT ![f] = t], compiled' = compiled,
         Hierarchy!InvalidateFile(f)
  PROVE  TextsFit' /\ IndexInv'
<1> DEFINE X == SitesIn(indexedFiles)
           Y == OfOthers(X, f)
<1>1. TextsFit' /\ \A g \in CallFiles \ {f} : form'[g] = form[g]
  BY DEF TextsFit
<1>2. ASSUME NEW g \in CallFiles \ {f} PROVE SitesFrom(g)' = SitesFrom(g)
  <2>1. Hierarchy!Calls(g)' = Hierarchy!Calls(g)
    BY <1>1 DEF Hierarchy!Calls
  <2>2. \A c : Hierarchy!Site(g, c)' = Hierarchy!Site(g, c)
    BY DEF Hierarchy!Site
  <2>3. Hierarchy!SitesOf(g)' = Hierarchy!SitesOf(g)
    BY <2>1, <2>2 DEF Hierarchy!SitesOf
  <2> QED
    BY <2>3 DEF SitesFrom
<1>3. /\ indexedFiles \in SUBSET CallFiles /\ indexedFiles' = indexedFiles \ {f}
      /\ incomingCalls' = Hierarchy!Without(incomingCalls, incomingByFile[f], f)
      /\ outgoingCalls' = [k \in DOMAIN outgoingCalls \ outgoingByFile[f] |-> outgoingCalls[k]]
      /\ incomingByFile' = [incomingByFile EXCEPT ![f] = {}] /\ outgoingByFile' = [outgoingByFile EXCEPT ![f] = {}]
  BY DEF Hierarchy!InvalidateFile, IndexInv
<1>4. \A s \in X : /\ s.file \in indexedFiles /\ s \in SitesFrom(s.file)
                   /\ NamesOf[s] = s.name /\ KeysOf[s] = Hierarchy!KeyOf(s) /\ KeysOf[s][1] = s.file
  BY <1>3, SitesHaveKeys
<1>5. SitesIn(indexedFiles)' = Y
  <2>1. SitesIn(indexedFiles)' = UNION {SitesFrom(g)' : g \in indexedFiles \ {f}}
    BY <1>3 DEF SitesIn
  <2>2. UNION {SitesFrom(g)' : g \in indexedFiles \ {f}} = SitesIn(indexedFiles \ {f})
    BY <1>2, <1>3 DEF SitesIn
  <2>3. \A g \in indexedFiles : \A s \in SitesFrom(g) : s.file = g
    BY <1>3, SitesAreListed
  <2>4. SitesIn(indexedFiles \ {f}) = Y
    BY <2>3 DEF SitesIn, OfOthers
  <2> QED
    BY <2>1, <2>2, <2>4
<1> HIDE DEF X
<1>6. IndexedBy(NamesOf, incomingCalls', Y)
  <2>1. \A s \in X : s.file = f => NamesOf[s] \in incomingByFile[f]
    BY <1>3, <1>4 DEF IndexInv
  <2>2. IndexedBy(NamesOf, incomingCalls, X)
    BY DEF IndexInv, X
  <2> QED
    BY <1>3, <2>1, <2>2, IndexForgets
<1>7. IndexedBy(KeysOf, outgoingCalls', Y)
  <2>1. \A s \in X : s.file = f => KeysOf[s] \in outgoingByFile[f]
    <3>1. \A s \in SitesFrom(f) : f \in indexedFiles => Hierarchy!KeyOf(s) \in outgoingByFile[f]
      BY DEF IndexInv
    <3> QED
      BY <1>4, <3>1
  <2>4. \A s \in X : KeysOf[s] \in outgoingByFile[f] => s.file = f
    <3>1. \A k \in outgoingByFile[f] : k[1] = f
      BY DEF IndexInv
    <3> QED
      BY <1>4, <3>1
  <2>2. IndexedBy(KeysOf, outgoingCalls, X)
    BY DEF IndexInv, X
  <2>3. IndexedBy(KeysOf, Unlisted(outgoingCalls, outgoingByFile[f]), Y)
    BY <2>1, <2>2, <2>4, IndexDrops
  <2> QED
    BY <1>3, <2>3 DEF Unlisted
<1> HIDE DEF Y
<1>8. IndexedBy(NamesOf, incomingCalls, SitesIn(indexedFiles))' /\ IndexedBy(KeysOf, outgoingCalls, SitesIn(indexedFiles))'
  BY <1>5, <1>6, <1>7 DEF IndexedBy
<1>9. /\ DOMAIN incomingByFile' = CallFiles /\ DOMAIN outgoingByFile' = CallFiles
      /\ incomingByFile' = [g \in CallFiles |-> incomingByFile'[g]] /\ outgoingByFile' = [g \in CallFiles |-> outgoingByFile'[g]]
  BY <1>3 DEF IndexInv
<1>10. \A g \in indexedFiles' : \A s \in SitesFrom(g)' : s.name \in incomingByFile'[g] /\ Hierarchy!KeyOf(s) \in outgoingByFile'[g]
  <2> SUFFICES ASSUME NEW g \in indexedFiles \ {f}, NEW s \in SitesFrom(g)
               PROVE  s.name \in incomingByFile'[g] /\ Hierarchy!KeyOf(s) \in outgoingByFile'[g]
    BY <1>2, <1>3
  <2>1. incomingByFile'[g] = incomingByFile[g] /\ outgoingByFile'[g] = outgoingByFile[g]
    BY <1>3 DEF IndexInv
  <2> QED
    BY <2>1 DEF IndexInv
<1>11. \A g \in CallFiles : \A k \in outgoingByFile'[g] : k[1] = g
  BY <1>3 DEF IndexInv
<1> QED
  BY <1>1, <1>3, <1>8, <1>9, <1>10, <1>11 DEF IndexInv, Hierarchy!KeyOf

(* What a list of calls shows is right by the set of those that resolve:    *)
(* every call has a lead, itself or one it is grouped with, and those that   *)
(* are grouped have the same.                                                *)
LEMMA LeadFacts ==
  ASSUME NEW sites, NEW n \in Nat, DOMAIN sites = 1 .. n,
         NEW i \in DOMAIN sites, Hierarchy!Callee(sites[i]) # NoFile
  PROVE  LET j == Hierarchy!Lead(sites, i)
         IN  /\ j \in DOMAIN sites /\ Hierarchy!Callee(sites[j]) # NoFile
             /\ sites[j] = sites[i] \/ Hierarchy!Grouped(sites[i], sites[j])
<1> DEFINE group == {j \in DOMAIN sites : Hierarchy!Callee(sites[j]) # NoFile /\ Hierarchy!Grouped(sites[j], sites[i])}
<1>1. CASE sites[i].target # NoFile
  BY <1>1 DEF Hierarchy!Lead
<1>2. CASE sites[i].target = NoFile
  <2>1. i \in group /\ group \subseteq Nat
    BY <1>2 DEF Hierarchy!Grouped
  <2>2. \E j \in group : \A k \in group : j <= k
    BY <2>1, LeastNumber
  <2>3. Hierarchy!Lead(sites, i) = CHOOSE j \in group : \A k \in group : j <= k
    BY <1>2 DEF Hierarchy!Lead
  <2>4. Hierarchy!Lead(sites, i) \in group
    BY <2>2, <2>3
  <2> QED
    BY <2>4 DEF Hierarchy!Grouped
<1> QED
  BY <1>1, <1>2

LEMMA GroupedLead ==
  ASSUME NEW sites, NEW i \in DOMAIN sites, NEW k \in DOMAIN sites, Hierarchy!Grouped(sites[i], sites[k])
  PROVE  Hierarchy!Lead(sites, i) = Hierarchy!Lead(sites, k)
<1>1. sites[i].target = NoFile /\ sites[k].target = NoFile /\ sites[i].name = sites[k].name
  BY DEF Hierarchy!Grouped
<1> DEFINE Group(m) == {j \in DOMAIN sites : Hierarchy!Callee(sites[j]) # NoFile /\ Hierarchy!Grouped(sites[j], sites[m])}
           Least(S) == CHOOSE j \in S : \A m \in S : j <= m
<1>2. Hierarchy!Lead(sites, i) = Least(Group(i)) /\ Hierarchy!Lead(sites, k) = Least(Group(k))
  BY <1>1 DEF Hierarchy!Lead
<1>3. Group(i) = Group(k)
  BY <1>1 DEF Hierarchy!Grouped
<1> HIDE DEF Least, Group
<1> QED
  BY <1>2, <1>3

\* The calls of a list that resolve, their places in it, and how they are shown.
Resolved(sites) == {t \in Hierarchy!ToSet(sites) : Hierarchy!Callee(t) # NoFile}
Resolving(sites) == {j \in DOMAIN sites : Hierarchy!Callee(sites[j]) # NoFile}
ShownOf(sites) == {<<Hierarchy!Callee(sites[Hierarchy!Lead(sites, i)]), sites[i].at>> : i \in Resolving(sites)}

LEMMA OutgoingShows ==
  ASSUME NEW sites, NEW n \in Nat, DOMAIN sites = 1 .. n,
         \A t, u \in Resolved(sites) : t.at = u.at => t = u
  PROVE  Hierarchy!ShowsTheCalls(ShownOf(sites), Resolved(sites))
<1> DEFINE D == Resolving(sites)
           own == Resolved(sites)
           answer == ShownOf(sites)
           led(i) == sites[Hierarchy!Lead(sites, i)]
<1>1. \A i \in D : sites[i] \in own
  BY DEF Hierarchy!ToSet, Resolving, Resolved
<1>2. \A t \in own : \E i \in D : sites[i] = t
  BY DEF Hierarchy!ToSet, Resolving, Resolved
<1>3. \A i \in D : led(i) \in own /\ (led(i) = sites[i] \/ Hierarchy!Grouped(sites[i], led(i)))
  <2> SUFFICES ASSUME NEW i \in D PROVE led(i) \in own /\ (led(i) = sites[i] \/ Hierarchy!Grouped(sites[i], led(i)))
    OBVIOUS
  <2>1. i \in DOMAIN sites /\ Hierarchy!Callee(sites[i]) # NoFile
    BY DEF Resolving
  <2>2. /\ Hierarchy!Lead(sites, i) \in DOMAIN sites /\ Hierarchy!Callee(led(i)) # NoFile
        /\ led(i) = sites[i] \/ Hierarchy!Grouped(sites[i], led(i))
    BY <2>1, LeadFacts
  <2> QED
    BY <2>2 DEF Resolved, Hierarchy!ToSet
<1>4. \A i, k \in D : Hierarchy!Grouped(sites[i], sites[k]) => led(i) = led(k)
  BY GroupedLead DEF Resolving
<1>5. /\ \A x \in answer : \E i \in D : x = <<Hierarchy!Callee(led(i)), sites[i].at>>
      /\ \A i \in D : <<Hierarchy!Callee(led(i)), sites[i].at>> \in answer
  BY DEF ShownOf
<1> HIDE DEF D, led, own, answer
<1>6. {x[2] : x \in answer} = {t.at : t \in own}
  <2>1. \A x \in answer : \E t \in own : x[2] = t.at
    BY <1>1, <1>5
  <2>2. \A t \in own : \E x \in answer : x[2] = t.at
    <3> SUFFICES ASSUME NEW t \in own PROVE \E x \in answer : x[2] = t.at
      OBVIOUS
    <3>1. PICK i \in D : sites[i] = t
      BY <1>2
    <3>2. <<Hierarchy!Callee(led(i)), sites[i].at>>[2] = t.at
      BY <3>1
    <3> QED
      BY <1>5, <3>2
  <2> QED
    BY <2>1, <2>2
<1>7. ASSUME NEW x \in answer, NEW t \in own, x[2] = t.at
      PROVE  \E i \in D : sites[i] = t /\ x[1] = Hierarchy!Callee(led(i))
  <2>1. PICK i \in D : x = <<Hierarchy!Callee(led(i)), sites[i].at>>
    BY <1>5
  <2>2. x[1] = Hierarchy!Callee(led(i)) /\ x[2] = sites[i].at
    BY <2>1
  <2>3. sites[i] = t
    BY <1>1, <1>7, <2>2 DEF own
  <2> QED
    BY <2>2, <2>3
<1>8. ASSUME NEW x \in answer, NEW t \in own, x[2] = t.at
      PROVE  \E u \in own : (u = t \/ Hierarchy!Grouped(t, u)) /\ x[1] = Hierarchy!Callee(u)
  <2>1. PICK i \in D : sites[i] = t /\ x[1] = Hierarchy!Callee(led(i))
    BY <1>7, <1>8
  <2>2. led(i) \in own /\ (led(i) = t \/ Hierarchy!Grouped(t, led(i)))
    BY <1>3, <2>1
  <2> QED
    BY <2>1, <2>2
<1>9. ASSUME NEW x \in answer, NEW y \in answer, NEW t \in own, NEW u \in own,
             x[2] = t.at, y[2] = u.at, Hierarchy!Grouped(t, u)
      PROVE  x[1] = y[1]
  <2>1. PICK i \in D : sites[i] = t /\ x[1] = Hierarchy!Callee(led(i))
    BY <1>7, <1>9
  <2>2. PICK k \in D : sites[k] = u /\ y[1] = Hierarchy!Callee(led(k))
    BY <1>7, <1>9
  <2>3. led(i) = led(k)
    BY <1>4, <1>9, <2>1, <2>2
  <2> QED
    BY <2>1, <2>2, <2>3
<1>10. Hierarchy!ShowsTheCalls(answer, own)
  BY <1>6, <1>8, <1>9 DEF Hierarchy!ShowsTheCalls
<1> QED
  BY <1>10 DEF answer, own

\* What the index answers once it has the files, or the file, it needs.
LEMMA IndexAnswersAsDue ==
  ASSUME TextsFit, NEW calls, NEW X \in SUBSET CallFiles, NEW item, ~Hierarchy!HasNode(item)
  PROVE  /\ IndexedBy(NamesOf, calls, SitesIn(X)) /\ Hierarchy!Present \subseteq X => IsDue(item, "incoming", Hierarchy!Incoming(item, calls))
         /\ IndexedBy(KeysOf, calls, SitesIn(X)) /\ item.file \in X => IsDue(item, "outgoing", Hierarchy!Outgoing(item, calls))
<1>1. /\ \A s \in SitesIn(X) : s.file \in X /\ s \in SitesFrom(s.file) /\ NamesOf[s] = s.name /\ KeysOf[s] = Hierarchy!KeyOf(s)
      /\ \A s \in SitesIn(Hierarchy!Present) : s.file \in Hierarchy!Present /\ s \in SitesFrom(s.file)
      /\ Hierarchy!Present \subseteq CallFiles
  BY SitesHaveKeys DEF Hierarchy!Present
<1>2. \A f \in CallFiles : f \in Hierarchy!Present \/ SitesFrom(f) = {}
  BY SitesAreListed DEF Hierarchy!Present
<1>3. ASSUME IndexedBy(NamesOf, calls, SitesIn(X)), Hierarchy!Present \subseteq X
      PROVE  IsDue(item, "incoming", Hierarchy!Incoming(item, calls))
  <2>1. Hierarchy!ToSet(Hierarchy!SitesAt(calls, item.name)) = {s \in SitesIn(X) : NamesOf[s] = item.name}
    BY <1>3, IndexAnswersAll DEF Keyed
  <2>2. SitesIn(X) = SitesIn(Hierarchy!Present)
    BY <1>2, <1>3 DEF SitesIn
  <2>3. \A s : Hierarchy!MayCall(s, item) => s.name = item.name
    BY DEF Hierarchy!MayCall
  <2>4. {t \in Hierarchy!ToSet(Hierarchy!SitesAt(calls, item.name)) : Hierarchy!MayCall(t, item)}
          = {t \in SitesIn(Hierarchy!Present) : Hierarchy!MayCall(t, item)}
    BY <1>1, <2>1, <2>2, <2>3
  <2> QED
    BY <2>4 DEF Hierarchy!Incoming, IsDue, Callers
<1>4. ASSUME IndexedBy(KeysOf, calls, SitesIn(X)), item.file \in X
      PROVE  IsDue(item, "outgoing", Hierarchy!Outgoing(item, calls))
  <2>1. Hierarchy!ToSet(Hierarchy!SitesAt(calls, KeyOfItem(item))) = {s \in SitesIn(X) : KeysOf[s] = KeyOfItem(item)}
    BY <1>4, IndexAnswersAll DEF Keyed
  <2>2. \A s : Hierarchy!KeyOf(s) = KeyOfItem(item) => s.file = item.file
    BY DEF Hierarchy!KeyOf, KeyOfItem
  <2>3. SitesFrom(item.file) \subseteq SitesIn(X) /\ SitesFrom(item.file) \subseteq SitesIn(Hierarchy!Present)
    BY <1>2, <1>4 DEF SitesIn
  <2> DEFINE sites == Hierarchy!SitesAt(calls, KeyOfItem(item))
             own == OwnCalls(item, SitesIn(Hierarchy!Present))
  <2>4. Resolved(sites) = own
    BY <1>1, <2>1, <2>2, <2>3 DEF OwnCalls, Resolved
  <2>6. Len(sites) \in Nat /\ DOMAIN sites = 1 .. Len(sites)
    <3>1. Lists(sites, {s \in SitesIn(X) : KeysOf[s] = KeyOfItem(item)})
      BY <1>4, IndexAnswers
    <3> QED
      BY <3>1, ListsElements DEF Lists
  <2>7. \A t, u \in own : t.at = u.at => t = u
    <3>1. item.file \in CallFiles /\ own \subseteq SitesFrom(item.file)
      BY <1>1, <1>4, <2>2 DEF OwnCalls
    <3> QED
      BY <3>1, SitesAreListed
  <2>8. Hierarchy!Outgoing(item, calls) = ShownOf(sites)
    BY Zenon DEF Hierarchy!Outgoing, KeyOfItem, ShownOf, Resolving
  <2> HIDE DEF sites, own
  <2>9. Hierarchy!ShowsTheCalls(ShownOf(sites), Resolved(sites))
    BY <2>4, <2>6, <2>7, OutgoingShows
  <2> QED
    BY <2>4, <2>8, <2>9 DEF IsDue, own
<1> QED
  BY <1>3, <1>4

(* A list of files that a request, or the workspace, still has to have        *)
(* indexed.                                                                   *)
FilesOf(todo) == Hierarchy!ToSet(todo)
IsTodo(todo) == FilesOf(todo) \in SUBSET CallFiles /\ Lists(todo, FilesOf(todo))

IsRequest(q) ==
  /\ q \in [phase : {"idle", "graph", "priority", "workspace", "done"}, item : {q.item}, mode : {q.mode}, todo : {q.todo},
            node : {q.node}, cancelled : BOOLEAN, cut : BOOLEAN, answer : {q.answer}]
  /\ q.phase # "idle" => q.mode \in {"incoming", "outgoing"}
  /\ q.phase = "priority" => IsTodo(q.todo)

(* What a request that no change has overtaken knows when the files I are     *)
(* indexed: where it is answered from, and that the files it needs are        *)
(* indexed or on its list.                                                    *)
Owed(q, I) ==
  /\ q.phase = "graph" => q.mode = "incoming" /\ Hierarchy!HasNode(q.item) /\ q.node = Hierarchy!GraphNode(q.item)
  /\ q.phase = "priority" =>
       /\ ~Hierarchy!HasNode(q.item)
       /\ q.mode = "incoming" => Hierarchy!Present \subseteq I \cup FilesOf(q.todo)
       /\ q.mode = "outgoing" => q.item.file \in I \cup FilesOf(q.todo)
  /\ q.phase = "workspace" => q.mode = "incoming" /\ ~Hierarchy!HasNode(q.item) /\ Hierarchy!Present \subseteq I
  /\ q.phase = "done" => IsDue(q.item, q.mode, q.answer)

RequestInv(q) == IsRequest(q) /\ (~q.cut /\ ~q.cancelled => Owed(q, indexedFiles))

\* The indexing of the workspace.
IsWorkspaceIndex(w) == w \in [todo : {w.todo}, owner : CallRequests \cup {NoFile}] /\ IsTodo(w.todo)

HierarchyInv ==
  /\ TextsFit /\ IndexInv
  /\ kept = NoFile \/ IsWorkspaceIndex(kept)
  /\ reading = [r \in CallRequests |-> reading[r]] /\ \A r \in CallRequests : RequestInv(reading[r])

LEMMA TodoOfSet ==
  ASSUME NEW todo, NEW T \in SUBSET CallFiles, Lists(todo, T)
  PROVE  IsTodo(todo) /\ FilesOf(todo) = T
<1>1. FilesOf(todo) = T
  BY ListsElements DEF FilesOf
<1> QED
  BY <1>1 DEF IsTodo

LEMMA TextsFitStill == ASSUME TextsFit, SameTexts PROVE TextsFit'
BY DEF TextsFit, SameTexts

LEMMA RequestIsFit ==
  ASSUME SameTexts, NEW r, IsRequest(reading'[r]),
         ~reading'[r].cut /\ ~reading'[r].cancelled => Owed(reading'[r], indexedFiles')
  PROVE  RequestInv(reading[r])'
<1> DEFINE q == reading'[r]
<1>1. /\ Hierarchy!HasNode(reading[r].item)' <=> Hierarchy!HasNode(q.item)
      /\ Hierarchy!GraphNode(reading[r].item)' = Hierarchy!GraphNode(q.item)
      /\ Hierarchy!Present' = Hierarchy!Present
      /\ IsDue(reading[r].item, reading[r].mode, reading[r].answer)' <=> IsDue(q.item, q.mode, q.answer)
  BY GraphStays, ReachStays, DueStays
<1>2. ASSUME Owed(q, indexedFiles') PROVE Owed(reading[r], indexedFiles)'
  BY <1>1, <1>2 DEF Owed, FilesOf
<1> QED
  BY <1>2 DEF RequestInv, IsRequest, IsTodo, FilesOf

\* A request that does not move still knows what it knew when more is indexed.
LEMMA RequestStays ==
  ASSUME SameTexts, indexedFiles \subseteq indexedFiles', NEW r, RequestInv(reading[r]), reading'[r] = reading[r]
  PROVE  RequestInv(reading[r])'
<1>1. Owed(reading[r], indexedFiles) => Owed(reading[r], indexedFiles')
  BY DEF Owed
<1> QED
  BY <1>1, RequestIsFit DEF RequestInv

\* What an answer from the index, or from the graph, is.
LEMMA AnswerIsDue ==
  ASSUME TextsFit, SameTexts, IndexInv', NEW q, RequestInv(q), NEW answer,
         ~q.cut /\ ~q.cancelled =>
           /\ ~Hierarchy!HasNode(q.item)
           /\ q.mode = "incoming" => Hierarchy!Present \subseteq indexedFiles' /\ answer = Hierarchy!Incoming(q.item, incomingCalls')
           /\ q.mode = "outgoing" => q.item.file \in indexedFiles' /\ answer = Hierarchy!Outgoing(q.item, outgoingCalls'),
         q.mode \in {"incoming", "outgoing"}
  PROVE  ~q.cut /\ ~q.cancelled => IsDue(q.item, q.mode, answer)
<1> SUFFICES ASSUME ~q.cut /\ ~q.cancelled PROVE IsDue(q.item, q.mode, answer)
  OBVIOUS
<1>1. indexedFiles' \in SUBSET CallFiles
  BY DEF IndexInv
<1>2. IndexedBy(NamesOf, incomingCalls', SitesIn(indexedFiles')) /\ IndexedBy(KeysOf, outgoingCalls', SitesIn(indexedFiles'))
  <2>1. SitesIn(indexedFiles)' = SitesIn(indexedFiles')
    BY SitesStay DEF SitesIn
  <2> QED
    BY <2>1 DEF IndexInv, IndexedBy
<1>3. CASE q.mode = "incoming"
  BY <1>1, <1>2, <1>3, IndexAnswersAsDue
<1>4. CASE q.mode = "outgoing"
  BY <1>1, <1>2, <1>4, IndexAnswersAsDue
<1> QED
  BY <1>3, <1>4

LEMMA SymbolsAreOfFiles == \A s \in Hierarchy!Symbols : s.file \in Hierarchy!Present /\ s.file \in CallFiles
<1> SUFFICES ASSUME NEW s \in Hierarchy!Symbols PROVE s.file \in Hierarchy!Present /\ s.file \in CallFiles
  OBVIOUS
<1>1. PICK f \in Hierarchy!Present : s \in Hierarchy!Members(f) \cup Hierarchy!MembersOf(f, NoFile, form[f].free)
  BY DEF Hierarchy!Symbols
<1>3. \A contract, members : \A x \in Hierarchy!MembersOf(f, contract, members) : x.file = f
  BY DEF Hierarchy!MembersOf
<1>4. s \in Hierarchy!Members(f) => \E c \in Hierarchy!ToSet(form[f].contracts) : s \in Hierarchy!MembersOf(f, c.name, c.members)
  BY DEF Hierarchy!Members
<1>5. s \in Hierarchy!Members(f) => s.file = f
  BY <1>3, <1>4, Zenon
<1>6. s \in Hierarchy!MembersOf(f, NoFile, form[f].free) => s.file = f
  BY <1>3
<1>2. s.file = f
  BY <1>1, <1>5, <1>6
<1> QED
  BY <1>1, <1>2 DEF Hierarchy!Present

LEMMA WorkspaceIndexStays == ASSUME kept = NoFile \/ IsWorkspaceIndex(kept), kept' = kept PROVE kept' = NoFile \/ IsWorkspaceIndex(kept)'
BY DEF IsWorkspaceIndex, IsTodo, FilesOf

\* A step of one request that leaves the texts and the index.
LEMMA OneRequestMoves ==
  ASSUME HierarchyInv, NEW r \in CallRequests, SameTexts, UNCHANGED callVars, kept' = kept, NEW q,
         reading' = [reading EXCEPT ![r] = q], IsRequest(q), ~q.cut /\ ~q.cancelled => Owed(q, indexedFiles)
  PROVE  HierarchyInv'
<1>1. /\ TextsFit /\ IndexInv /\ reading = [s \in CallRequests |-> reading[s]]
      /\ \A s \in CallRequests : RequestInv(reading[s])
  BY DEF HierarchyInv
<1>2. TextsFit' /\ IndexInv' /\ indexedFiles' = indexedFiles
  BY <1>1, TextsFitStill, IndexStays DEF callVars
<1>3. /\ reading' = [s \in CallRequests |-> reading'[s]] /\ reading'[r] = q
      /\ \A s \in CallRequests \ {r} : reading'[s] = reading[s]
  BY <1>1
<1>4. RequestInv(reading[r])'
  BY <1>2, <1>3, RequestIsFit
<1>5. ASSUME NEW s \in CallRequests \ {r} PROVE RequestInv(reading[s])'
  BY <1>1, <1>2, <1>3, RequestStays
<1>6. kept' = NoFile \/ IsWorkspaceIndex(kept)'
  BY WorkspaceIndexStays DEF HierarchyInv
<1> QED
  BY <1>2, <1>3, <1>4, <1>5, <1>6 DEF HierarchyInv

LEMMA AskKeeps ==
  ASSUME HierarchyInv, NEW r \in CallRequests, NEW item \in Hierarchy!Symbols, NEW mode \in {"incoming", "outgoing"},
         Hierarchy!Ask(r, item, mode)
  PROVE  HierarchyInv'
<1> DEFINE has == Hierarchy!HasNode(item)
           todo == Hierarchy!PriorityUris(item, mode)
           q == IF ~has THEN Hierarchy!Asked(item, mode, "priority", todo, NoFile, {})
                ELSE IF mode = "outgoing" THEN Hierarchy!Asked(item, mode, "done", <<>>, NoFile, Hierarchy!GraphOutgoing(item))
                ELSE Hierarchy!Asked(item, mode, "graph", <<>>, Hierarchy!GraphNode(item), {})
<1>1. SameTexts /\ UNCHANGED callVars /\ kept' = kept /\ reading' = [reading EXCEPT ![r] = q]
  BY DEF Hierarchy!Ask, SameTexts, callVars, Hierarchy!indexVars
<1>2. item.file \in CallFiles /\ TextsFit
  BY SymbolsAreOfFiles DEF HierarchyInv
<1>3. PICK T : T \in SUBSET CallFiles /\ Lists(todo, T) /\ item.file \in T /\ (mode = "incoming" => Hierarchy!Present \subseteq T)
  BY <1>2, PriorityIsListed
<1>4. IsTodo(todo) /\ FilesOf(todo) = T
  BY <1>3, TodoOfSet
<1> HIDE DEF todo
<1>5. IsRequest(q) /\ Owed(q, indexedFiles)
  <2>1. CASE ~has
    <3>1. q = [phase |-> "priority", item |-> item, mode |-> mode, todo |-> todo, node |-> NoFile,
               cancelled |-> FALSE, cut |-> FALSE, answer |-> {}]
      BY <2>1 DEF Hierarchy!Asked
    <3> HIDE DEF q
    <3> QED
      BY <2>1, <3>1, <1>3, <1>4 DEF IsRequest, Owed
  <2>2. CASE has /\ mode = "outgoing"
    <3>1. q = [phase |-> "done", item |-> item, mode |-> mode, todo |-> <<>>, node |-> NoFile,
               cancelled |-> FALSE, cut |-> FALSE, answer |-> Hierarchy!GraphOutgoing(item)]
      BY <2>2 DEF Hierarchy!Asked
    <3> HIDE DEF q
    <3>2. IsDue(item, mode, Hierarchy!GraphOutgoing(item))
      BY <2>2 DEF IsDue
    <3> QED
      BY <2>2, <3>1, <3>2 DEF IsRequest, Owed
  <2>3. CASE has /\ mode # "outgoing"
    <3>1. q = [phase |-> "graph", item |-> item, mode |-> mode, todo |-> <<>>, node |-> Hierarchy!GraphNode(item),
               cancelled |-> FALSE, cut |-> FALSE, answer |-> {}]
      BY <2>3 DEF Hierarchy!Asked
    <3> HIDE DEF q
    <3> QED
      BY <2>3, <3>1 DEF IsRequest, Owed
  <2> QED
    BY <2>1, <2>2, <2>3
<1> HIDE DEF q
<1> QED
  BY <1>1, <1>5, OneRequestMoves

LEMMA CancelKeeps ==
  ASSUME HierarchyInv, NEW r \in CallRequests, Hierarchy!Cancel(r)
  PROVE  HierarchyInv'
<1> DEFINE q == [reading[r] EXCEPT !.cancelled = TRUE]
<1>1. SameTexts /\ UNCHANGED callVars /\ kept' = kept /\ reading' = [reading EXCEPT ![r] = q]
  BY DEF Hierarchy!Cancel, SameTexts, callVars, Hierarchy!indexVars
<1>2. IsRequest(reading[r])
  BY DEF HierarchyInv, RequestInv
<1>3. IsRequest(q) /\ q.cancelled = TRUE
  BY <1>2 DEF IsRequest
<1> HIDE DEF q
<1> QED
  BY <1>1, <1>3, OneRequestMoves

LEMMA DrainKeeps ==
  ASSUME HierarchyInv, NEW r \in CallRequests, Hierarchy!Drain(r)
  PROVE  HierarchyInv'
<1> DEFINE o == reading[r]
           batch == IF command = {} THEN {} ELSE {CHOOSE f \in command : TRUE}
           stop == command = batch \/ o.cancelled
           now == Hierarchy!GraphIncoming(o.item, graphed \ (command \ batch))
           q == IF stop THEN Hierarchy!Answered(r, IF o.node = Hierarchy!GraphNode(o.item) THEN now ELSE {}) ELSE o
<1>1. SameTexts /\ UNCHANGED callVars /\ kept' = kept
  BY DEF Hierarchy!Drain, SameTexts, callVars, Hierarchy!indexVars
<1>2. RequestInv(o) /\ o.phase = "graph" /\ reading = [s \in CallRequests |-> reading[s]]
  BY DEF HierarchyInv, Hierarchy!Drain, Hierarchy!Phase
<1>3. reading' = [reading EXCEPT ![r] = q]
  <2>1. reading' = IF stop THEN [reading EXCEPT ![r] = q] ELSE reading
    BY DEF Hierarchy!Drain
  <2>2. [reading EXCEPT ![r] = reading[r]] = reading
    BY <1>2
  <2> QED
    BY <2>1, <2>2
<1>4. CASE ~stop
  BY <1>1, <1>2, <1>3, <1>4, OneRequestMoves DEF RequestInv
<1>5. CASE stop
  <2>1. q = [[o EXCEPT !.phase = "done"] EXCEPT !.answer = IF o.cancelled THEN {} ELSE IF o.node = Hierarchy!GraphNode(o.item) THEN now ELSE {}]
    BY <1>5 DEF Hierarchy!Answered, Hierarchy!Moved
  <2>2. ~o.cancelled => now = Hierarchy!GraphIncoming(o.item, graphed)
    <3>1. command = batch => graphed \ (command \ batch) = graphed
      OBVIOUS
    <3> HIDE DEF batch
    <3> QED
      BY <1>5, <3>1
  <2> HIDE DEF now, q
  <2>3. /\ IsRequest(q) /\ q.phase = "done" /\ q.item = o.item /\ q.mode = o.mode /\ q.cut = o.cut /\ q.cancelled = o.cancelled
        /\ q.answer = IF o.cancelled THEN {} ELSE IF o.node = Hierarchy!GraphNode(o.item) THEN now ELSE {}
    BY <1>2, <2>1 DEF RequestInv, IsRequest
  <2>4. ASSUME ~q.cut, ~q.cancelled PROVE Owed(q, indexedFiles)
    <3>1. o.mode = "incoming" /\ Hierarchy!HasNode(o.item) /\ o.node = Hierarchy!GraphNode(o.item)
      BY <1>2, <2>3, <2>4 DEF RequestInv, Owed
    <3>2. IsDue(o.item, o.mode, Hierarchy!GraphIncoming(o.item, graphed))
      BY <3>1 DEF IsDue
    <3> QED
      BY <2>2, <2>3, <2>4, <3>1, <3>2 DEF Owed
  <2> QED
    BY <1>1, <1>3, <2>3, <2>4, OneRequestMoves
<1> QED
  BY <1>4, <1>5

LEMMA PortionedWithin == ASSUME NEW p, NEW T \in SUBSET CallFiles, Portioned(p, T) PROVE Portioned(p, CallFiles)
BY DEF Portioned

\* A portion is indexed: the requests that do not move still know what they knew.
LEMMA PortionIsIndexed ==
  ASSUME HierarchyInv, SameTexts, NEW p, NEW T \in SUBSET CallFiles, Portioned(p, T),
         Hierarchy!Index(p.index), indexedFiles' = indexedFiles \cup p.mark
  PROVE  /\ TextsFit' /\ IndexInv' /\ indexedFiles \subseteq indexedFiles'
         /\ \A s \in CallRequests : reading'[s] = reading[s] => RequestInv(reading[s])'
<1>1. TextsFit /\ IndexInv /\ \A s \in CallRequests : RequestInv(reading[s])
  BY DEF HierarchyInv
<1>2. TextsFit' /\ IndexInv'
  BY <1>1, TextsFitStill, PortionedWithin, BatchIsIndexed
<1>3. indexedFiles \subseteq indexedFiles'
  OBVIOUS
<1>4. ASSUME NEW s \in CallRequests, reading'[s] = reading[s] PROVE RequestInv(reading[s])'
  BY <1>1, <1>3, <1>4, RequestStays
<1> QED
  BY <1>2, <1>3, <1>4

LEMMA PortionOfList ==
  ASSUME NEW todo, IsTodo(todo), NEW off \in BOOLEAN, NEW p, p = Hierarchy!Portion(todo, off)
  PROVE  /\ Portioned(p, FilesOf(todo))
         /\ p.left = NoFile /\ ~off => FilesOf(todo) \subseteq indexedFiles \cup p.mark
         /\ p.left # NoFile => /\ ~off /\ IsTodo(p.left)
                               /\ FilesOf(todo) \subseteq indexedFiles \cup p.mark \cup FilesOf(p.left)
<1> DEFINE T == FilesOf(todo)
<1>1. T \in SUBSET CallFiles /\ Lists(todo, T)
  BY DEF IsTodo
<1> HIDE DEF T
<1>2. CASE off
  <2>1. p = Hierarchy!Portion(todo, TRUE)
    BY <1>2
  <2>2. Portioned(p, T) /\ p.left = NoFile
    BY <2>1, PortionOfNone
  <2> QED
    BY <1>2, <2>2 DEF T
<1>3. CASE ~off
  <2>1. p = Hierarchy!Portion(todo, FALSE)
    BY <1>3
  <2>2. /\ Portioned(p, T)
        /\ p.left = NoFile => T \subseteq indexedFiles \cup p.mark
        /\ p.left # NoFile => \E R : R \in SUBSET T /\ Lists(p.left, R) /\ T \subseteq indexedFiles \cup p.mark \cup R
    BY <1>1, <2>1, PortionIsOfTheList
  <2>3. ASSUME p.left # NoFile PROVE IsTodo(p.left) /\ T \subseteq indexedFiles \cup p.mark \cup FilesOf(p.left)
    <3>1. PICK R : R \in SUBSET T /\ Lists(p.left, R) /\ T \subseteq indexedFiles \cup p.mark \cup R
      BY <2>2, <2>3
    <3>2. IsTodo(p.left) /\ FilesOf(p.left) = R
      BY <1>1, <3>1, TodoOfSet
    <3> QED
      BY <3>1, <3>2
  <2> QED
    BY <1>3, <2>2, <2>3 DEF T
<1> QED
  BY <1>2, <1>3

\* What a request answers from the index, and that it is what it is due.
FromIndex(q) ==
  [[q EXCEPT !.phase = "done"] EXCEPT !.answer =
     IF q.cancelled THEN {}
     ELSE IF q.mode = "incoming" THEN Hierarchy!Incoming(q.item, incomingCalls') ELSE Hierarchy!Outgoing(q.item, outgoingCalls')]

LEMMA AnswersFit ==
  ASSUME TextsFit, SameTexts, IndexInv', NEW r, NEW q, RequestInv(q), q.phase # "idle", reading'[r] = FromIndex(q),
         ~q.cut /\ ~q.cancelled =>
           /\ ~Hierarchy!HasNode(q.item)
           /\ q.mode = "incoming" => Hierarchy!Present \subseteq indexedFiles'
           /\ q.mode = "outgoing" => q.item.file \in indexedFiles'
  PROVE  RequestInv(reading[r])'
<1> DEFINE answer == IF q.mode = "incoming" THEN Hierarchy!Incoming(q.item, incomingCalls') ELSE Hierarchy!Outgoing(q.item, outgoingCalls')
           a == FromIndex(q)
<1>1. IsRequest(q) /\ q.mode \in {"incoming", "outgoing"}
  BY DEF RequestInv, IsRequest
<1>2. ~q.cut /\ ~q.cancelled => IsDue(q.item, q.mode, answer)
  BY <1>1, AnswerIsDue
<1>3. a = [[q EXCEPT !.phase = "done"] EXCEPT !.answer = IF q.cancelled THEN {} ELSE answer]
  BY DEF FromIndex
<1> HIDE DEF answer, a
<1>4. /\ IsRequest(a) /\ a.phase = "done" /\ a.item = q.item /\ a.mode = q.mode /\ a.cut = q.cut /\ a.cancelled = q.cancelled
      /\ a.answer = IF q.cancelled THEN {} ELSE answer
  BY <1>1, <1>3 DEF IsRequest
<1>5. ~a.cut /\ ~a.cancelled => Owed(a, indexedFiles')
  BY <1>2, <1>4 DEF Owed
<1>6. reading'[r] = a
  BY DEF a
<1> QED
  BY <1>4, <1>5, <1>6, RequestIsFit

LEMMA StartedIsIndexing ==
  ASSUME HierarchyInv, NEW r \in CallRequests, kept' = Hierarchy!StartsWorkspace(r), SameTexts
  PROVE  kept' = NoFile \/ IsWorkspaceIndex(kept)'
<1> SUFFICES kept' = NoFile \/ IsWorkspaceIndex(kept')
  BY DEF IsWorkspaceIndex, IsTodo, FilesOf
<1>1. CASE kept # NoFile
  BY <1>1 DEF Hierarchy!StartsWorkspace, HierarchyInv
<1>2. CASE kept = NoFile
  <2> DEFINE owner == IF reading[r].mode = "outgoing" THEN NoFile ELSE r
             files == Hierarchy!getAllFileUris
  <2>1. kept' = [todo |-> files, owner |-> owner] /\ owner \in CallRequests \cup {NoFile}
    BY <1>2 DEF Hierarchy!StartsWorkspace
  <2>2. Hierarchy!Present \in SUBSET CallFiles /\ IsFiniteSet(Hierarchy!Present)
    BY CallAssumption, FS_Subset DEF Hierarchy!Present
  <2>3. Lists(files, Hierarchy!Present)
    BY <2>2, ListsSet DEF Hierarchy!getAllFileUris
  <2> HIDE DEF files, owner
  <2>4. IsTodo(files)
    BY <2>2, <2>3, TodoOfSet
  <2> QED
    BY <2>1, <2>4 DEF IsWorkspaceIndex
<1> QED
  BY <1>1, <1>2

LEMMA IndexPriorityKeeps ==
  ASSUME HierarchyInv, NEW r \in CallRequests, Hierarchy!IndexPriority(r)
  PROVE  HierarchyInv'
<1> DEFINE q == reading[r]
           p == Hierarchy!Portion(q.todo, q.cancelled)
           T == FilesOf(q.todo)
<1>1. /\ q.phase = "priority" /\ Hierarchy!Index(p.index) /\ indexedFiles' = indexedFiles \cup p.mark /\ SameTexts
      /\ \/ p.left # NoFile /\ reading' = [reading EXCEPT ![r] = [q EXCEPT !.todo = p.left]] /\ kept' = kept
         \/ p.left = NoFile /\ q.cancelled /\ reading' = Hierarchy!AnswerFrom({r}) /\ kept' = kept
         \/ p.left = NoFile /\ ~q.cancelled /\ kept' = Hierarchy!StartsWorkspace(r)
              /\ reading' = IF q.mode = "outgoing" THEN Hierarchy!AnswerFrom({r})
                            ELSE [reading EXCEPT ![r] = [q EXCEPT !.phase = "workspace"]]
  BY DEF Hierarchy!IndexPriority, Hierarchy!Phase, Hierarchy!Moved, SameTexts
<1>2. /\ RequestInv(q) /\ IsRequest(q) /\ q.cancelled \in BOOLEAN /\ IsTodo(q.todo) /\ q.mode \in {"incoming", "outgoing"}
      /\ TextsFit /\ reading = [s \in CallRequests |-> reading[s]]
  BY <1>1 DEF HierarchyInv, RequestInv, IsRequest
<1>3. T \in SUBSET CallFiles
  BY <1>2 DEF IsTodo
<1> HIDE DEF p
<1>4. /\ Portioned(p, T)
      /\ p.left = NoFile /\ ~q.cancelled => T \subseteq indexedFiles \cup p.mark
      /\ p.left # NoFile => ~q.cancelled /\ IsTodo(p.left) /\ T \subseteq indexedFiles \cup p.mark \cup FilesOf(p.left)
  BY <1>2, PortionOfList DEF p
<1> HIDE DEF T
<1>5. /\ TextsFit' /\ IndexInv' /\ indexedFiles \subseteq indexedFiles'
      /\ \A s \in CallRequests : reading'[s] = reading[s] => RequestInv(reading[s])'
  BY <1>1, <1>3, <1>4, PortionIsIndexed
<1>6. ~q.cut /\ ~q.cancelled =>
        /\ ~Hierarchy!HasNode(q.item)
        /\ q.mode = "incoming" => Hierarchy!Present \subseteq indexedFiles \cup T
        /\ q.mode = "outgoing" => q.item.file \in indexedFiles \cup T
  BY <1>1, <1>2 DEF RequestInv, Owed, T
<1>7. /\ reading' = [s \in CallRequests |-> reading'[s]]
      /\ \A s \in CallRequests \ {r} : reading'[s] = reading[s]
  BY <1>1, <1>2 DEF Hierarchy!AnswerFrom
<1>8. Hierarchy!AnswerFrom({r})[r] = FromIndex(q)
  BY DEF Hierarchy!AnswerFrom, Hierarchy!Answered, Hierarchy!Moved, FromIndex
<1>9. RequestInv(reading[r])'
  <2>1. CASE p.left # NoFile
    <3> DEFINE a == [q EXCEPT !.todo = p.left]
    <3>1. reading'[r] = a
      BY <1>1, <1>2, <2>1
    <3>2. /\ IsRequest(a) /\ a.phase = "priority" /\ a.item = q.item /\ a.mode = q.mode /\ a.todo = p.left
          /\ a.cut = q.cut /\ a.cancelled = q.cancelled
      BY <1>1, <1>2, <1>4, <2>1 DEF IsRequest
    <3> HIDE DEF a
    <3>3. ~a.cut /\ ~a.cancelled => Owed(a, indexedFiles')
      BY <1>1, <1>4, <1>6, <2>1, <3>2 DEF Owed
    <3> QED
      BY <1>1, <3>1, <3>2, <3>3, RequestIsFit
  <2>2. CASE p.left = NoFile /\ q.cancelled
    <3>1. reading'[r] = FromIndex(q)
      BY <1>1, <1>8, <2>2
    <3> QED
      BY <1>1, <1>2, <1>5, <2>2, <3>1, AnswersFit
  <2>3. CASE p.left = NoFile /\ ~q.cancelled /\ q.mode = "outgoing"
    <3>1. reading'[r] = FromIndex(q)
      BY <1>1, <1>8, <2>3
    <3>2. ~q.cut => q.item.file \in indexedFiles'
      BY <1>1, <1>4, <1>6, <2>3
    <3> QED
      BY <1>1, <1>2, <1>5, <1>6, <2>3, <3>1, <3>2, AnswersFit
  <2>4. CASE p.left = NoFile /\ ~q.cancelled /\ q.mode # "outgoing"
    <3> DEFINE a == [q EXCEPT !.phase = "workspace"]
    <3>1. reading'[r] = a
      BY <1>1, <1>2, <2>4
    <3>2. /\ IsRequest(a) /\ a.phase = "workspace" /\ a.item = q.item /\ a.mode = "incoming" /\ a.cut = q.cut
          /\ a.cancelled = q.cancelled
      BY <1>2, <2>4 DEF IsRequest
    <3> HIDE DEF a
    <3>3. ~a.cut /\ ~a.cancelled => Owed(a, indexedFiles')
      BY <1>1, <1>2, <1>4, <1>6, <2>4, <3>2 DEF Owed
    <3> QED
      BY <1>1, <3>1, <3>2, <3>3, RequestIsFit
  <2> QED
    BY <2>1, <2>2, <2>3, <2>4
<1>10. kept' = NoFile \/ IsWorkspaceIndex(kept)'
  <2>1. CASE kept' = kept
    BY <2>1, WorkspaceIndexStays DEF HierarchyInv
  <2>2. CASE kept' = Hierarchy!StartsWorkspace(r)
    BY <1>1, <2>2, StartedIsIndexing
  <2> QED
    BY <1>1, <2>1, <2>2
<1>11. \A s \in CallRequests : RequestInv(reading[s])'
  BY <1>5, <1>7, <1>9
<1> QED
  BY <1>5, <1>7, <1>10, <1>11 DEF HierarchyInv

LEMMA IndexWorkspaceKeeps == ASSUME HierarchyInv, Hierarchy!IndexWorkspace PROVE HierarchyInv'
<1> DEFINE off == kept.owner # NoFile /\ reading[kept.owner].cancelled
           p == Hierarchy!Portion(kept.todo, off)
           waiting == {r \in CallRequests : reading[r].phase = "workspace"}
<1>1. /\ kept # NoFile /\ Hierarchy!Index(p.index) /\ indexedFiles' = indexedFiles \cup p.mark /\ SameTexts
      /\ kept' = IF p.left = NoFile THEN NoFile ELSE [todo |-> p.left, owner |-> kept.owner]
      /\ reading' = IF p.left # NoFile THEN reading ELSE Hierarchy!AnswerFrom(waiting)
  BY DEF Hierarchy!IndexWorkspace, Hierarchy!Phase, SameTexts
<1>2. /\ IsWorkspaceIndex(kept) /\ IsTodo(kept.todo) /\ TextsFit
      /\ reading = [s \in CallRequests |-> reading[s]] /\ \A r \in CallRequests : RequestInv(reading[r])
  BY <1>1 DEF HierarchyInv, IsWorkspaceIndex
<1>3. off \in BOOLEAN
  BY <1>2 DEF IsWorkspaceIndex, RequestInv, IsRequest
<1> HIDE DEF p, off
<1>4. /\ Portioned(p, FilesOf(kept.todo)) /\ FilesOf(kept.todo) \in SUBSET CallFiles
      /\ p.left # NoFile => IsTodo(p.left)
  BY <1>2, <1>3, PortionOfList DEF p, IsTodo
<1>5. /\ TextsFit' /\ IndexInv' /\ indexedFiles \subseteq indexedFiles'
      /\ \A s \in CallRequests : reading'[s] = reading[s] => RequestInv(reading[s])'
  BY <1>1, <1>4, PortionIsIndexed
<1>6. ASSUME NEW r \in CallRequests PROVE RequestInv(reading[r])'
  <2>1. CASE reading'[r] = reading[r]
    BY <1>5, <2>1
  <2>2. CASE reading'[r] # reading[r]
    <3>1. p.left = NoFile /\ reading' = Hierarchy!AnswerFrom(waiting)
      BY <1>1, <2>2
    <3>2. reading[r].phase = "workspace" /\ reading'[r] = FromIndex(reading[r])
      BY <2>2, <3>1 DEF Hierarchy!AnswerFrom, Hierarchy!Answered, Hierarchy!Moved, FromIndex
    <3>3. ~reading[r].cut /\ ~reading[r].cancelled =>
            reading[r].mode = "incoming" /\ ~Hierarchy!HasNode(reading[r].item) /\ Hierarchy!Present \subseteq indexedFiles'
      BY <1>2, <1>5, <3>2 DEF RequestInv, Owed
    <3> QED
      BY <1>1, <1>2, <1>5, <3>2, <3>3, AnswersFit
  <2> QED
    BY <2>1, <2>2
<1>7. reading' = [s \in CallRequests |-> reading'[s]]
  BY <1>1, <1>2 DEF Hierarchy!AnswerFrom
<1>8. kept' = NoFile \/ IsWorkspaceIndex(kept')
  BY <1>1, <1>2, <1>4 DEF IsWorkspaceIndex
<1>9. kept' = NoFile \/ IsWorkspaceIndex(kept)'
  BY <1>8 DEF IsWorkspaceIndex, IsTodo, FilesOf
<1> QED
  BY <1>5, <1>6, <1>7, <1>9 DEF HierarchyInv

LEMMA ChangeKeeps ==
  ASSUME HierarchyInv, NEW f \in CallFiles, NEW t \in CallTexts[f], Hierarchy!Change(f, t)
  PROVE  HierarchyInv'
<1>1. /\ form' = [form EXCEPT ![f] = t] /\ compiled' = compiled /\ Hierarchy!InvalidateFile(f) /\ kept' = kept
      /\ reading' = [r \in CallRequests |->
                       IF reading[r].phase = "done" THEN Hierarchy!Idle
                       ELSE [reading[r] EXCEPT !.cut = reading[r].phase # "idle"]]
  BY DEF Hierarchy!Change, Hierarchy!Phase
<1>2. TextsFit /\ IndexInv /\ \A r \in CallRequests : IsRequest(reading[r])
  BY DEF HierarchyInv, RequestInv
<1>3. TextsFit' /\ IndexInv'
  BY <1>1, <1>2, FileIsInvalidated
<1>4. ASSUME NEW r \in CallRequests PROVE RequestInv(reading[r])'
  <2> DEFINE q == reading'[r]
  <2>1. IsRequest(q) /\ (q.phase = "idle" \/ q.cut)
    <3>1. CASE reading[r].phase = "done"
      <4>1. q = [phase |-> "idle", item |-> NoFile, mode |-> NoFile, todo |-> <<>>, node |-> NoFile,
                 cancelled |-> FALSE, cut |-> FALSE, answer |-> {}]
        BY <1>1, <3>1 DEF Hierarchy!Idle, Hierarchy!Asked
      <4> HIDE DEF q
      <4> QED
        BY <4>1 DEF IsRequest
    <3>2. CASE reading[r].phase # "done"
      <4>1. q = [reading[r] EXCEPT !.cut = reading[r].phase # "idle"]
        BY <1>1, <3>2
      <4> HIDE DEF q
      <4>2. CASE reading[r].phase = "idle"
        <5>1. q = [reading[r] EXCEPT !.cut = FALSE]
          BY <4>1, <4>2
        <5> QED
          BY <1>2, <4>2, <5>1 DEF IsRequest
      <4>3. CASE reading[r].phase # "idle"
        <5>1. q = [reading[r] EXCEPT !.cut = TRUE]
          BY <4>1, <4>3
        <5> QED
          BY <1>2, <4>3, <5>1 DEF IsRequest
      <4> QED
        BY <4>2, <4>3
    <3> QED
      BY <3>1, <3>2
  <2>2. ~q.cut => Owed(reading[r], indexedFiles)'
    BY <2>1 DEF Owed
  <2> QED
    BY <2>1, <2>2 DEF RequestInv, IsRequest, IsTodo, FilesOf
<1>5. kept' = NoFile \/ IsWorkspaceIndex(kept)'
  BY <1>1, WorkspaceIndexStays DEF HierarchyInv
<1>6. reading' = [r \in CallRequests |-> reading'[r]]
  BY <1>1
<1> QED
  BY <1>3, <1>4, <1>5, <1>6 DEF HierarchyInv

LEMMA HierarchyStarts == Hierarchy!HierarchyInit => HierarchyInv
<1> SUFFICES ASSUME Hierarchy!HierarchyInit PROVE HierarchyInv
  OBVIOUS
<1>1. /\ TextsFit /\ incomingCalls = <<>> /\ outgoingCalls = <<>> /\ indexedFiles = {} /\ kept = NoFile
      /\ incomingByFile = [f \in CallFiles |-> {}] /\ outgoingByFile = [f \in CallFiles |-> {}]
      /\ reading = [r \in CallRequests |-> Hierarchy!Idle]
  BY DEF Hierarchy!HierarchyInit, Hierarchy!NothingIndexed, TextsFit
<1>2. SitesIn(indexedFiles) = {} /\ DOMAIN <<>> = {}
  BY <1>1 DEF SitesIn
<1>3. IndexedBy(NamesOf, <<>>, {}) /\ IndexedBy(KeysOf, <<>>, {})
  BY <1>2 DEF IndexedBy
<1>4. IndexInv
  BY <1>1, <1>2, <1>3 DEF IndexInv
<1>5. ASSUME NEW r \in CallRequests PROVE RequestInv(reading[r])
  <2>1. reading[r] = [phase |-> "idle", item |-> NoFile, mode |-> NoFile, todo |-> <<>>, node |-> NoFile,
                      cancelled |-> FALSE, cut |-> FALSE, answer |-> {}]
    BY <1>1 DEF Hierarchy!Idle, Hierarchy!Asked
  <2> QED
    BY <2>1 DEF RequestInv, IsRequest, Owed
<1> QED
  BY <1>1, <1>4, <1>5 DEF HierarchyInv

LEMMA HierarchySteps == HierarchyInv /\ Hierarchy!HierarchyNext => HierarchyInv'
<1> SUFFICES ASSUME HierarchyInv, Hierarchy!HierarchyNext PROVE HierarchyInv'
  OBVIOUS
<1>1. CASE \E r \in CallRequests, f \in Hierarchy!Present, name \in CallNames, mode \in {"incoming", "outgoing"} :
             \E s \in Hierarchy!Prepared(f, name) : Hierarchy!Ask(r, s, mode)
  <2>1. PICK r \in CallRequests, f \in Hierarchy!Present, name \in CallNames, mode \in {"incoming", "outgoing"} :
               \E s \in Hierarchy!Prepared(f, name) : Hierarchy!Ask(r, s, mode)
    BY <1>1
  <2>2. PICK s \in Hierarchy!Prepared(f, name) : Hierarchy!Ask(r, s, mode)
    BY <2>1
  <2>3. s \in Hierarchy!Symbols
    BY DEF Hierarchy!Prepared, Hierarchy!Visible, Hierarchy!SymbolsNamed
  <2> QED
    BY <2>2, <2>3, AskKeeps
<1>2. CASE \E r \in CallRequests : Hierarchy!Drain(r) \/ Hierarchy!IndexPriority(r) \/ Hierarchy!Cancel(r)
  BY <1>2, DrainKeeps, IndexPriorityKeeps, CancelKeeps
<1>3. CASE Hierarchy!IndexWorkspace
  BY <1>3, IndexWorkspaceKeeps
<1>4. CASE \E f \in CallFiles : \E t \in CallTexts[f] : Hierarchy!Change(f, t)
  BY <1>4, ChangeKeeps
<1> QED
  BY <1>1, <1>2, <1>3, <1>4 DEF Hierarchy!HierarchyNext

LEMMA HierarchyStutters == HierarchyInv /\ UNCHANGED <<viewVars, callVars>> => HierarchyInv'
<1> SUFFICES ASSUME HierarchyInv, UNCHANGED <<viewVars, callVars>> PROVE HierarchyInv'
  OBVIOUS
<1>1. SameTexts /\ UNCHANGED callVars /\ kept' = kept /\ reading' = reading /\ indexedFiles' = indexedFiles
  BY DEF SameTexts, viewVars, callVars
<1>2. TextsFit' /\ IndexInv'
  BY <1>1, TextsFitStill, IndexStays DEF HierarchyInv
<1>3. kept' = NoFile \/ IsWorkspaceIndex(kept)'
  BY <1>1, WorkspaceIndexStays DEF HierarchyInv
<1>4. ASSUME NEW r \in CallRequests PROVE RequestInv(reading[r])'
  BY <1>1, RequestStays DEF HierarchyInv
<1> QED
  BY <1>1, <1>2, <1>3, <1>4 DEF HierarchyInv

LEMMA IndexedOnce ==
  ASSUME NEW K, NEW lists, NEW F, IndexedBy(K, lists, SitesIn(F)), F = indexedFiles
  PROVE  /\ Hierarchy!Once(lists)
         /\ \A k \in DOMAIN lists : \A s \in Hierarchy!ToSet(lists[k]) : K[s] = k /\ s \in SitesIn(F)
<1>1. \A k \in DOMAIN lists : /\ Hierarchy!ToSet(lists[k]) = {s \in SitesIn(F) : K[s] = k}
                             /\ Hierarchy!IsInjective(lists[k])
  BY ListsElements DEF IndexedBy
<1>2. \A s \in SitesIn(F) : K[s] \in DOMAIN lists
  BY DEF IndexedBy
<1>3. UNION {Hierarchy!ToSet(lists[k]) : k \in DOMAIN lists} = SitesIn(F)
  BY <1>1, <1>2
<1>4. SitesIn(F) = UNION {Hierarchy!ToSet(Hierarchy!SitesOf(f)) : f \in indexedFiles}
  BY DEF SitesIn, SitesFrom
<1> QED
  BY <1>1, <1>3, <1>4 DEF Hierarchy!Once

LEMMA AnswersAreOfTheTexts == HierarchyInv => Hierarchy!CallsFitTheTexts
<1> SUFFICES ASSUME HierarchyInv PROVE Hierarchy!CallsFitTheTexts
  OBVIOUS
<1>1. TextsFit /\ IndexInv
  BY DEF HierarchyInv
<1>2. Hierarchy!IndexIsOfTheTexts
  <2>1. /\ Hierarchy!Once(incomingCalls)
        /\ \A k \in DOMAIN incomingCalls : \A s \in Hierarchy!ToSet(incomingCalls[k]) : NamesOf[s] = k /\ s \in SitesIn(indexedFiles)
    BY <1>1, IndexedOnce DEF IndexInv
  <2>2. /\ Hierarchy!Once(outgoingCalls)
        /\ \A k \in DOMAIN outgoingCalls : \A s \in Hierarchy!ToSet(outgoingCalls[k]) : KeysOf[s] = k /\ s \in SitesIn(indexedFiles)
    BY <1>1, IndexedOnce DEF IndexInv
  <2>3. \A s \in SitesIn(indexedFiles) : NamesOf[s] = s.name /\ KeysOf[s] = Hierarchy!KeyOf(s)
    BY <1>1, SitesHaveKeys DEF IndexInv
  <2> QED
    BY <2>1, <2>2, <2>3 DEF Hierarchy!IndexIsOfTheTexts
<1>3. ASSUME NEW r \in CallRequests, reading[r].phase = "done", ~reading[r].cancelled, ~reading[r].cut
      PROVE  reading[r].mode \in {"incoming", "outgoing"} /\ IsDue(reading[r].item, reading[r].mode, reading[r].answer)
  BY <1>3 DEF HierarchyInv, RequestInv, IsRequest, Owed
<1>4. UNION {Hierarchy!ToSet(Hierarchy!SitesOf(f)) : f \in Hierarchy!Present} = SitesIn(Hierarchy!Present)
  BY DEF SitesIn, SitesFrom
<1>5. ASSUME NEW r \in CallRequests, reading[r].phase = "done", ~reading[r].cancelled, ~reading[r].cut
      PROVE  LET q == reading[r]
                 all == UNION {Hierarchy!ToSet(Hierarchy!SitesOf(f)) : f \in Hierarchy!Present}
             IN  IF Hierarchy!HasNode(q.item)
                 THEN q.answer = IF q.mode = "incoming" THEN Hierarchy!GraphIncoming(q.item, graphed) ELSE Hierarchy!GraphOutgoing(q.item)
                 ELSE IF q.mode = "incoming" THEN q.answer = {s.at : s \in {t \in all : Hierarchy!MayCall(t, q.item)}}
                 ELSE Hierarchy!ShowsTheCalls(q.answer, {t \in all :
                        /\ Hierarchy!KeyOf(t) = <<q.item.file, q.item.container, q.item.name>>
                        /\ Hierarchy!Callee(t) # NoFile})
  BY <1>3, <1>4, <1>5 DEF IsDue, Callers, OwnCalls, KeyOfItem
<1> QED
  BY <1>2, <1>5 DEF Hierarchy!CallsFitTheTexts, Hierarchy!Phase

(* The call hierarchy (CallHierarchyProvider.getIncomingCalls,               *)
(* getOutgoingCalls): an answer that no change of a file overtook and no     *)
(* cancellation cut short names exactly the calls of the workspace that may  *)
(* be of its function, although files are indexed in portions that requests  *)
(* share and another request's cancellation may stop; and the index behind   *)
(* it has the calls of the indexed files, each once, and no other's.         *)
THEOREM CallsAreOfTheTexts == PartsSpec => []CallsFitTheTexts
<1> DEFINE Inv == part = "calls" => HierarchyInv
<1>1. PartsInit => Inv
  <2> SUFFICES ASSUME PartsInit, part = "calls" PROVE HierarchyInv
    OBVIOUS
  <2>1. Hierarchy!HierarchyInit
    BY Zenon DEF PartsInit
  <2> QED
    BY <2>1, HierarchyStarts
<1>2. Inv /\ [PartsNext]_allVars => Inv'
  <2> SUFFICES ASSUME Inv, [PartsNext]_allVars, part' = "calls" PROVE HierarchyInv'
    OBVIOUS
  <2>1. part = "calls" /\ (Hierarchy!HierarchyNext \/ UNCHANGED <<viewVars, callVars>>)
    <3>1. CASE UNCHANGED allVars
      BY <3>1 DEF allVars
    <3>2. CASE PartsNext
      BY <3>2 DEF PartsNext
    <3> QED
      BY <3>1, <3>2
  <2> QED
    BY <2>1, HierarchySteps, HierarchyStutters
<1>3. Inv => CallsFitTheTexts
  BY AnswersAreOfTheTexts DEF CallsFitTheTexts
<1> QED
  BY <1>1, <1>2, <1>3, PTL DEF PartsSpec
=============================================================================
