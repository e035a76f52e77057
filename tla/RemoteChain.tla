---------------------------- MODULE RemoteChain ----------------------------
(***************************************************************************)
(* The remote chain panel: a page that keeps the form, and a host that     *)
(* loads ABIs and runs cast, one call at a time.  A page may be closed and *)
(* another opened while the host works; what the host posts then goes to   *)
(* the page that is open, whichever asked.                                 *)
(***************************************************************************)
EXTENDS Naturals, Sequences, FiniteSets, SequencesExt

CONSTANTS
  Abis,         \* artifact -> the ABI in it, a sequence of [sig, read], or None when it has none
  Chains,       \* chain -> its RPC URL, "" where none is given
  Addresses,    \* what a user may type
  Valid,        \* those that are addresses
  Replies,      \* what a chain may answer
  MaxSteps, None

VARIABLES
  page,         \* the open page, or None
  inFlight,     \* the call whose casts run, or None
  session,      \* what is kept for the next page: [chain, address, abi]
  loads,        \* artifacts that are being read, in any order
  sent,         \* history: every call the host ran, with its answer or None
  steps         \* bound

chainVars == <<page, inFlight, session, loads, sent, steps>>

NewPage ==
  [ready |-> FALSE, chain |-> None, address |-> None, abi |-> <<>>, selected |-> 0, shown |-> FALSE,
   enabled |-> FALSE, calling |-> FALSE, feed |-> {}]
ReadsOf(abi) == {i \in DOMAIN abi : abi[i].read}

RpcUrl(p) == IF p.chain \in DOMAIN Chains THEN Chains[p.chain] ELSE ""
UpdateRunButton(p) ==
  [p EXCEPT !.enabled = p.address \in Valid /\ RpcUrl(p) # "" /\ p.selected # 0]

\* Mutant of OnFunctionChange: the function stays selected when its ABI goes.
OnFunctionStays(p, i) == UpdateRunButton([p EXCEPT !.selected = IF i = 0 THEN @ ELSE i])
\* onFunctionChange: 0 is the placeholder; a write is a disabled option.
OnFunctionChange(p, i) == UpdateRunButton([p EXCEPT !.selected = IF i \in ReadsOf(p.abi) THEN i ELSE 0])
RenderFunctionPicker(p) ==
  IF p.abi = <<>> THEN [p EXCEPT !.shown = FALSE] ELSE OnFunctionChange([p EXCEPT !.shown = TRUE], 0)
-----------------------------------------------------------------------------
Counted == steps < MaxSteps /\ steps' = steps + 1

ShowPanel ==
  /\ page = None /\ Counted
  /\ page' = NewPage
  /\ UNCHANGED <<inFlight, session, loads, sent>>
Close == page # None /\ page' = None /\ UNCHANGED <<inFlight, session, loads, sent, steps>>

\* uiReady and postInit: the first chain is selected where none is kept.
PostInit ==
  /\ page # None /\ ~page.ready
  /\ \E first \in DOMAIN Chains :
       LET restored == [page EXCEPT !.ready = TRUE, !.chain = IF session.chain # None THEN session.chain ELSE first]
       IN  /\ session.chain = None => Chains[first] # ""
           /\ page' = IF session.address = None THEN restored
                      ELSE UpdateRunButton([restored EXCEPT !.address = session.address])
  /\ UNCHANGED <<inFlight, session, loads, sent, steps>>

SelectChain ==
  /\ page # None /\ page.ready /\ Counted
  /\ \E chain \in DOMAIN Chains \ {page.chain} :
       /\ page' = UpdateRunButton([page EXCEPT !.chain = chain])
       /\ session' = [session EXCEPT !.chain = chain]
  /\ UNCHANGED <<inFlight, loads, sent>>

TypeAddress ==
  /\ page # None /\ Counted
  /\ \E a \in Addresses \ {page.address} : page' = UpdateRunButton([page EXCEPT !.address = a])
  /\ UNCHANGED <<inFlight, session, loads, sent>>

SelectFunction ==
  /\ page # None /\ page.shown /\ Counted
  /\ \E i \in ReadsOf(page.abi) \ {page.selected} : page' = OnFunctionChange(page, i)
  /\ UNCHANGED <<inFlight, session, loads, sent>>

\* loadAbiArtifactPick; a pasted ABI is one that is read at once.
PickArtifact ==
  /\ page # None /\ Counted
  /\ \E a \in DOMAIN Abis \ loads : loads' = loads \cup {a}
  /\ UNCHANGED <<page, inFlight, session, sent>>

LoadAbi(a) ==
  /\ page' = RenderFunctionPicker([page EXCEPT !.abi = Abis[a]])
  /\ session' = [session EXCEPT !.abi = TRUE]
LoadAbiFromArtifact ==
  /\ \E a \in loads :
       /\ loads' = loads \ {a}
       /\ IF page = None \/ Abis[a] = None THEN UNCHANGED <<page, session>> ELSE LoadAbi(a)
  /\ UNCHANGED <<inFlight, sent, steps>>

\* The button, and executeCall up to its casts; a second call is dropped.
Call ==
  /\ page # None /\ page.shown /\ page.enabled /\ Counted
  /\ page' = [page EXCEPT !.calling = TRUE, !.enabled = FALSE]
  /\ LET call == [sig |-> page.abi[page.selected], address |-> page.address, rpcUrl |-> RpcUrl(page), answers |-> <<>>]
     IN  inFlight' = IF inFlight = None THEN call ELSE inFlight
  /\ UNCHANGED <<session, loads, sent>>

\* Two casts, for the raw and for the decoded output.
CastEnds ==
  /\ inFlight # None /\ Len(inFlight.answers) < 2
  /\ \E answer \in Replies : inFlight' = [inFlight EXCEPT !.answers = Append(@, answer)]
  /\ UNCHANGED <<page, session, loads, sent, steps>>

Posted(card) == IF page = None THEN None ELSE UpdateRunButton([page EXCEPT !.calling = FALSE, !.feed = @ \cup {card}])
CallEnds ==
  /\ inFlight # None
  /\ \/ /\ Len(inFlight.answers) = 2
        /\ page' = Posted([sig |-> inFlight.sig, shown |-> inFlight.answers])
        /\ session' = IF page = None THEN session ELSE [session EXCEPT !.address = inFlight.address]
     \/ /\ Len(inFlight.answers) < 2                       \* one of them fails, or takes 30 s
        /\ page' = Posted([sig |-> inFlight.sig, shown |-> <<>>])
        /\ UNCHANGED session
  /\ sent' = sent \cup {inFlight}
  /\ inFlight' = None
  /\ UNCHANGED <<loads, steps>>

ChainInit ==
  /\ page = None /\ inFlight = None /\ loads = {} /\ sent = {} /\ steps = 0
  /\ session = [chain |-> None, address |-> None, abi |-> FALSE]
ChainNext ==
  \/ ShowPanel \/ Close \/ PostInit \/ SelectChain \/ TypeAddress \/ SelectFunction
  \/ PickArtifact \/ LoadAbiFromArtifact \/ Call \/ CastEnds \/ CallEnds
-----------------------------------------------------------------------------
(* Whatever is loaded, typed and closed in between, cast is only run on a
   function that reads, at an address, with an RPC URL; a page that says it is
   calling waits for a call that runs, so that it will be told; each card has
   both outputs of one call, or its failure; and the address kept for the next
   page is one that answered. *)
CallsOnlyRead ==
  LET calls == sent \cup (IF inFlight = None THEN {} ELSE {inFlight})
  IN  /\ \A c \in calls : c.sig.read /\ c.address \in Valid /\ c.rpcUrl # ""
      /\ page # None =>
           /\ page.calling => inFlight # None
           /\ \A card \in page.feed : \E c \in sent : c.sig = card.sig /\ card.shown \in {c.answers, <<>>}
      /\ session.address # None => \E c \in sent : c.address = session.address /\ Len(c.answers) = 2
=============================================================================
