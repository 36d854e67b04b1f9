------------------------------ MODULE MCNetwork ------------------------------
(* The node's side of the network in three parts, each a behaviour of its   *)
(* own: the ledger service under every order of its calls; the router       *)
(* fetching the ledgers its peers report; the overlay with its relay slot.  *)
(* The calls of the service, and what comes from outside in the other two   *)
(* (News), are limited to a budget per behaviour; what the node makes of it *)
(* is not.                                                                  *)
EXTENDS Acquisition, Overlay

CONSTANTS tA, tB, tC, pA, pB, cA, cB, cC,
          Parts, ServiceBudget, AcquireBudget, ConnectBudget, RelayBudget

VARIABLES part, budget

MCTxs == {tA, tB, tC}
n2 == <<Block({tA})>>
n3 == n2 \o <<Block({tB})>>
MCPeerLedgers == {n2, n3}
MCNetworkLedgers == {n2, n3}
MCKeyOf == (tA :> <<1, 1, 1>>) @@ (tB :> <<1, 1, 2>>) @@ (tC :> <<2, 2, 1>>)
MCGenesisKey == <<2, 1, 1>>
MCHostOf == (cA :> 1) @@ (cB :> 2) @@ (cC :> 1)

BudgetOf(x) ==
    CASE x = "service" -> ServiceBudget
      [] x = "acquire" -> AcquireBudget
      [] x = "connect" -> ConnectBudget
      [] x = "relay" -> RelayBudget

(* The relay part begins with two peers connected.                          *)
Connected ==
    /\ dialing = {} /\ joining = {} /\ peers = {cA, cB} /\ closed = {}
    /\ events = <<>> /\ messages = <<>>
    /\ known = {cA, cB} /\ hints = {} /\ reported = {}
    /\ bad = [c \in PeerIDs |-> 0]
    /\ muted = bad /\ told = bad
    /\ slot = NoSlot
    /\ relayed = [peers |-> {}, age |-> RelayedTicks]
    /\ wronged = {}

MCInit ==
    /\ part \in Parts
    /\ budget = BudgetOf(part)
    /\ AcquisitionInit
    /\ IF part = "relay" THEN Connected ELSE OverlayInit

mcVars == <<allVars, overlayVars, part, budget>>

Spend == budget > 0 /\ budget' = budget - 1 /\ UNCHANGED part
Free == UNCHANGED <<part, budget>>

ServiceStep ==
    /\ part = "service"
    /\ \/ SubmitTransaction(tA)
       \/ \E T \in {{}, {tA}} : AcceptConsensusResult(T) \/ AcceptConsensusResultFails(T)
       \/ \E l \in {svc.ledgerHistory[i] : i \in Seqs} : SwitchLedger(l)
       \/ \E l \in NetworkLedgers : SetValidatedLedger(l)
       \/ \E l \in PeerLedgers : SubmitHeldAdoption(l)
       \/ \E l \in PeerLedgers : AdoptLedgerHeader(l)
       \/ \E l \in PeerLedgers : AdoptLedgerWithState(l)
       \/ Tick
    /\ Spend
    /\ UNCHANGED <<netVars, overlayVars>>

AcquireStep ==
    /\ part = "acquire"
    /\ (AcquisitionNews /\ Spend) \/ (AcquisitionReaction /\ Free)
    /\ UNCHANGED overlayVars

RelayNews == \E c \in PeerIDs : Receive(c, "validation") \/ Close(c)

OverlayStep ==
    /\ part \in {"connect", "relay"}
    /\ \/ part = "connect" /\ OverlayNews /\ Spend
       \/ part = "relay" /\ RelayNews /\ Spend
       \/ OverlayWork /\ Free
    /\ UNCHANGED allVars

MCNext == ServiceStep \/ AcquireStep \/ OverlayStep

MCSpec == MCInit /\ [][MCNext]_mcVars

(* The timers and the goroutines that always run: the router's ticker, the  *)
(* event loop, the router, the relay sweep, and a run loop that has seen    *)
(* its connection close.                                                    *)
Acquires(A) == part = "acquire" /\ A /\ Free /\ UNCHANGED overlayVars
Overlays(A) == part \in {"connect", "relay"} /\ A /\ Free /\ UNCHANGED allVars

MCFairSpec ==
    /\ MCSpec
    /\ WF_mcVars(Acquires(MaintenanceTick)) /\ WF_mcVars(Acquires(Elapse))
    /\ WF_mcVars(Overlays(HandleEvent)) /\ WF_mcVars(Overlays(RouterHandle))
    /\ WF_mcVars(Overlays(IdleSweep)) /\ WF_mcVars(Overlays(TimePasses))
    /\ \A c \in PeerIDs : WF_mcVars(Overlays(RemovePeer(c)))

(* What is over is let go of: a replay, by the ticker of Router.Run; a      *)
(* connection, by the event loop, the router and the relay's idle sweep.    *)
NothingLingers == ReplayEnds /\ DeadForgotten

(* No guard and no property but AdoptionChains reads result, and that one   *)
(* only compares it across a step; charged and wronged are read by nothing  *)
(* the passing run checks.                                                  *)
NetworkView == <<svc, prevLedger, quorumed, published, twice,
                 connected, peerStates, mode, acq, hollow, torn,
                 conns, events, messages, known, hints, reported, bad, muted, told, slot, relayed,
                 part, budget>>
=============================================================================
