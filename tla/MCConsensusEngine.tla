------------------------- MODULE MCConsensusEngine -------------------------
(* Instances of ConsensusEngine for TLC.                                    *)
EXTENDS ConsensusEngine, TLC

CONSTANTS p1, p2, s1, s2

P(n, prev, pos, set) == [node |-> n, prev |-> prev, pos |-> pos, set |-> set]

(* Both peers may follow genesis or the ledger <<s2>>, which this node may    *)
(* or may not have when it hears of it; p1 may bow out.                      *)
ProposalsAndForks ==
    {P(p1, Genesis, 0, s1), P(p1, Genesis, SeqLeave, s1), P(p1, <<s2>>, 0, s1),
     P(p2, Genesis, 0, s2), P(p2, <<s2>>, 0, s2)}

ForkLedgers == {<<s2>>}

(* No action and no temporal property reads what was sent or signed before. *)
EngineView == <<e, stored, lcl, shut, recovering>>
=============================================================================
