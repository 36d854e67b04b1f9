------------------------------ MODULE MCServer ------------------------------
(***************************************************************************)
(* Instance of the parts of the server that serve transactions: the        *)
(* transaction queue.                                                      *)
(***************************************************************************)
EXTENDS TxQ, TLC

CONSTANTS A, B

T(acct, value, kind, fee) ==
    [acct |-> acct, ticket |-> FALSE, value |-> value, kind |-> kind, count |-> 0,
     fee |-> fee, base |-> 1, spend |-> 0, last |-> 0, txnid |-> FALSE]
MCTx == <<
    T(A, 1, "Payment", 1),
    [T(A, 1, "Payment", 2) EXCEPT !.spend = 4],
    [T(A, 2, "Payment", 2) EXCEPT !.last = 4],
    T(A, 2, "Payment", 13),
    T(B, 1, "RegularKeySet", 1),
    T(B, 2, "Payment", 3),
    [T(B, 9, "Payment", 1) EXCEPT !.ticket = TRUE],
    [T(A, 1, "TicketCreate", 3) EXCEPT !.count = 2],
    T(A, 4, "Payment", 3),
    [T(B, 1, "Payment", 1) EXCEPT !.base = 2]>>
MCTxs == 1 .. Len(MCTx)
MCFunded == A :> 20 @@ B :> 6
MCTickets == A :> {} @@ B :> {9}

(* What is submitted in one behaviour. *)
MCLoads == {{1, 2, 3, 4, 5, 6}, {1, 2, 3, 4, 7, 8, 9}, {2, 3, 4, 5, 7, 8, 9}, {2, 3, 5, 6, 7, 10}}
VARIABLE load
MCInit == TxQInit /\ load \in MCLoads
MCNext ==
    /\ \/ \E t \in load : Submit(t)
       \/ \E hash \in {0, 1} : Accept(hash)
       \/ \E timeLeap \in BOOLEAN : ProcessClosedLedger(timeLeap)
    /\ UNCHANGED load
MCSpec == MCInit /\ [][MCNext]_<<txqVars, load>>

(* Ledgers keep closing, so that the stage keeps turning; and the hash Accept is *)
(* given, that of the closed ledger, keeps changing.                             *)
Turns == stage' = IF stage = "open" THEN "closed" ELSE "open"
NewHashes == []<>(queue.parent = 0) /\ []<>(queue.parent = 1)
MCFairSpec == MCSpec /\ WF_stage(Turns) /\ NewHashes
=============================================================================
