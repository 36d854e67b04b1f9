--------------------------- MODULE MCTransactions ---------------------------
(***************************************************************************)
(* Bounded histories of transactions.  Part "ledger" is TransactionHistory *)
(* in the scopes of TransactorScopes.  Part "market" is NFTokenMarket on   *)
(* four accounts: NFToken pages hold two tokens, a fee and a rate are      *)
(* quarters, and accounts 1 to 3 share the last 32 bits of their ids, so   *)
(* that tokens of all three can have the same page key.  In both a         *)
(* directory page holds one key.                                           *)
(***************************************************************************)
EXTENDS NFTokenMarket

MCAccounts == 1 .. 4

MCIssuerTail == <<1, 1, 1, 3>>

Native(n) == [asset |-> XRP, n |-> n]

Issued(i, n) == [asset |-> i, n |-> n]

MintTx(ct, flags, fee, amount) ==
  [type |-> "NFTokenMint", issuer |-> None, ct |-> ct, flags |-> flags, fee |-> fee,
   uri |-> "old", amount |-> amount, dst |-> None, exp |-> 0, sell |-> TRUE]

AcceptTx(buy, sell) ==
  [type |-> "NFTokenAcceptOffer", buy |-> buy, sell |-> sell, fee |-> None]

TrustTx(peer, limit, set) ==
  [type |-> "TrustSet", peer |-> peer, limit |-> limit, quality |-> None, set |-> set,
   clear |-> {}]

Token(i, ct, seq, flags, fee) ==
  [iss |-> i, ct |-> ct, seq |-> seq, flags |-> flags, fee |-> fee]

OfferKey(a, seq) == <<"NFTokenOffer", a, seq>>

Types == {"TrustSet", "NFTokenMint", "NFTokenBurn", "NFTokenModify", "NFTokenCreateOffer",
          "NFTokenCancelOffer", "NFTokenAcceptOffer", "AccountSet", "MPTokenAuthorize",
          "EscrowCreate", "EscrowFinish", "EscrowCancel"}

Plain(by, depth) ==
  [by |-> [t \in Types |-> IF t \in DOMAIN by THEN by[t] ELSE {}], depth |-> depth,
   start |-> <<>>, balance |-> [a \in Accounts |-> 20], flags |-> [a \in Accounts |-> {}],
   rate |-> [a \in Accounts |-> 0], minter |-> [a \in Accounts |-> None],
   limits |-> {}, lineflags |-> {{}}, taxa |-> {1}, tokenflags |-> {{"Transferable"}},
   fees |-> {0}, amounts |-> {Native(0)}, exps |-> {0}, dsts |-> {None}, brokerfees |-> {},
   horizon |-> 1, peers |-> [a \in Accounts |-> Accounts],
   rates |-> {}, minters |-> {}, locks |-> {}, issuances |-> {None}, issuers |-> {}]

(* Three issuers with equal page keys: account 1 fills, splits and empties *)
(* its pages, and may find none that will do.                              *)
Pages ==
  [Plain([NFTokenMint |-> {1, 2}, NFTokenAcceptOffer |-> {1}, NFTokenBurn |-> {1, 2}], 5)
     EXCEPT !.start = << <<1, MintTx(1, {"Transferable"}, 0, None)>>,
                         <<2, MintTx(1, {"Transferable"}, 0, Native(0))>>,
                         <<3, MintTx(1, {"Transferable"}, 0, Native(0))>> >>,
            !.taxa = {1, 2}]

(* A token with a transfer fee, bought, sold and brokered for XRP.         *)
Art == Token(1, 1, 1, {"Transferable", "Burnable", "Mutable"}, 1)

Trade ==
  [Plain([NFTokenCreateOffer |-> {2, 3}, NFTokenCancelOffer |-> {2, 3},
          NFTokenAcceptOffer |-> Accounts, NFTokenBurn |-> {1, 2, 3},
          NFTokenModify |-> {1, 2}], 4)
     EXCEPT !.start = << <<1, MintTx(1, Art.flags, 1, Native(0))>>,
                         <<2, AcceptTx(None, OfferKey(1, 1))>> >>,
            !.amounts = {Native(3), Native(6)}, !.brokerfees = {Native(2)},
            !.balance[3] = 9]

(* Its offers may expire, or be for one account only.                      *)
Lapse ==
  [Trade EXCEPT !.depth = 3, !.amounts = {Native(3)}, !.brokerfees = {}, !.exps = {0, 2},
                !.horizon = 2, !.dsts = {None, 4}]

(* The same for tokens issued by account 4, which takes a half on top of   *)
(* what changes hands, and may freeze the lines.                           *)
TokenTrade ==
  [Plain([NFTokenCreateOffer |-> {2, 3}, NFTokenAcceptOffer |-> {1, 2, 3},
          TrustSet |-> {1, 4}], 4)
     EXCEPT !.start = << <<1, MintTx(1, Art.flags, 1, Native(0))>>,
                         <<2, AcceptTx(None, OfferKey(1, 1))>>,
                         <<3, TrustTx(4, 9, {})>>, <<4, TrustTx(3, 0, {"Auth"})>>,
                         <<3, MintTx(2, {"Transferable"}, 0, Issued(4, 4))>>,
                         <<4, AcceptTx(None, OfferKey(3, 2))>>, <<1, TrustTx(4, 9, {})>> >>,
            !.rate[4] = 6, !.amounts = {Issued(4, 2), Issued(4, 3)}, !.limits = {0},
            !.lineflags = {{}, {"Freeze", "DeepFreeze"}}, !.brokerfees = {Issued(4, 1)}]

(* Account 3 also has tokens of account 2, and the broker asks for those.  *)
OtherFee ==
  [TokenTrade EXCEPT !.by = Plain([NFTokenCreateOffer |-> {2, 3}, NFTokenAcceptOffer |-> {1}], 3).by,
                     !.depth = 3, !.amounts = {Issued(4, 2), Issued(4, 3)}, !.brokerfees = {Issued(2, 1)},
                     !.start = @ \o << <<3, TrustTx(2, 9, {})>>,
                                      <<3, MintTx(2, {"Transferable"}, 0, Issued(2, 2))>>,
                                      <<2, AcceptTx(None, OfferKey(3, 4))>> >>]

(* Account 4 must authorise who holds its tokens.                          *)
Authorised ==
  [TokenTrade EXCEPT !.flags[4] = {"RequireAuth"}, !.lineflags = {{}, {"Auth"}},
                     !.amounts = {Issued(4, 2)}, !.brokerfees = {}]

(* Tokens that are not transferable, a minter who may be replaced, and a   *)
(* refusing destination.                                                   *)
Bound ==
  [Plain([NFTokenMint |-> {2}, NFTokenCreateOffer |-> {1, 2, 3}, NFTokenAcceptOffer |-> Accounts,
          NFTokenBurn |-> {1, 3}, AccountSet |-> {1}], 4)
     EXCEPT !.minter[1] = 2, !.minters = {3}, !.tokenflags = {{"Burnable"}}, !.flags[4] = {"DisallowIncomingNFTokenOffer"},
            !.dsts = {None, 4}, !.amounts = {Native(1)}]

(* Account 3 has 4 of the tokens of account 4 and may escrow them, also    *)
(* for itself; account 4 changes its transfer rate and freezes lines, and  *)
(* holders give up lines.                                                  *)
LineEscrow ==
  [Plain([EscrowCreate |-> {3}, EscrowFinish |-> {1, 3}, EscrowCancel |-> {1, 3},
          TrustSet |-> {1, 3, 4}, AccountSet |-> {4}], 4)
     EXCEPT !.start = << <<3, TrustTx(4, 4, {})>>, <<4, TrustTx(3, 0, {"Auth"})>>,
                         <<3, MintTx(2, {"Transferable"}, 0, Issued(4, 4))>>,
                         <<4, AcceptTx(None, OfferKey(3, 2))>> >>,
            !.rate[4] = 5, !.flags[4] = {"AllowTrustLineLocking"}, !.rates = {4, 6},
            !.locks = {3, 4}, !.dsts = {1, 3, 4}, !.issuers = {4}, !.limits = {0},
            !.peers = [a \in Accounts |-> IF a = 4 THEN {1, 3} ELSE {4}],
            !.lineflags = {{}, {"Freeze", "DeepFreeze"}}, !.horizon = 3,
            !.balance[1] = 5]

(* The same where account 4 must authorise who holds its tokens.           *)
LineEscrowAuth ==
  [LineEscrow EXCEPT !.flags[4] = @ \cup {"RequireAuth"}, !.lineflags = {{}, {"Auth"}},
                     !.rates = {}, !.locks = {4}]

Issuance == <<"MPTokenIssuance", 4, 1>>

IssuanceTx(fee, flags) ==
  [type |-> "MPTokenIssuanceCreate", max |-> 0, fee |-> fee, flags |-> flags, domain |-> None]

HoldTx(holder) == [type |-> "MPTokenAuthorize", key |-> Issuance, un |-> FALSE, holder |-> holder]

PayTx(dst, amount) ==
  [type |-> "MPTPayment", key |-> Issuance, dst |-> dst, amount |-> amount, sendMax |-> 0,
   deliverMin |-> 0, partial |-> FALSE, tag |-> FALSE, creds |-> {}]

(* Account 3 has 4 of the issuance of account 4, at a transfer fee of a    *)
(* quarter.                                                                *)
MPTEscrow ==
  [Plain([EscrowCreate |-> {3}, EscrowFinish |-> {1, 3}, EscrowCancel |-> {1, 3},
          MPTokenAuthorize |-> {1, 3}], 4)
     EXCEPT !.start = << <<4, IssuanceTx(1, {"CanEscrow", "CanTransfer"})>>,
                         <<3, HoldTx(None)>>, <<4, PayTx(3, 4)>> >>,
            !.locks = {1, 3}, !.dsts = {1, 3, 4}, !.issuers = {4},
            !.issuances = {Issuance}, !.horizon = 3, !.balance[1] = 5]

(* The same where holders must be authorised, and cannot send tokens to    *)
(* each other.                                                             *)
MPTEscrowAuth ==
  [MPTEscrow EXCEPT !.start = << <<4, IssuanceTx(0, {"CanEscrow", "RequireAuth"})>>,
                                 <<3, HoldTx(None)>>, <<4, HoldTx(3)>>, <<4, PayTx(3, 4)>> >>,
                    !.locks = {4}]

MCScopes == {LineEscrow, LineEscrowAuth, MPTEscrow, MPTEscrowAuth, Pages, Trade, Lapse, TokenTrade,
             OtherFee, Authorised, Bound}

-----------------------------------------------------------------------------
CONSTANTS alice, bob, carol,
          GenesisSeq, FirstSeq  \* of TransactionHistory

VARIABLES part,
          main, theme, used, latest  \* ledger, scope, used and last of TransactionHistory

S == INSTANCE TransactorScopes

H == INSTANCE TransactionHistory
       WITH Accounts <- S!MCAccounts, Scopes <- S!MCScopes, qualityOne <- 2, maxMPTokenAmount <- 3,
            ledger <- main, scope <- theme, last <- latest

Idle == scope = Pages /\ ledger = Fresh(Pages) /\ last = Nothing
IdleH == theme = S!Oracles /\ main = H!Genesis(S!Oracles) /\ used = {} /\ latest = H!Nothing

MCInit == \/ part = "ledger" /\ H!Init /\ Idle
          \/ part = "market" /\ Init /\ IdleH

MCNext == /\ UNCHANGED part
          /\ \/ part = "ledger" /\ H!Next /\ UNCHANGED vars
             \/ part = "market" /\ Next /\ UNCHANGED <<main, theme, used, latest>>

MCSpec == MCInit /\ [][MCNext]_<<part, vars, main, theme, used, latest>>

View == IF part = "ledger" THEN <<part, main, theme, used>> ELSE <<part, ledger, scope>>

Swap == Permutations({alice, bob})

-----------------------------------------------------------------------------
(* The properties of TransactionHistory.                                   *)

(* Whatever the transactors did, XRP, owner counts, directories, the       *)
(* parties of entries and the amounts outstanding add up.                  *)
LedgerConsistent == H!LedgerConsistent

(* An account whose master key is disabled has another way to sign,        *)
(* through any AccountSet, SetRegularKey and SignerListSet.                *)
NeverLockedOut == H!NeverLockedOut

(* No account spends a sequence or a ticket twice, not even one that was   *)
(* deleted and funded anew.                                                *)
NoReplay == H!NoReplay

(* A transaction that fails costs its fee and nothing else.                *)
FailsCleanly == H!FailsCleanly

(* Deposit authorisation, the control over keys and delegations, and the   *)
(* notice of a channel hold against the transactions of others.            *)
RightsRespected == H!RightsRespected
=============================================================================
