------------------------- MODULE TransactorScopes --------------------------
(***************************************************************************)
(* A small ledger for the transactors: three accounts, one of which may    *)
(* have to be funded first, a base reserve of two drops and an owner       *)
(* reserve of one.  Each scope is the least that lets the interesting      *)
(* histories of its types happen.                                          *)
(***************************************************************************)
CONSTANTS alice, bob, carol

MCAccounts == {alice, bob, carol}

Plain(types, depth) ==
  [by |-> [type \in types |-> MCAccounts], depth |-> depth, funded |-> {alice, bob},
   balance |-> 6, horizon |-> 3, preset |-> [a \in MCAccounts |-> {}], flags |-> {},
   amounts |-> {2}, tags |-> {FALSE}, issues |-> {},
   proxies |-> FALSE, signing |-> FALSE, delegates |-> FALSE, retry |-> FALSE]

(* Tickets out of order, deleting an account and funding it again.         *)
Tickets ==
  [Plain({"TicketCreate", "Payment", "AccountDelete"}, 4)
     EXCEPT !.proxies = TRUE, !.retry = TRUE]

(* Checks a destination may refuse, cash in part, or let expire.           *)
Checks ==
  [Plain({"CheckCreate", "CheckCancel", "CheckCash", "AccountSet"}, 3)
     EXCEPT !.flags = {"DisallowIncomingCheck", "RequireDestTag"}, !.tags = BOOLEAN,
            !.amounts = {1, 3}]

(* Master keys, regular keys and signer lists.                             *)
Signing ==
  [Plain({"SetRegularKey", "SignerListSet", "AccountSet"}, 3)
     EXCEPT !.flags = {"DisableMaster"}, !.signing = TRUE]

(* An account that lets another send for it.                               *)
Delegation ==
  [Plain({"DelegateSet", "Payment", "AccountSet"}, 3)
     EXCEPT !.flags = {"DisableMaster", "RequireDestTag"}, !.delegates = TRUE]

(* DepositAuth, preauthorisation of accounts and of credentials.           *)
Deposits ==
  [Plain({"DepositPreauth", "CredentialCreate", "CredentialAccept", "CredentialDelete",
          "Payment"}, 4)
     EXCEPT !.preset[bob] = {"DepositAuth"}, !.amounts = {3}, !.balance = 9, !.horizon = 2,
            !.by["DepositPreauth"] = {bob}, !.by["CredentialCreate"] = {bob}]

Identity == Plain({"DIDSet", "DIDDelete", "DomainSet", "DomainDelete"}, 3)

Oracles == Plain({"OracleSet", "OracleDelete"}, 3)

(* Escrows and channels to an account with DepositAuth, that may be gone   *)
(* by the time they end.                                                   *)
Escrows ==
  [Plain({"EscrowCreate", "EscrowFinish", "EscrowCancel", "AccountDelete"}, 4)
     EXCEPT !.preset[bob] = {"DepositAuth"}, !.balance = 8, !.by["EscrowCreate"] = {alice}]

Channels ==
  [Plain({"PaymentChannelCreate", "PaymentChannelFund", "PaymentChannelClaim",
          "AccountDelete"}, 4) EXCEPT !.preset[bob] = {"DepositAuth"}, !.balance = 8,
                                      !.by["PaymentChannelCreate"] = {alice}]

(* One issuer, two holders, a transfer fee and a maximum.                  *)
Issue(fee, max, auth) ==
  [fee |-> fee, max |-> max,
   flags |-> {"CanLock", "CanTransfer", "CanClawback"} \cup auth]

Tokens ==
  [Plain({"MPTokenIssuanceCreate", "MPTokenIssuanceDestroy", "MPTokenAuthorize",
          "MPTokenIssuanceSet", "MPTPayment", "Clawback"}, 5)
     EXCEPT !.funded = MCAccounts, !.horizon = 1, !.balance = 8,
            !.issues = {Issue(1, 0, {}), Issue(0, 2, {})},
            !.by["MPTokenIssuanceCreate"] = {alice}, !.by["Clawback"] = {alice},
            !.by["MPTokenIssuanceSet"] = {alice}]

(* Tokens held by whoever is in a domain.                                  *)
Domains ==
  [Plain({"MPTokenIssuanceCreate", "MPTokenAuthorize", "MPTPayment", "DomainSet",
          "CredentialCreate", "CredentialAccept"}, 6)
     EXCEPT !.horizon = 1, !.balance = 7, !.issues = {Issue(0, 0, {"RequireAuth"})},
            !.by = [type \in DOMAIN @ |->
                      IF type \in {"MPTokenAuthorize", "CredentialAccept"} THEN {bob}
                      ELSE {alice}]]

(* One account whose directory grows, shrinks and grows again before the   *)
(* account is deleted.                                                     *)
Pages ==
  [Plain({"CheckCreate", "CheckCancel", "AccountDelete"}, 6)
     EXCEPT !.by = [type \in DOMAIN @ |-> {alice}], !.balance = 11, !.horizon = 5,
            !.amounts = {1}]

MCScopes == {Tickets, Checks, Signing, Delegation, Deposits, Identity, Oracles, Escrows,
             Channels, Tokens, Domains, Pages}
=============================================================================
