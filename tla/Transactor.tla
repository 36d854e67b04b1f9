----------------------------- MODULE Transactor -----------------------------
(***************************************************************************)
(* The transaction engine, src/internal/tx/engine.go: what happens to a    *)
(* ledger when one transaction after another is applied to it.  Preclaim   *)
(* judges the sequence or ticket, the fee, a delegation and the signature; *)
(* doApply takes the fee, runs the transactor and commits, or on a tec     *)
(* code throws its changes away and claims the fee alone.                  *)
(*                                                                         *)
(* A transaction is a record: type, the fields of the type (TxObjects,     *)
(* TxHoldings, TxMPT), and the common ones:                                *)
(*   seq, ticket  the sequence, or 0 and the ticket                        *)
(*   proxy        whichever of the two is used (SeqProxy)                  *)
(*   delegate     who sends it for the account, or None                    *)
(*   signer       the account whose master key signed it, or None          *)
(*   multi        the pairs of signer and key of a multi-signed one        *)
(*   creds        the credentials it names                                 *)
(*   retry        ApplyFlags has TapRETRY                                  *)
(* The ledger is closed (no fee escalation); the fee is the base fee, and  *)
(* the owner reserve for AccountDelete.  AccountTxnID, LastLedgerSequence, *)
(* the duplicate-hash test and the free password change are left out.      *)
(***************************************************************************)
EXTENDS TxMPT

-----------------------------------------------------------------------------
(* calculateFee.                                                           *)
Fee(t) == IF t.type = "AccountDelete" THEN ReserveIncrement ELSE BaseFee

TicketKey(id, n) == <<"Ticket", id, n>>

(* preclaim, checkSeqProxy.                                                *)
CheckSeqProxy(v, id, t) ==
  LET seq == v.acct[id].seq
  IN  IF t.ticket # 0
        THEN IF t.ticket >= seq THEN "terPRE_TICKET"
             ELSE IF ~Exists(v, TicketKey(id, t.ticket)) THEN "tefNO_TICKET"
             ELSE "tesSUCCESS"
      ELSE IF t.seq < seq THEN "tefPAST_SEQ"
      ELSE IF t.seq > seq THEN "terPRE_SEQ"
      ELSE "tesSUCCESS"

(* preclaim, checkFee: the delegate pays when there is one.                *)
Payer(id, t) == IF t.delegate = None THEN id ELSE t.delegate

CheckFee(v, id, t) ==
  IF ~HasAccount(v, Payer(id, t)) THEN "terNO_ACCOUNT"
  ELSE IF v.acct[Payer(id, t)].bal < Fee(t) THEN "terINSUF_FEE_B"
  ELSE "tesSUCCESS"

(* preclaim, checkPermission.                                              *)
CheckPermission(v, id, t) ==
  LET key == DelegateKey(id, t.delegate)
  IN  IF t.delegate # None /\ (IF Exists(v, key) THEN t.type \notin Read(v, key).perms ELSE TRUE)
        THEN "tecNO_DELEGATE_PERMISSION"
        ELSE "tesSUCCESS"

(* checkBatchMultiSign: every signer is listed and signs with a key of its *)
(* own, and together they reach the quorum.                                *)
CheckMultiSign(v, id, multi) ==
  LET key  == <<"SignerList", id>>
      list == Read(v, key)
      root(s) == v.acct[s[1]]
  IN  IF ~Exists(v, key) THEN "tefNOT_MULTI_SIGNING"
      ELSE IF \E s \in multi : s[1] \notin list.signers THEN "tefBAD_SIGNATURE"
      ELSE IF \E s \in multi : /\ s[1] = s[2]
                               /\ HasAccount(v, s[1]) /\ "DisableMaster" \in root(s).flags
        THEN "tefMASTER_DISABLED"
      ELSE IF \E s \in multi : s[1] # s[2] /\ (~HasAccount(v, s[1]) \/ root(s).regKey # s[2])
        THEN "tefBAD_SIGNATURE"
      ELSE IF Cardinality(multi) < list.quorum THEN "tefBAD_QUORUM"
      ELSE "tesSUCCESS"

(* preclaim, checkSign: the delegate's keys when there is one.             *)
CheckSign(v, id, t) ==
  LET by   == Payer(id, t)
      root == v.acct[by]
  IN  IF t.multi # {} THEN CheckMultiSign(v, by, t.multi)
      ELSE IF t.signer = root.regKey THEN "tesSUCCESS"
      ELSE IF t.signer # by THEN "tefBAD_AUTH"
      ELSE IF "DisableMaster" \in root.flags THEN "tefMASTER_DISABLED"
      ELSE "tesSUCCESS"

(* The checks of preclaim one after another; the first that fails counts.  *)
(* The delegate may not be the account itself (preflight).                 *)
Preclaim(v, id, t) ==
  IF t.delegate = id THEN "temBAD_SIGNER"
  ELSE IF ~HasAccount(v, id) THEN "terNO_ACCOUNT"
  ELSE LET checks == <<CheckSeqProxy(v, id, t), CheckFee(v, id, t),
                       CheckPermission(v, id, t),
                       IF HasAccount(v, Payer(id, t)) THEN CheckSign(v, id, t)
                                                      ELSE "terNO_ACCOUNT",
                       IF t.type = "EscrowCreate" /\ EscrowPreclaim(v, t)
                         THEN "tecNO_PERMISSION" ELSE "tesSUCCESS">>
           failed == SelectSeq(checks, LAMBDA ter : ter # "tesSUCCESS")
       IN  IF failed = <<>> THEN "tesSUCCESS" ELSE Head(failed)

-----------------------------------------------------------------------------
(* state.GetOwnerNode, which takes for OwnerNode the eight bytes behind    *)
(* the first byte 0x34 of an entry.  A ticket is written with OwnerNode 0; *)
(* the ledger sequence of its creation and its own sequence stand before   *)
(* that field, and a byte 0x34 in one of them yields a number larger than  *)
(* that of any page.                                                       *)
HasByte(n, b) == \E i \in 0 .. 3 : (n \div 256 ^ i) % 256 = b

GetOwnerNode(key, ticket) ==
  IF HasByte(ticket.lgrSeq, 52) \/ HasByte(key[3], 52) THEN DirNodeMaxPages ELSE 0

(* What every applied transaction does first, and a tec does alone: the    *)
(* fee, and the sequence or the ticket.                                    *)
Charged(v, id, t) ==
  LET paid == [v EXCEPT !.acct[Payer(id, t)].bal = @ - Fee(t)]
      key  == TicketKey(id, t.ticket)
      less == [paid EXCEPT !.acct[id].own = Less(@, 1), !.acct[id].tickets = Less(@, 1)]
  IN  IF t.ticket = 0 THEN [paid EXCEPT !.acct[id].seq = t.seq + 1]
      ELSE Erase(Unlink(less, id, GetOwnerNode(key, Read(v, key)), key, TRUE), key)

(* TecApplier: what survives tecEXPIRED.                                   *)
ApplyOnTec(v, id, t) ==
  IF t.type = "CredentialAccept" THEN AcceptOnTec(v, id, t)
  ELSE IF t.type \in {"Payment", "EscrowFinish", "PaymentChannelClaim", "AccountDelete"}
    THEN RemoveExpired(v, t)
  ELSE v

(* Appliable.Apply of each type.                                           *)
Transact(c, t) ==
  CASE t.type = "TicketCreate" -> TicketCreate(c, t)
    [] t.type = "CheckCreate" -> CheckCreate(c, t)
    [] t.type = "CheckCancel" -> CheckCancel(c, t)
    [] t.type = "CheckCash" -> CheckCash(c, t)
    [] t.type = "SetRegularKey" -> SetRegularKey(c, t)
    [] t.type = "SignerListSet" -> SignerListSet(c, t)
    [] t.type = "DIDSet" -> DIDSet(c, t)
    [] t.type = "DIDDelete" -> DIDDelete(c, t)
    [] t.type = "DepositPreauth" -> DepositPreauth(c, t)
    [] t.type = "CredentialCreate" -> CredentialCreate(c, t)
    [] t.type = "CredentialAccept" -> CredentialAccept(c, t)
    [] t.type = "CredentialDelete" -> CredentialDelete(c, t)
    [] t.type = "DelegateSet" -> DelegateSet(c, t)
    [] t.type = "OracleSet" -> OracleSet(c, t)
    [] t.type = "OracleDelete" -> OracleDelete(c, t)
    [] t.type = "DomainSet" -> DomainSet(c, t)
    [] t.type = "DomainDelete" -> DomainDelete(c, t)
    [] t.type = "Payment" -> Payment(c, t)
    [] t.type = "EscrowCreate" -> EscrowCreate(c, t)
    [] t.type = "EscrowFinish" -> EscrowFinish(c, t)
    [] t.type = "EscrowCancel" -> EscrowCancel(c, t)
    [] t.type = "PaymentChannelCreate" -> PaymentChannelCreate(c, t)
    [] t.type = "PaymentChannelFund" -> PaymentChannelFund(c, t)
    [] t.type = "PaymentChannelClaim" -> PaymentChannelClaim(c, t)
    [] t.type = "AccountSet" -> AccountSet(c, t)
    [] t.type = "AccountDelete" -> AccountDelete(c, t)
    [] t.type = "MPTokenIssuanceCreate" -> MPTokenIssuanceCreate(c, t)
    [] t.type = "MPTokenIssuanceDestroy" -> MPTokenIssuanceDestroy(c, t)
    [] t.type = "MPTokenIssuanceSet" -> MPTokenIssuanceSet(c, t)
    [] t.type = "MPTokenAuthorize" -> MPTokenAuthorize(c, t)
    [] t.type = "MPTPayment" -> MPTPayment(c, t)
    [] t.type = "Clawback" -> ClawbackMPT(c, t)

-----------------------------------------------------------------------------
(* The invariant checks run before a success is committed, for the entries *)
(* modelled here.                                                          *)
KeysOf(v, type) == {k \in DOMAIN v.obj : k[1] = type}

XRPHeld(v) ==
  LET balance(a) == v.acct[a].bal
      escrowed(k) == v.obj[k].amount
      channelled(k) == v.obj[k].amount - v.obj[k].balance
  IN  MapThenSumSet(balance, DOMAIN v.acct) + MapThenSumSet(escrowed, KeysOf(v, "Escrow"))
        + MapThenSumSet(channelled, KeysOf(v, "PayChannel"))

(* checkXRPBalances: an unsigned balance that wrapped exceeds the supply;  *)
(* it is negative here.                                                    *)
XRPBalancesBad(v) == \E a \in DOMAIN v.acct : v.acct[a].bal < 0

XRPCreated(old, v) == XRPHeld(v) > XRPHeld(old)

AccountRootsBad(old, v, t) ==
  LET gone == DOMAIN old.acct \ DOMAIN v.acct
      new  == DOMAIN v.acct \ DOMAIN old.acct
  IN  \/ gone # {} /\ (t.type # "AccountDelete" \/ Cardinality(gone) # 1)
      \/ new # {} /\ (t.type # "Payment" \/ Cardinality(new) # 1)

(* checkAccountRootsDeletedClean.                                          *)
DeletedUnclean(old, v) ==
  \E a \in DOMAIN old.acct \ DOMAIN v.acct :
    \/ 0 \in DOMAIN v.dir[a]
    \/ Exists(v, <<"SignerList", a>>) \/ Exists(v, <<"DID", a>>)

(* checkNoZeroEscrow, over the entries touched.                            *)
ZeroEscrow(old, v) ==
  \E k \in KeysOf(v, "Escrow") : v.obj[k].amount = 0 /\ k \notin DOMAIN old.obj

(* checkValidMPTIssuance.                                                  *)
MPTIssuanceBad(old, v, t) ==
  LET made(type)   == Cardinality(KeysOf(v, type) \ KeysOf(old, type))
      gone(type)   == Cardinality(KeysOf(old, type) \ KeysOf(v, type))
      issuances(m, d) == made("MPTokenIssuance") = m /\ gone("MPTokenIssuance") = d
      tokens       == made("MPToken") + gone("MPToken")
  IN  IF t.type = "MPTokenIssuanceCreate" THEN ~issuances(1, 0)
      ELSE IF t.type = "MPTokenIssuanceDestroy" THEN ~issuances(0, 1)
      ELSE IF t.type = "MPTokenAuthorize"
        THEN ~issuances(0, 0) \/ tokens # (IF t.holder = None THEN 1 ELSE 0)
      ELSE t.type # "EscrowFinish" /\ (~issuances(0, 0) \/ tokens # 0)

(* checkValidPermissionedDomain.                                           *)
DomainBad(v, t) ==
  t.type = "DomainSet" /\ \E k \in KeysOf(v, "Domain") : v.obj[k].issuers = {}

InvariantFails(old, v, t) ==
  \/ XRPBalancesBad(v) \/ XRPCreated(old, v) \/ AccountRootsBad(old, v, t)
  \/ DeletedUnclean(old, v) \/ ZeroEscrow(old, v) \/ MPTIssuanceBad(old, v, t)
  \/ DomainBad(v, t)

-----------------------------------------------------------------------------
(* doApply.  The sender's account root in memory overwrites the view's     *)
(* copy, unless the transactor erased the account.                         *)
Commit(r, id) ==
  IF HasAccount(r.c.v, id) THEN UpdateAccountRoot(r.c.v, id, r.c.a) ELSE r.c.v

(* A mutant: the fee is taken, the sequence or ticket is not.              *)
ClaimFeeAlone(v, id, t, ter) ==
  [ter |-> ter, v |-> [v EXCEPT !.acct[Payer(id, t)].bal = @ - Fee(t)]]

Claim(v, id, t, ter) ==
  LET w == Charged(v, id, t)
  IN  [ter |-> ter, v |-> IF ter = "tecEXPIRED" THEN ApplyOnTec(w, id, t) ELSE w]

(* A success is committed if no invariant fails on it; if one does, the    *)
(* fee alone is, provided no invariant fails on that.                      *)
CheckedCommit(v, w, n, t) ==
  IF ~InvariantFails(v, n, t) THEN [ter |-> "tesSUCCESS", v |-> n]
  ELSE IF ~InvariantFails(v, w, t) THEN [ter |-> "tecINVARIANT_FAILED", v |-> w]
  ELSE [ter |-> "tefINVARIANT_FAILED", v |-> v]

(* v is the ledger, w the same after the fee, r what the transactor did.   *)
Conclude(v, w, id, t, r) ==
  IF r.ter = "tesSUCCESS" THEN CheckedCommit(v, w, Commit(r, id), t)
  ELSE IF IsTec(r.ter) /\ ~t.retry THEN Claim(v, id, t, r.ter)
  ELSE [ter |-> r.ter, v |-> v]

ApplyCharged(v, w, id, t) ==
  Conclude(v, w, id, t, Transact([v |-> w, id |-> id, a |-> w.acct[id]], t))

DoApply(v, id, t) == ApplyCharged(v, Charged(v, id, t), id, t)

(* Engine.Apply: the outcome, whether it counts as applied, and the fee    *)
(* destroyed if it does.                                                   *)
AfterPreclaim(v, id, t, pre) ==
  IF pre = "tesSUCCESS" THEN DoApply(v, id, t)
  ELSE IF IsTec(pre) /\ ~t.retry THEN [ter |-> pre, v |-> Charged(v, id, t)]
  ELSE [ter |-> pre, v |-> v]

Outcome(t, r) ==
  LET applied == r.ter = "tesSUCCESS" \/ (IsTec(r.ter) /\ ~t.retry)
  IN  [ter |-> r.ter, applied |-> applied,
       v |-> IF applied THEN [r.v EXCEPT !.burned = @ + Fee(t)] ELSE r.v]

Apply(v, id, t) == Outcome(t, AfterPreclaim(v, id, t, Preclaim(v, id, t)))
=============================================================================
