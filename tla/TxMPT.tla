------------------------------- MODULE TxMPT --------------------------------
(***************************************************************************)
(* Multi-purpose tokens: issuances, the tokens holders keep, direct        *)
(* payments of them and their clawback.                                    *)
(***************************************************************************)
EXTENDS TxHoldings

CONSTANTS maxMPTokenAmount      \* the largest amount of a token

ASSUME TxMPTConstants == maxMPTokenAmount \in Nat

TokenKey(holder, issuance) == <<"MPToken", holder, issuance>>

-----------------------------------------------------------------------------
(* MPTokenIssuanceCreate.Apply; t.max = 0 is no maximum, t.fee the excess  *)
(* of the transfer rate over qualityOne.  The directory page is not        *)
(* recorded, here and for tokens.                                          *)
MPTokenIssuanceCreate(c, t) ==
  LET key == <<"MPTokenIssuance", c.id, t.proxy>>
  IN  IF c.a.bal < AccountReserve(c.a.own + 1) THEN Fail(c, "tecINSUFFICIENT_RESERVE")
      ELSE IF LinkFails(c.v, c.id, key) THEN Fail(c, "tecDIR_FULL")
      ELSE Ok(Own(c, key, [owner |-> c.id, outstanding |-> 0, locked |-> 0, max |-> t.max,
                           fee |-> t.fee, flags |-> t.flags, domain |-> t.domain, node |-> 0]))

MPTokenIssuanceDestroy(c, t) ==
  IF ~Exists(c.v, t.key) THEN Fail(c, "tecOBJECT_NOT_FOUND")
  ELSE IF Read(c.v, t.key).owner # c.id THEN Fail(c, "tecNO_PERMISSION")
  ELSE IF Read(c.v, t.key).outstanding # 0 \/ Read(c.v, t.key).locked # 0
    THEN Fail(c, "tecHAS_OBLIGATIONS")
  ELSE Ok(Disown(c, t.key, 0, FALSE))

(* t.lock is "lock", "unlock" or "none"; t.holder = None aims at the       *)
(* issuance; t.setDomain says a domain (None clears it) is given.          *)
Locked(flags, lock) ==
  IF lock = "lock" THEN flags \cup {"Locked"}
  ELSE IF lock = "unlock" THEN flags \ {"Locked"} ELSE flags

SetHolderToken(c, t) ==
  LET key == TokenKey(t.holder, t.key)
  IN  IF ~HasAccount(c.v, t.holder) THEN Fail(c, "tecNO_DST")
      ELSE IF ~Exists(c.v, key) THEN Fail(c, "tecOBJECT_NOT_FOUND")
      ELSE Ok([c EXCEPT !.v.obj[key].flags = Locked(@, t.lock)])

SetIssuance(c, t) ==
  IF t.setDomain /\ "RequireAuth" \notin Read(c.v, t.key).flags
    THEN Fail(c, "tecNO_PERMISSION")
  ELSE IF t.setDomain /\ t.domain # None /\ ~Exists(c.v, t.domain)
    THEN Fail(c, "tecOBJECT_NOT_FOUND")
  ELSE Ok([c EXCEPT !.v.obj[t.key] =
             [@ EXCEPT !.flags = Locked(@, t.lock),
                       !.domain = IF t.setDomain THEN t.domain ELSE @]])

MPTokenIssuanceSet(c, t) ==
  IF t.lock = "none" /\ ~t.setDomain THEN Fail(c, "temMALFORMED")
  ELSE IF ~Exists(c.v, t.key) THEN Fail(c, "tecOBJECT_NOT_FOUND")
  ELSE IF "CanLock" \notin Read(c.v, t.key).flags /\ t.lock # "none"
    THEN Fail(c, "tecNO_PERMISSION")
  ELSE IF Read(c.v, t.key).owner # c.id THEN Fail(c, "tecNO_PERMISSION")
  ELSE IF t.holder # None THEN SetHolderToken(c, t)
  ELSE SetIssuance(c, t)

-----------------------------------------------------------------------------
(* MPTokenAuthorize.Apply: a holder opts in or out, or the issuer allows   *)
(* and disallows a holder.                                                 *)
HolderUnauthorize(c, t) ==
  LET key == TokenKey(c.id, t.key)
  IN  IF ~Exists(c.v, key) THEN Fail(c, "tecOBJECT_NOT_FOUND")
      ELSE IF Read(c.v, key).amount # 0 \/ Read(c.v, key).locked # 0
        THEN Fail(c, "tecHAS_OBLIGATIONS")
      ELSE IF "Locked" \in Read(c.v, key).flags THEN Fail(c, "tecNO_PERMISSION")
      ELSE Ok(Disown(c, key, 0, FALSE))

HolderAuthorize(c, t) ==
  LET key == TokenKey(c.id, t.key)
  IN  IF ~Exists(c.v, t.key) THEN Fail(c, "tecOBJECT_NOT_FOUND")
      ELSE IF Read(c.v, t.key).owner = c.id THEN Fail(c, "tecNO_PERMISSION")
      ELSE IF Exists(c.v, key) THEN Fail(c, "tecDUPLICATE")
      ELSE IF c.a.bal < ReserveForNewObject(c.a.own) THEN Fail(c, "tecINSUFFICIENT_RESERVE")
      ELSE IF LinkFails(c.v, c.id, key) THEN Fail(c, "tecDIR_FULL")
      ELSE Ok(Own(c, key, [owner |-> c.id, amount |-> 0, locked |-> 0, flags |-> {}, node |-> 0]))

IssuerAuthorize(c, t) ==
  LET key == TokenKey(t.holder, t.key)
  IN  IF ~HasAccount(c.v, t.holder) THEN Fail(c, "tecNO_DST")
      ELSE IF ~Exists(c.v, t.key) THEN Fail(c, "tecOBJECT_NOT_FOUND")
      ELSE IF Read(c.v, t.key).owner # c.id THEN Fail(c, "tecNO_PERMISSION")
      ELSE IF "RequireAuth" \notin Read(c.v, t.key).flags THEN Fail(c, "tecNO_AUTH")
      ELSE IF ~Exists(c.v, key) THEN Fail(c, "tecOBJECT_NOT_FOUND")
      ELSE Ok([c EXCEPT !.v.obj[key].flags =
                 IF t.un THEN @ \ {"Authorized"} ELSE @ \cup {"Authorized"}])

MPTokenAuthorize(c, t) ==
  IF t.holder # None THEN IssuerAuthorize(c, t)
  ELSE IF t.un THEN HolderUnauthorize(c, t)
  ELSE HolderAuthorize(c, t)

-----------------------------------------------------------------------------
(* validDomain: an accepted credential of one of the domain's issuers.     *)
ValidDomain(v, domain, id) ==
  LET held == {CredKey(id, i) : i \in Read(v, domain).issuers} \cap DOMAIN v.obj
  IN  IF ~Exists(v, domain) THEN "tecOBJECT_NOT_FOUND"
      ELSE IF \E k \in held : Read(v, k).accepted /\ ~CheckCredentialExpired(v, k)
        THEN "tesSUCCESS"
      ELSE IF \E k \in held : CheckCredentialExpired(v, k) THEN "tecEXPIRED"
      ELSE "tecNO_AUTH"

RequireMPTAuth(v, key, id) ==
  LET i     == Read(v, key)
      token == Exists(v, TokenKey(id, key))
      rule  == "RequireAuth" \in i.flags
  IN  IF id = i.owner THEN "tesSUCCESS"
      ELSE IF ~token /\ rule
        THEN IF i.domain # None THEN ValidDomain(v, i.domain, id) ELSE "tecNO_AUTH"
      ELSE IF i.domain # None /\ (ValidDomain(v, i.domain, id) = "tesSUCCESS" \/ ~token)
        THEN ValidDomain(v, i.domain, id)
      ELSE IF rule /\ (~token \/ "Authorized" \notin Read(v, TokenKey(id, key)).flags)
        THEN "tecNO_AUTH"
      ELSE "tesSUCCESS"

MptMultiply(amount, rate) == (amount * rate) \div qualityOne

MptDivide(amount, rate) == (amount * qualityOne) \div rate

(* Moving amount units between a token or the issuer and another.          *)
IsLocked(v, key) == Exists(v, key) /\ "Locked" \in Read(v, key).flags

(* mptDirectTransfer: one side is the issuer, whose side is the issuance's *)
(* outstanding amount.                                                     *)
MptDirectTransfer(c, t, amount) ==
  LET i    == Read(c.v, t.key)
      max  == IF i.max = 0 THEN maxMPTokenAmount ELSE i.max
      from == TokenKey(c.id, t.key)
      to   == TokenKey(t.dst, t.key)
  IN  IF c.id = i.owner
        THEN IF amount > max \/ i.outstanding > max - amount THEN Fail(c, "tecPATH_PARTIAL")
             ELSE IF ~Exists(c.v, to) THEN Fail(c, "tecNO_AUTH")
             ELSE Ok([c EXCEPT !.v.obj[t.key].outstanding = @ + amount,
                               !.v.obj[to].amount = @ + amount])
      ELSE IF ~Exists(c.v, from) THEN Fail(c, "tecNO_AUTH")
      ELSE IF Read(c.v, from).amount < amount THEN Fail(c, "tecPATH_PARTIAL")
      ELSE IF i.outstanding < amount THEN Fail(c, "tefINTERNAL")
      ELSE Ok([c EXCEPT !.v.obj[t.key].outstanding = @ - amount,
                        !.v.obj[from].amount = @ - amount])

(* mptTransitTransfer: the sender pays the fee on top, and it is gone.     *)
MptTransitTransfer(c, t, amount, rate) ==
  LET from   == TokenKey(c.id, t.key)
      to     == TokenKey(t.dst, t.key)
      actual == MptMultiply(amount, rate)
  IN  IF ~Exists(c.v, to) \/ ~Exists(c.v, from) THEN Fail(c, "tecNO_AUTH")
      ELSE IF Read(c.v, from).amount < actual THEN Fail(c, "tecPATH_PARTIAL")
      ELSE Ok([c EXCEPT !.v.obj[t.key].outstanding = @ + amount - actual,
                        !.v.obj[from].amount = @ - actual,
                        !.v.obj[to].amount = @ + amount])

(* Payment.applyMPTPayment without credentials; t.sendMax = 0 and          *)
(* t.deliverMin = 0 are absent.                                            *)
MPTPayment(c, t) ==
  LET i      == Read(c.v, t.key)
      direct == i.owner \in {c.id, t.dst}
      rate   == IF direct THEN qualityOne ELSE qualityOne + i.fee
      max    == IF t.sendMax = 0 THEN t.amount ELSE t.sendMax
      need   == MptMultiply(t.amount, rate)
      cut    == t.partial /\ need > max
      give   == IF cut THEN MptDivide(max, rate) ELSE t.amount
  IN  IF ~Exists(c.v, t.key) THEN Fail(c, "tecOBJECT_NOT_FOUND")
      ELSE IF ~HasAccount(c.v, t.dst) THEN Fail(c, "tecNO_DST")
      ELSE IF TagMissing(c.v, t.dst, t.tag) THEN Fail(c, "tecDST_TAG_NEEDED")
      ELSE IF RequireMPTAuth(c.v, t.key, c.id) # "tesSUCCESS"
        THEN Fail(c, RequireMPTAuth(c.v, t.key, c.id))
      ELSE IF RequireMPTAuth(c.v, t.key, t.dst) # "tesSUCCESS"
        THEN Fail(c, RequireMPTAuth(c.v, t.key, t.dst))
      ELSE IF ~MayDeposit(c, t, t.dst) THEN Fail(c, "tecNO_PERMISSION")
      ELSE IF ~direct /\ "CanTransfer" \notin i.flags THEN Fail(c, "tecNO_AUTH")
      ELSE IF /\ ~direct
              /\ \/ "Locked" \in i.flags
                 \/ IsLocked(c.v, TokenKey(c.id, t.key))
                 \/ IsLocked(c.v, TokenKey(t.dst, t.key))
        THEN Fail(c, "tecLOCKED")
      ELSE IF need > max /\ ~cut THEN Fail(c, "tecPATH_PARTIAL")
      ELSE IF give < t.deliverMin THEN Fail(c, "tecPATH_PARTIAL")
      ELSE IF direct THEN MptDirectTransfer(c, t, give)
      ELSE MptTransitTransfer(c, t, give, rate)

(* Clawback.applyMPT: up to what the holder has.                           *)
ClawbackMPT(c, t) ==
  LET i      == Read(c.v, t.key)
      key    == TokenKey(t.holder, t.key)
      actual == IF t.amount < Read(c.v, key).amount THEN t.amount ELSE Read(c.v, key).amount
  IN  IF ~Exists(c.v, t.key) THEN Fail(c, "tecOBJECT_NOT_FOUND")
      ELSE IF "CanClawback" \notin i.flags \/ i.owner # c.id THEN Fail(c, "tecNO_PERMISSION")
      ELSE IF ~Exists(c.v, key) THEN Fail(c, "tecOBJECT_NOT_FOUND")
      ELSE IF Read(c.v, key).amount = 0 THEN Fail(c, "tecINSUFFICIENT_FUNDS")
      ELSE Ok([c EXCEPT !.v.obj[key].amount = @ - actual,
                        !.v.obj[t.key].outstanding = Less(@, actual)])
=============================================================================
