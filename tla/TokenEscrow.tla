----------------------------- MODULE TokenEscrow -----------------------------
(***************************************************************************)
(* Escrows of tokens (src/internal/tx/escrow/token_helpers.go and the      *)
(* token branches of EscrowCreate, EscrowFinish and EscrowCancel).         *)
(*                                                                         *)
(* An escrow of a token holds iss, the account that issues it, mpt, the    *)
(* issuance it belongs to (None for a token held on trust lines), and      *)
(* rate, the transfer rate when it was made.  What a trust line's holder   *)
(* locks leaves the line; what an MPToken's holder locks moves from the    *)
(* token's amount to its locked amount, and is counted on the issuance.    *)
(***************************************************************************)
EXTENDS TxMPT, TrustLines

(* requireAuthIOU: an issuer that asks for it must have authorised a line  *)
(* that exists.                                                            *)
RequireAuthIOU(v, iss, id) ==
  IF id = iss \/ "RequireAuth" \notin v.acct[iss].flags THEN "tesSUCCESS"
  ELSE IF ~HasLine(v, id, iss) THEN "tecNO_LINE"
  ELSE IF "Auth" \in LineFlags(v, id, iss, iss) THEN "tesSUCCESS" ELSE "tecNO_AUTH"

(* requireMPTAuthForEscrow: an account without a token passes.             *)
RequireMPTAuthForEscrow(v, mpt, id) ==
  IF /\ id # Read(v, mpt).owner /\ "RequireAuth" \in Read(v, mpt).flags
     /\ Exists(v, TokenKey(id, mpt)) /\ "Authorized" \notin Read(v, TokenKey(id, mpt)).flags
    THEN "tecNO_AUTH" ELSE "tesSUCCESS"

IsMPTFrozen(v, mpt, id) ==
  /\ id # Read(v, mpt).owner
  /\ IsLocked(v, mpt) \/ IsLocked(v, TokenKey(id, mpt))

CanTransferMPT(v, mpt, from, to) ==
  "CanTransfer" \in Read(v, mpt).flags \/ Read(v, mpt).owner \in {from, to}

(* The first of a sequence of answers that is not a success.               *)
FirstRefusal(answers) ==
  LET bad == {i \in DOMAIN answers : answers[i] # "tesSUCCESS"}
  IN  IF bad = {} THEN "tesSUCCESS" ELSE answers[Min(bad)]

Needs(ok, ter) == IF ok THEN "tesSUCCESS" ELSE ter

-----------------------------------------------------------------------------
(* escrowCreatePreclaimIOU.  Amounts are exact here, so that no sum loses  *)
(* digits (canAddIOUAmounts).                                              *)
EscrowCreatePreclaimIOU(v, id, dst, iss, n) ==
  IF id = iss THEN "tecNO_PERMISSION"
  ELSE IF ~HasAccount(v, iss) THEN "tecNO_ISSUER"
  ELSE FirstRefusal(<<
    Needs("AllowTrustLineLocking" \in v.acct[iss].flags, "tecNO_PERMISSION"),
    Needs(HasLine(v, id, iss), "tecNO_LINE"),
    Needs(Held(v, id, iss) >= 0, "tecNO_PERMISSION"),
    RequireAuthIOU(v, iss, id),
    RequireAuthIOU(v, iss, dst),
    Needs(~IsFrozen(v, id, iss) /\ ~IsFrozen(v, dst, iss), "tecFROZEN"),
    Needs(Held(v, id, iss) > 0 /\ Held(v, id, iss) >= n, "tecINSUFFICIENT_FUNDS")>>)

EscrowCreatePreclaimMPT(v, id, dst, mpt, n) ==
  IF id = mpt[2] THEN "tecNO_PERMISSION"
  ELSE IF ~Exists(v, mpt) THEN "tecOBJECT_NOT_FOUND"
  ELSE IF "CanEscrow" \notin Read(v, mpt).flags THEN "tecNO_PERMISSION"
  ELSE IF ~Exists(v, TokenKey(id, mpt)) THEN "tecOBJECT_NOT_FOUND"
  ELSE FirstRefusal(<<
    RequireMPTAuthForEscrow(v, mpt, id),
    RequireMPTAuthForEscrow(v, mpt, dst),
    Needs(~IsMPTFrozen(v, mpt, id) /\ ~IsMPTFrozen(v, mpt, dst), "tecLOCKED"),
    Needs(CanTransferMPT(v, mpt, id, dst), "tecNO_AUTH"),
    Needs(Read(v, TokenKey(id, mpt)).amount > 0 /\ Read(v, TokenKey(id, mpt)).amount >= n,
           "tecINSUFFICIENT_FUNDS")>>)

EscrowFinishPreclaimIOU(v, e) ==
  IF e.dst = e.iss THEN "tesSUCCESS"
  ELSE FirstRefusal(<<RequireAuthIOU(v, e.iss, e.dst),
                      Needs(~IsDeepFrozen(v, e.dst, e.iss), "tecFROZEN")>>)

EscrowFinishPreclaimMPT(v, e) ==
  IF e.dst = e.iss THEN "tesSUCCESS"
  ELSE IF ~Exists(v, e.mpt) THEN "tecOBJECT_NOT_FOUND"
  ELSE FirstRefusal(<<RequireMPTAuthForEscrow(v, e.mpt, e.dst),
                      Needs(~IsMPTFrozen(v, e.mpt, e.dst), "tecLOCKED")>>)

EscrowCancelPreclaimIOU(v, e) ==
  IF e.owner = e.iss THEN "tecINTERNAL" ELSE RequireAuthIOU(v, e.iss, e.owner)

EscrowCancelPreclaimMPT(v, e) ==
  IF e.owner = e.iss THEN "tecINTERNAL"
  ELSE IF ~Exists(v, e.mpt) THEN "tecOBJECT_NOT_FOUND"
  ELSE RequireMPTAuthForEscrow(v, e.mpt, e.owner)

-----------------------------------------------------------------------------
(* A balance on a line, moved towards its end a.                           *)
OnLine(v, a, b, n) ==
  [v EXCEPT !.obj[LineKey(a, b)].bal = IF a < b THEN @ + n ELSE @ - n]

(* escrowLockIOU: the line keeps its limits and flags.                     *)
EscrowLockIOU(v, id, iss, n) == OnLine(v, id, iss, -n)

(* escrowLockMPT; the caller has seen that the token holds n.              *)
EscrowLockMPT(v, id, mpt, n) ==
  [v EXCEPT !.obj[TokenKey(id, mpt)] = [@ EXCEPT !.amount = @ - n, !.locked = @ + n],
            !.obj[mpt].locked = @ + n]

(* getTransferRateForIssuer and getMPTTransferRate.                        *)
RateNow(v, iss, mpt) ==
  IF mpt = None THEN TransferRate(v, iss) ELSE qualityOne + Read(v, mpt).fee

(* serializeEscrow; promise is a ghost, what the destination is due at the *)
(* rate of the day.                                                        *)
NewTokenEscrow(c, t, rate) ==
  [owner |-> c.id, dst |-> t.dst, iss |-> t.iss, mpt |-> t.mpt, amount |-> t.amount,
   rate |-> rate, finish |-> t.finish, cancel |-> t.cancel, cond |-> t.cond, node |-> 0,
   promise |-> IF t.dst = t.iss THEN t.amount ELSE MulRatioUp(t.amount, qualityOne, rate)]

TokenPreclaim(v, id, t) ==
  IF t.mpt = None THEN EscrowCreatePreclaimIOU(v, id, t.dst, t.iss, t.amount)
  ELSE EscrowCreatePreclaimMPT(v, id, t.dst, t.mpt, t.amount)

(* The directories a new escrow is linked into.                            *)
EscrowParties(id, t) == {id, t.dst} \cup (IF t.mpt = None THEN {t.iss} ELSE {})

LinkEach(v, ids, key) == FoldSet(LAMBDA id, w : Link(w, id, key), v, ids)

TokenEscrowCreate(c, t) ==
  LET key == <<"Escrow", c.id, t.proxy>>
  IN  IF t.finish = 0 /\ ~t.cond THEN Fail(c, "temMALFORMED")
      ELSE IF ~HasAccount(c.v, t.dst) THEN Fail(c, "tecNO_DST")
      ELSE IF TagMissing(c.v, t.dst, t.tag) THEN Fail(c, "tecDST_TAG_NEEDED")
      ELSE IF TokenPreclaim(c.v, c.id, t) # "tesSUCCESS"
        THEN Fail(c, TokenPreclaim(c.v, c.id, t))
      ELSE IF c.a.bal < AccountReserve(c.a.own + 1) THEN Fail(c, "tecINSUFFICIENT_RESERVE")
      ELSE IF \E id \in EscrowParties(c.id, t) : LinkFails(c.v, id, key)
        THEN Fail(c, "tecDIR_FULL")
      ELSE Ok([c EXCEPT
             !.v = Write(LinkEach(IF t.mpt = None
                                    THEN EscrowLockIOU(@, c.id, t.iss, t.amount)
                                    ELSE EscrowLockMPT(@, c.id, t.mpt, t.amount),
                                  EscrowParties(c.id, t), key),
                         key, NewTokenEscrow(c, t, RateNow(c.v, t.iss, t.mpt))),
             !.a.own = @ + 1])

-----------------------------------------------------------------------------
(* What is left of an amount: the lower of the rate when the escrow was    *)
(* made and the rate of today, rounded up (divideAmountByRate,             *)
(* computeMPTTransferFee).  A mutant: only the rate of today counts.       *)
FinalAmountToday(v, e, locked) ==
  IF e.dst = e.iss THEN e.amount
  ELSE MulRatioUp(e.amount, qualityOne, RateNow(v, e.iss, e.mpt))

FinalAmount(v, e, locked) ==
  IF e.dst = e.iss THEN e.amount
  ELSE MulRatioUp(e.amount, qualityOne, Min({locked, RateNow(v, e.iss, e.mpt)}))

(* createTrustLineForEscrow: the receiver's end carries the reserve.       *)
CreateTrustLineForEscrow(c, iss) ==
  LET flags == {"Reserve"} \cup (IF DefaultRipple(c.v, c.id) THEN {} ELSE {"NoRipple"})
      v     == TrustCreate(c.v, c.id, iss, 0, NewSide(0, FALSE, flags, 0))
  IN  [c EXCEPT !.v = [v EXCEPT !.obj[LineKey(c.id, iss)].side[iss].flags = {}],
                !.a.own = @ + 1]

(* checkTrustLineLimit.                                                    *)
OverLimit(v, id, iss, n) ==
  Read(v, LineKey(id, iss)).side[id].limit < Held(v, id, iss) + n

(* escrowUnlockIOU.  Only the submitter's own line is created (create), in *)
(* which case the limit does not matter.                                   *)
EscrowUnlockIOU(c, e, to, n, create) ==
  LET missing == ~HasLine(c.v, to, e.iss)
  IN  IF to = e.iss THEN Ok(c)
      ELSE IF missing /\ create /\ c.a.bal < AccountReserve(c.a.own + 1)
        THEN Fail(c, "tecNO_LINE_INSUF_RESERVE")
      ELSE IF missing /\ ~create THEN Fail(c, "tecNO_LINE")
      ELSE IF ~create /\ OverLimit(c.v, to, e.iss, n) THEN Fail(c, "tecLIMIT_EXCEEDED")
      ELSE LET d == IF missing THEN CreateTrustLineForEscrow(c, e.iss) ELSE c
           IN  Ok([d EXCEPT !.v = OnLine(@, to, e.iss, n)])

(* createMPTokenForEscrow.                                                 *)
CreateMPTokenForEscrow(c, mpt) ==
  Own(c, TokenKey(c.id, mpt),
      [owner |-> c.id, amount |-> 0, locked |-> 0, flags |-> {}, node |-> 0])

(* The end of escrowUnlockMPT: n leaves what is locked, on the issuance    *)
(* and on the sender's token; the transfer fee stays locked.  A mutant:    *)
(* the sender's token keeps it.                                            *)
UnlockedFromIssuance(c, e, to, n) ==
  Ok([c EXCEPT !.v.obj[e.mpt] = [@ EXCEPT !.locked = @ - n,
                                          !.outstanding = IF to = e.iss THEN @ - n ELSE @],
               !.v.obj = IF to = e.iss THEN @ ELSE [@ EXCEPT ![TokenKey(to, e.mpt)].amount = @ + n]])

Unlocked(c, e, to, n) ==
  LET sender == TokenKey(e.owner, e.mpt)
      credit == [c EXCEPT !.v.obj = IF to = e.iss THEN @
                                    ELSE [@ EXCEPT ![TokenKey(to, e.mpt)].amount = @ + n]]
  IN  IF Read(c.v, e.mpt).locked < n \/ Read(c.v, e.mpt).locked = 0 THEN Fail(c, "tecINTERNAL")
      ELSE IF to = e.iss /\ Read(c.v, e.mpt).outstanding < n THEN Fail(c, "tecINTERNAL")
      ELSE IF ~Exists(c.v, sender) THEN Fail(c, "tecOBJECT_NOT_FOUND")
      ELSE IF Read(c.v, sender).locked < n \/ Read(c.v, sender).locked = 0
        THEN Fail(c, "tecINTERNAL")
      ELSE Ok([credit EXCEPT
                 !.v.obj[e.mpt] = [@ EXCEPT !.locked = @ - n,
                                            !.outstanding = IF to = e.iss THEN @ - n ELSE @],
                 !.v.obj[sender].locked = @ - n])

EscrowUnlockMPT(c, e, to, n, create) ==
  LET missing == to # e.iss /\ ~Exists(c.v, TokenKey(to, e.mpt))
  IN  IF ~Exists(c.v, e.mpt) THEN Fail(c, "tecOBJECT_NOT_FOUND")
      ELSE IF missing /\ create /\ c.a.bal < AccountReserve(c.a.own + 1)
        THEN Fail(c, "tecINSUFFICIENT_RESERVE")
      ELSE IF missing /\ create /\ LinkFails(c.v, to, TokenKey(to, e.mpt))
        THEN Fail(c, "tecDIR_FULL")
      ELSE IF missing /\ ~create THEN Fail(c, "tecNO_PERMISSION")
      ELSE Unlocked(IF missing THEN CreateMPTokenForEscrow(c, e.mpt) ELSE c, e, to, n)

EscrowUnlock(c, e, to, n) ==
  IF e.mpt = None THEN EscrowUnlockIOU(c, e, to, n, to = c.id)
  ELSE EscrowUnlockMPT(c, e, to, n, to = c.id)

(* The escrow goes once its tokens went.                                   *)
DropUnlocked(r, key) == IF r.ter = "tesSUCCESS" THEN Ok(DropEscrow(r.c, key)) ELSE r

-----------------------------------------------------------------------------
FinishPreclaim(v, e) ==
  IF e.mpt = None THEN EscrowFinishPreclaimIOU(v, e) ELSE EscrowFinishPreclaimMPT(v, e)

TokenEscrowFinish(c, t) ==
  LET e == Read(c.v, t.key)
  IN  IF BadCredentials(c, t) THEN Fail(c, "tecBAD_CREDENTIALS")
      ELSE IF ~Exists(c.v, t.key) THEN Fail(c, "tecNO_TARGET")
      ELSE IF FinishPreclaim(c.v, e) # "tesSUCCESS" THEN Fail(c, FinishPreclaim(c.v, e))
      ELSE IF \/ e.finish # 0 /\ c.v.time <= e.finish
              \/ e.cancel # 0 /\ c.v.time > e.cancel
        THEN Fail(c, "tecNO_PERMISSION")
      ELSE IF e.cond # t.fulfilled THEN Fail(c, "tecCRYPTOCONDITION_ERROR")
      ELSE IF ~HasAccount(c.v, e.dst) THEN Fail(c, "tecNO_DST")
      ELSE IF Expired(c.v, t) # {} THEN Fail(c, "tecEXPIRED")
      ELSE IF ~MayDeposit(c, t, e.dst) THEN Fail(c, "tecNO_PERMISSION")
      ELSE DropUnlocked(EscrowUnlock(c, e, e.dst, FinalAmount(c.v, e, e.rate)), t.key)

CancelPreclaim(v, e) ==
  IF e.mpt = None THEN EscrowCancelPreclaimIOU(v, e) ELSE EscrowCancelPreclaimMPT(v, e)

TokenEscrowCancel(c, t) ==
  LET e == Read(c.v, t.key)
  IN  IF ~Exists(c.v, t.key) THEN Fail(c, "tecNO_TARGET")
      ELSE IF CancelPreclaim(c.v, e) # "tesSUCCESS" THEN Fail(c, CancelPreclaim(c.v, e))
      ELSE IF e.cancel = 0 \/ c.v.time <= e.cancel THEN Fail(c, "tecNO_PERMISSION")
      ELSE DropUnlocked(EscrowUnlock(c, e, e.owner, e.amount), t.key)

-----------------------------------------------------------------------------
(* AccountSet.Apply where it sets the transfer rate (0 is no rate) and the *)
(* account that may mint for this one (NFTokenMinter); what is None is not *)
(* given, and t.clear takes the minter away.                               *)
NewRate(rate, t) == IF t.rate = None THEN rate ELSE IF t.rate = qualityOne THEN 0 ELSE t.rate

NewMinter(minter, t) == IF t.clear THEN None ELSE IF t.minter = None THEN minter ELSE t.minter

SetRateAndMinter(c, t) ==
  Ok([c EXCEPT !.a.rate = NewRate(@, t), !.a.minter = NewMinter(@, t)])
=============================================================================
