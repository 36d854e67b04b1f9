----------------------------- MODULE TrustLines -----------------------------
(***************************************************************************)
(* Trust lines and what the token transactors ask of them: TrustSet        *)
(* (src/internal/tx/trustset), freezes and spendable funds                 *)
(* (src/internal/tx/utils.go).                                             *)
(*                                                                         *)
(* There is one currency besides XRP; a token of it is named by its        *)
(* issuer, so an asset is XRP or an account.  Accounts are numbers, which  *)
(* gives the order that makes one end of a line the low one.  A line is    *)
(*   bal    the balance; what is positive belongs to the low end           *)
(*   side   for each end: limit, quality (whether QualityIn or QualityOut  *)
(*          is set), flags, node (its directory page)                      *)
(* with the flags Auth, NoRipple, Freeze, DeepFreeze and Reserve.          *)
(***************************************************************************)
EXTENDS TxLedger, FiniteSetsExt

CONSTANTS XRP,                  \* the native asset
          Unlimited             \* an issuer's funds in its own token

ASSUME TrustLineConstants ==
  /\ Accounts \subseteq Nat \ {0} /\ XRP \notin Accounts
  /\ Unlimited \in Nat

LineKey(a, b) == <<"Line", {a, b}>>

HasLine(v, a, b) == Exists(v, LineKey(a, b))

Low(a, b) == IF a < b THEN a ELSE b

(* The balance of a line as the end a sees it.                             *)
HeldOn(line, a, b) == IF a = Low(a, b) THEN line.bal ELSE -line.bal

Held(v, a, b) == IF HasLine(v, a, b) THEN HeldOn(Read(v, LineKey(a, b)), a, b) ELSE 0

LineFlags(v, a, b, end) ==
  IF HasLine(v, a, b) THEN Read(v, LineKey(a, b)).side[end].flags ELSE {}

-----------------------------------------------------------------------------
(* IsTrustlineFrozen: the issuer froze its end.                            *)
IsTrustlineFrozen(v, a, issuer) == "Freeze" \in LineFlags(v, a, issuer, issuer)

IsGlobalFrozen(v, issuer) ==
  HasAccount(v, issuer) /\ "GlobalFreeze" \in v.acct[issuer].flags

(* IsDeepFrozen: either end may have set it.                               *)
IsDeepFrozen(v, a, issuer) ==
  /\ issuer \notin {XRP, a}
  /\ \E end \in {a, issuer} : "DeepFreeze" \in LineFlags(v, a, issuer, end)

IsFrozen(v, a, asset) ==
  asset # XRP /\ (IsGlobalFrozen(v, asset) \/ IsTrustlineFrozen(v, a, asset))

(* XRPLiquid: the balance above the reserve, for adj more objects.         *)
XRPLiquid(v, a, adj) ==
  IF HasAccount(v, a)
    THEN Less(v.acct[a].bal, AccountReserve(IF adj < 0 THEN Less(v.acct[a].own, -adj)
                                                       ELSE v.acct[a].own + adj))
    ELSE 0

(* AccountFunds, with fhZeroIfFrozen.                                      *)
AccountFunds(v, a, asset) ==
  IF asset = XRP THEN XRPLiquid(v, a, 0)
  ELSE IF a = asset THEN Unlimited
  ELSE IF IsFrozen(v, a, asset) \/ IsDeepFrozen(v, a, asset) THEN 0
  ELSE Max({0, Held(v, a, asset)})

(* Amount.MulRatio, rounded up.                                            *)
MulRatioUp(n, num, den) == (n * num + den - 1) \div den

(* An account's TransferRate; 0 is unset.                                  *)
TransferRate(v, issuer) ==
  IF HasAccount(v, issuer) /\ v.acct[issuer].rate # 0 THEN v.acct[issuer].rate ELSE qualityOne

-----------------------------------------------------------------------------
NewSide(limit, quality, flags, node) ==
  [limit |-> limit, quality |-> quality, flags |-> flags, node |-> node]

DefaultRipple(v, a) == "DefaultRipple" \in v.acct[a].flags

(* A line that does not exist yet, linked into both directories; side is   *)
(* the record of the end that wants it, the other end keeps NoRipple       *)
(* unless it has DefaultRipple.  Owner counts are the caller's.            *)
TrustCreate(v, a, b, bal, mine) ==
  LET key  == LineKey(a, b)
      peer == NewSide(0, FALSE, IF DefaultRipple(v, b) THEN {} ELSE {"NoRipple"}, 0)
  IN  Write(Link(Link(v, a, key), b, key), key,
            [bal  |-> IF a < b THEN bal ELSE -bal,
             side |-> (a :> [mine EXCEPT !.node = LinkPage(v, a, key)])
                        @@ (b :> [peer EXCEPT !.node = LinkPage(v, b, key)])])

(* The line leaves both directories and the ledger.                        *)
TrustDelete(v, a, b) ==
  LET key   == LineKey(a, b)
      at(e) == Read(v, key).side[e].node
  IN  Erase(Unlink(Unlink(v, a, at(a), key, FALSE), b, at(b), key, FALSE), key)

(* What makes an end of a line cost its account a reserve.                 *)
ReserveSet(v, line, a, b) ==
  LET s == line.side[a]
  IN  \/ s.quality \/ s.limit # 0 \/ "Freeze" \in s.flags
      \/ ("NoRipple" \notin s.flags) # DefaultRipple(v, a)
      \/ HeldOn(line, a, b) > 0

-----------------------------------------------------------------------------
(* TrustSet.  t.peer is the other end, t.limit the limit, t.set the flags  *)
(* to set and t.clear those to clear, t.quality None, or whether the       *)
(* quality given differs from one.                                         *)
SetOn(flags, t, f) == f \in t.set /\ f \notin t.clear
ClearOn(flags, t, f) == f \in t.clear /\ f \notin t.set

(* computeFreezeFlags.                                                     *)
ComputeFreezeFlags(flags, t, noFreeze) ==
  (flags \cup {f \in {"Freeze", "DeepFreeze"} : SetOn(flags, t, f) /\ ~noFreeze})
    \ {f \in {"Freeze", "DeepFreeze"} : ClearOn(flags, t, f)}

(* The checks before the line is looked at; AMM accounts are left out.     *)
TrustSetRefused(c, t) ==
  LET exists   == HasLine(c.v, c.id, t.peer)
      noFreeze == "NoFreeze" \in c.a.flags
      freezes  == t.set \cap {"Freeze", "DeepFreeze"}
      thaws    == t.clear \cap {"Freeze", "DeepFreeze"}
      after    == ComputeFreezeFlags(LineFlags(c.v, c.id, t.peer, c.id), t, noFreeze)
  IN  IF ~HasAccount(c.v, t.peer) THEN "tecNO_DST"
      ELSE IF "DisallowIncomingTrustline" \in c.v.acct[t.peer].flags /\ ~exists
        THEN "tecNO_PERMISSION"
      ELSE IF "Auth" \in t.set /\ "RequireAuth" \notin c.a.flags THEN "tefNO_AUTH_REQUIRED"
      ELSE IF noFreeze /\ freezes # {} THEN "tecNO_PERMISSION"
      ELSE IF freezes # {} /\ thaws # {} THEN "tecNO_PERMISSION"
      ELSE IF "DeepFreeze" \in after /\ "Freeze" \notin after THEN "tecNO_PERMISSION"
      ELSE "tesSUCCESS"

(* No line yet: nothing to do for a default one.                           *)
CreateLine(c, t) ==
  LET flags == {"Reserve"} \cup (t.set \cap {"Auth"})
                 \cup {f \in {"NoRipple"} : SetOn({}, t, f)}
                 \cup ComputeFreezeFlags({}, t, "NoFreeze" \in c.a.flags)
      mine  == NewSide(t.limit, t.quality = TRUE, flags, 0)
  IN  IF t.limit = 0 /\ "Auth" \notin t.set /\ t.quality # TRUE THEN Ok(c)
      ELSE IF PriorBalance(c) < ReserveForNewObject(c.a.own)
        THEN Fail(c, "tecNO_LINE_INSUF_RESERVE")
      ELSE Ok([c EXCEPT !.v = TrustCreate(@, c.id, t.peer, 0, mine), !.a.own = @ + 1])

(* The sender's end of an existing line, changed.                          *)
ChangedSide(c, t, line) ==
  LET s == line.side[c.id]
      ripple == IF SetOn(s.flags, t, "NoRipple") /\ HeldOn(line, c.id, t.peer) >= 0
                  THEN s.flags \cup {"NoRipple"}
                ELSE IF ClearOn(s.flags, t, "NoRipple") THEN s.flags \ {"NoRipple"}
                ELSE s.flags
  IN  [s EXCEPT !.limit = t.limit,
                !.quality = IF t.quality = None THEN @ ELSE t.quality,
                !.flags = ComputeFreezeFlags(ripple \cup (t.set \cap {"Auth"}), t,
                                             "NoFreeze" \in c.a.flags)]

(* The Reserve flag of both ends follows ReserveSet.                       *)
Reserved(v, line, a, b) ==
  LET end(e, peer) == [line.side[e] EXCEPT
                         !.flags = IF ReserveSet(v, line, e, peer) THEN @ \cup {"Reserve"}
                                                                   ELSE @ \ {"Reserve"}]
  IN  [line EXCEPT !.side = (a :> end(a, b)) @@ (b :> end(b, a))]

(* The change of an end's owner count from one line to the next.           *)
Counted(line, e) == IF "Reserve" \in line.side[e].flags THEN 1 ELSE 0

Recounted(c, old, new, peer) ==
  AddOwner(AddOwner(c, c.id, Counted(new, c.id) - Counted(old, c.id)),
           peer, Counted(new, peer) - Counted(old, peer))

Modified(c, t, old, new) ==
  IF Counted(new, c.id) = 0 /\ Counted(new, t.peer) = 0
    THEN Ok(Recounted([c EXCEPT !.v = TrustDelete(@, c.id, t.peer)], old, new, t.peer))
  ELSE IF Counted(new, c.id) > Counted(old, c.id)
            /\ PriorBalance(c) < ReserveForNewObject(c.a.own)
    THEN Fail(c, "tecINSUF_RESERVE_LINE")
  ELSE Ok(Recounted([c EXCEPT !.v = Write(@, LineKey(c.id, t.peer), new)], old, new, t.peer))

ModifyLine(c, t) ==
  LET old == Read(c.v, LineKey(c.id, t.peer))
  IN  Modified(c, t, old, Reserved(c.v, [old EXCEPT !.side[c.id] = ChangedSide(c, t, old)],
                                   c.id, t.peer))

TrustSet(c, t) ==
  LET refused == TrustSetRefused(c, t)
  IN  IF refused # "tesSUCCESS" THEN Fail(c, refused)
      ELSE IF HasLine(c.v, c.id, t.peer) THEN ModifyLine(c, t)
      ELSE CreateLine(c, t)
=============================================================================
