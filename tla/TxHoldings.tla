----------------------------- MODULE TxHoldings -----------------------------
(***************************************************************************)
(* Transactors that move XRP or hold it for later: direct XRP payments,    *)
(* escrows of XRP, payment channels, and the deletion of an account, which *)
(* moves all of it.  AccountSet is here because its flags decide who may   *)
(* pay whom.                                                               *)
(***************************************************************************)
EXTENDS TxObjects

CONSTANTS seqDelta,             \* ledgers between an account's sequence and its deletion
          maxDeletableDirEntries \* entries an account may have when it is deleted

NewAccount(bal, seq) == [bal |-> bal, seq |-> seq, own |-> 0, tickets |-> 0,
                         flags |-> {}, regKey |-> None]

-----------------------------------------------------------------------------
(* Credentials handed in with a payment, an escrow, a claim or a deletion. *)
(* A transaction names a set of credential entries in t.creds.             *)
Usable(v, id, key) == Exists(v, key) /\ key[2] = id /\ Read(v, key).accepted

(* validateCredentials of payments and escrows.                            *)
BadCredentials(c, t) == \E k \in t.creds : ~Usable(c.v, c.id, k)

(* validateCredentials of channels and deletions also refuses a credential *)
(* in the second it expires, in the order they are listed; here a bad one  *)
(* is met first.                                                           *)
StaleCredentials(c, t) ==
  \E k \in t.creds : Read(c.v, k).exp # 0 /\ c.v.time >= Read(c.v, k).exp

Expired(v, t) == {k \in t.creds : Exists(v, k) /\ CheckCredentialExpired(v, k)}

(* removeExpiredCredentials, which is also what ApplyOnTec repeats.        *)
RemoveExpired(v, t) == FoldSet(LAMBDA k, w : DeleteSLE(w, k), v, Expired(v, t))

(* A mutant: any good credential will do.                                  *)
AuthorizedByAnyCredential(v, t, dst) == t.creds # {}

(* authorizedDepositPreauth: the credentials must be exactly the set the   *)
(* destination listed.                                                     *)
AuthorizedByCredentials(v, t, dst) ==
  t.creds # {} /\ Exists(v, PreauthKey(dst, {k[3] : k \in t.creds}))

MayDeposit(c, t, dst) ==
  \/ "DepositAuth" \notin c.v.acct[dst].flags
  \/ dst = c.id
  \/ Exists(c.v, PreauthKey(dst, c.id))
  \/ AuthorizedByCredentials(c.v, t, dst)

-----------------------------------------------------------------------------
(* Payment.applyXRPPayment.  An account cannot pay itself.                 *)
PayNewAccount(c, t) ==
  IF t.amount < ReserveBase THEN Fail(c, "tecNO_DST_INSUF_XRP")
  ELSE Ok([c EXCEPT !.v = UpdateAccountRoot(@, t.dst, NewAccount(t.amount, c.v.lseq)),
                    !.a.bal = @ - t.amount])

(* Both the amount and the balance it meets within the base reserve need   *)
(* no authorisation.                                                       *)
Wedged(v, t) == t.amount <= ReserveBase /\ v.acct[t.dst].bal <= ReserveBase

PayAccount(c, t) ==
  LET dest == c.v.acct[t.dst]
      ruled == "DepositAuth" \in dest.flags
  IN  IF "DisallowXRP" \in dest.flags THEN Fail(c, "tecNO_TARGET")
      ELSE IF TagMissing(c.v, t.dst, t.tag) THEN Fail(c, "tecDST_TAG_NEEDED")
      ELSE IF BadCredentials(c, t) THEN Fail(c, "tecBAD_CREDENTIALS")
      ELSE IF Expired(c.v, t) # {} /\ ~(ruled /\ Wedged(c.v, t)) THEN Fail(c, "tecEXPIRED")
      ELSE IF ~MayDeposit(c, t, t.dst) /\ ~Wedged(c.v, t) THEN Fail(c, "tecNO_PERMISSION")
      ELSE Ok(Credit(Debit(c, c.id, t.amount), t.dst, t.amount))

Payment(c, t) ==
  LET reserve == AccountReserve(c.a.own)
      keep    == IF reserve < BaseFee THEN BaseFee ELSE reserve
  IN  IF PriorBalance(c) < t.amount + keep THEN Fail(c, "tecUNFUNDED_PAYMENT")
      ELSE IF HasAccount(c.v, t.dst) THEN PayAccount(c, t)
      ELSE PayNewAccount(c, t)

-----------------------------------------------------------------------------
(* EscrowCreate.Preclaim and Apply, for XRP.  Neither directory page is    *)
(* written to the entry.  0 is an absent time; an escrow has a finish time *)
(* or a condition.                                                         *)
EscrowPreclaim(v, t) ==
  (t.cancel # 0 /\ v.time > t.cancel) \/ (t.finish # 0 /\ v.time > t.finish)

NewEscrow(c, t) ==
  [owner |-> c.id, dst |-> t.dst, amount |-> t.amount, finish |-> t.finish,
   cancel |-> t.cancel, cond |-> t.cond, node |-> 0]

EscrowCreate(c, t) ==
  LET key     == <<"Escrow", c.id, t.proxy>>
      reserve == AccountReserve(c.a.own + 1)
      v1      == Link(c.v, c.id, key)
      v2      == IF t.dst = c.id THEN v1 ELSE Link(v1, t.dst, key)
  IN  IF t.finish = 0 /\ ~t.cond THEN Fail(c, "temMALFORMED")
      ELSE IF ~HasAccount(c.v, t.dst) THEN Fail(c, "tecNO_DST")
      ELSE IF TagMissing(c.v, t.dst, t.tag) THEN Fail(c, "tecDST_TAG_NEEDED")
      ELSE IF c.a.bal < reserve THEN Fail(c, "tecINSUFFICIENT_RESERVE")
      ELSE IF c.a.bal < reserve + t.amount THEN Fail(c, "tecUNFUNDED")
      ELSE IF LinkFails(c.v, c.id, key) \/ (t.dst # c.id /\ LinkFails(v1, t.dst, key))
        THEN Fail(c, "tecDIR_FULL")
      ELSE Ok([c EXCEPT !.v = Write(v2, key, NewEscrow(c, t)),
                        !.a.bal = @ - t.amount, !.a.own = @ + 1])

(* The entry read back has no DestinationNode, so only the owner's         *)
(* directory lets go of it.                                                *)
DropEscrow(c, key) ==
  LET e == Read(c.v, key)
      d == [c EXCEPT !.v = Erase(Unlink(@, e.owner, e.node, key, FALSE), key)]
  IN  AddOwner(d, e.owner, -1)

EscrowFinish(c, t) ==
  LET e == Read(c.v, t.key)
  IN  IF BadCredentials(c, t) THEN Fail(c, "tecBAD_CREDENTIALS")
      ELSE IF ~Exists(c.v, t.key) THEN Fail(c, "tecNO_TARGET")
      ELSE IF \/ e.finish # 0 /\ c.v.time <= e.finish
              \/ e.cancel # 0 /\ c.v.time > e.cancel
        THEN Fail(c, "tecNO_PERMISSION")
      ELSE IF e.cond # t.fulfilled THEN Fail(c, "tecCRYPTOCONDITION_ERROR")
      ELSE IF ~HasAccount(c.v, e.dst) THEN Fail(c, "tecNO_DST")
      ELSE IF Expired(c.v, t) # {} THEN Fail(c, "tecEXPIRED")
      ELSE IF ~MayDeposit(c, t, e.dst) THEN Fail(c, "tecNO_PERMISSION")
      ELSE Ok(DropEscrow(Credit(c, e.dst, e.amount), t.key))

EscrowCancel(c, t) ==
  LET e == Read(c.v, t.key)
  IN  IF ~Exists(c.v, t.key) THEN Fail(c, "tecNO_TARGET")
      ELSE IF e.cancel = 0 \/ c.v.time <= e.cancel THEN Fail(c, "tecNO_PERMISSION")
      ELSE IF ~HasAccount(c.v, e.owner) THEN Fail(c, "tefINTERNAL")
      ELSE Ok(DropEscrow(Credit(c, e.owner, e.amount), t.key))

-----------------------------------------------------------------------------
(* Payment channels: amount is what was put in, balance what was claimed.  *)
NewChannel(c, t, node, dstNode) ==
  [owner |-> c.id, dst |-> t.dst, amount |-> t.amount, balance |-> 0, delay |-> t.delay,
   cancel |-> t.cancel, exp |-> 0, node |-> node, dstNode |-> dstNode]

PaymentChannelCreate(c, t) ==
  LET key     == <<"PayChannel", c.id, t.dst, t.proxy>>
      reserve == AccountReserve(c.a.own + 1)
      v1      == Link(c.v, c.id, key)
      e       == NewChannel(c, t, LinkPage(c.v, c.id, key), LinkPage(v1, t.dst, key))
  IN  IF ~HasAccount(c.v, t.dst) THEN Fail(c, "tecNO_DST")
      ELSE IF "DisallowIncomingPayChan" \in c.v.acct[t.dst].flags
        THEN Fail(c, "tecNO_PERMISSION")
      ELSE IF TagMissing(c.v, t.dst, t.tag) THEN Fail(c, "tecDST_TAG_NEEDED")
      ELSE IF c.a.bal < reserve THEN Fail(c, "tecINSUFFICIENT_RESERVE")
      ELSE IF c.a.bal - reserve < t.amount THEN Fail(c, "tecUNFUNDED")
      ELSE IF t.cancel # 0 /\ c.v.time > t.cancel THEN Fail(c, "tecEXPIRED")
      ELSE IF LinkFails(c.v, c.id, key) \/ LinkFails(v1, t.dst, key)
        THEN Fail(c, "tecDIR_FULL")
      ELSE Ok([c EXCEPT !.v = Write(Link(v1, t.dst, key), key, e),
                        !.a.bal = @ - t.amount, !.a.own = @ + 1])

Lapsed(v, ch) == \/ ch.cancel # 0 /\ v.time >= ch.cancel
                 \/ ch.exp # 0 /\ v.time >= ch.exp

(* closeChannel: the rest goes back to the owner.                          *)
CloseChannel(c, key, ch) ==
  LET v1 == Unlink(c.v, ch.owner, ch.node, key, FALSE)
      v2 == Unlink(v1, ch.dst, ch.dstNode, key, FALSE)
      d  == AddOwner(Credit([c EXCEPT !.v = v2], ch.owner, ch.amount - ch.balance),
                     ch.owner, -1)
  IN  IF ~HasAccount(c.v, ch.owner) THEN Fail(c, "tefINTERNAL")
      ELSE Ok([d EXCEPT !.v = Erase(@, key)])

PaymentChannelFund(c, t) ==
  LET ch      == Read(c.v, t.key)
      settle  == c.v.time + ch.delay
      least   == IF ch.exp # 0 /\ ch.exp < settle THEN ch.exp ELSE settle
      reserve == AccountReserve(c.a.own)
  IN  IF ~Exists(c.v, t.key) THEN Fail(c, "tecNO_ENTRY")
      ELSE IF Lapsed(c.v, ch) THEN CloseChannel(c, t.key, ch)
      ELSE IF ch.owner # c.id THEN Fail(c, "tecNO_PERMISSION")
      ELSE IF t.exp # 0 /\ t.exp < least THEN Fail(c, "temBAD_EXPIRATION")
      ELSE IF c.a.bal < reserve THEN Fail(c, "tecINSUFFICIENT_RESERVE")
      ELSE IF c.a.bal - reserve < t.amount THEN Fail(c, "tecUNFUNDED")
      ELSE IF ~HasAccount(c.v, ch.dst) THEN Fail(c, "tecNO_DST")
      ELSE Ok([c EXCEPT !.a.bal = @ - t.amount,
                        !.v.obj[t.key] = [ch EXCEPT !.amount = @ + t.amount,
                                                    !.exp = IF t.exp = 0 THEN @ ELSE t.exp]])

(* PaymentChannelClaim.  t.balance = 0 claims nothing; t.signed says that  *)
(* the owner's signature for the amount is attached.                       *)
ClaimFails(c, t, ch) ==
  IF t.balance = 0 THEN "none"
  ELSE IF ch.dst = c.id /\ ~t.signed THEN "temBAD_SIGNATURE"
  ELSE IF t.balance > ch.amount \/ t.balance <= ch.balance THEN "tecUNFUNDED_PAYMENT"
  ELSE IF ~HasAccount(c.v, ch.dst) THEN "tecNO_DST"
  ELSE IF ~MayDeposit(c, t, ch.dst) THEN "tecNO_PERMISSION"
  ELSE "none"

(* The owner's request to close: it takes effect a settle delay from now,  *)
(* or earlier if a close is already under way.                             *)
SettleBy(v, ch) ==
  IF ch.exp = 0 \/ ch.exp > v.time + ch.delay THEN v.time + ch.delay ELSE ch.exp

PaymentChannelClaim(c, t) ==
  LET ch      == Read(c.v, t.key)
      paid    == IF t.balance = 0 THEN c ELSE Credit(c, ch.dst, t.balance - ch.balance)
      claimed == [ch EXCEPT !.balance = IF t.balance = 0 THEN @ ELSE t.balance,
                            !.exp = IF t.renew THEN 0 ELSE @]
      closing == [claimed EXCEPT !.exp = SettleBy(c.v, claimed)]
  IN  IF BadCredentials(c, t) THEN Fail(c, "tecBAD_CREDENTIALS")
      ELSE IF StaleCredentials(c, t) THEN Fail(c, "tecEXPIRED")
      ELSE IF ~Exists(c.v, t.key) THEN Fail(c, "tecNO_TARGET")
      ELSE IF Lapsed(c.v, ch) THEN CloseChannel(c, t.key, ch)
      ELSE IF c.id \notin {ch.owner, ch.dst} THEN Fail(c, "tecNO_PERMISSION")
      ELSE IF ClaimFails(c, t, ch) # "none" THEN Fail(c, ClaimFails(c, t, ch))
      ELSE IF t.renew /\ ch.owner # c.id THEN Fail(c, "tecNO_PERMISSION")
      ELSE IF t.close /\ (ch.dst = c.id \/ claimed.balance = claimed.amount)
        THEN CloseChannel(paid, t.key, claimed)
      ELSE Ok([paid EXCEPT !.v.obj[t.key] = IF t.close THEN closing ELSE claimed])

-----------------------------------------------------------------------------
(* AccountSet.Apply.  t.set and t.clear name a flag or None.  NoFreeze and *)
(* the clawback flag can never be cleared, nor GlobalFreeze under          *)
(* NoFreeze.                                                               *)
RootPageFull(v, id) == ReadPage(v.dir[id], 0).idx # <<>>

FlagsOut(c, t) ==
  LET set  == c.a.flags \cup ({t.set} \ {None})
      stay == {"NoFreeze", "AllowTrustLineClawback"}
                \cup (IF "NoFreeze" \in set THEN {"GlobalFreeze"} ELSE {})
  IN  set \ ({t.clear} \ stay)

AccountSet(c, t) ==
  LET newly(f) == t.set = f /\ f \notin c.a.flags
      clawback == "AllowTrustLineClawback"
  IN  IF t.set = clawback /\ "NoFreeze" \in c.a.flags THEN Fail(c, "tecNO_PERMISSION")
      ELSE IF t.set = clawback /\ RootPageFull(c.v, c.id) THEN Fail(c, "tecOWNERS")
      ELSE IF t.set = "NoFreeze" /\ clawback \in c.a.flags THEN Fail(c, "tecNO_PERMISSION")
      ELSE IF newly("RequireAuth") /\ RootPageFull(c.v, c.id) THEN Fail(c, "tecOWNERS")
      ELSE IF newly("DisableMaster") /\ t.signer # c.id THEN Fail(c, "tecNEED_MASTER_KEY")
      ELSE IF /\ newly("DisableMaster")
              /\ c.a.regKey = None /\ ~Exists(c.v, <<"SignerList", c.id>>)
        THEN Fail(c, "tecNO_ALTERNATIVE_KEY")
      ELSE IF t.set = "NoFreeze" /\ t.signer # c.id /\ "DisableMaster" \notin c.a.flags
        THEN Fail(c, "tecNEED_MASTER_KEY")
      ELSE Ok([c EXCEPT !.a.flags = FlagsOut(c, t)])

-----------------------------------------------------------------------------
(* AccountDelete.Apply: every deletable entry of the owner directory goes, *)
(* anything else is an obligation.                                         *)
NonObligation == {"SignerList", "Ticket", "DepositPreauth", "DID", "Oracle", "Credential",
                  "Delegate"}

DeleteEntry(r, k) ==
  LET v    == r.c.v
      node == Read(v, k).node
      gone == [r EXCEPT !.n = @ + 1]
  IN  IF r.ter # "tesSUCCESS" \/ ~Exists(v, k) THEN r
      ELSE IF k[1] \notin NonObligation THEN [r EXCEPT !.ter = "tecHAS_OBLIGATIONS"]
      ELSE IF r.n + 1 > maxDeletableDirEntries THEN [r EXCEPT !.ter = "tefTOO_BIG"]
      ELSE IF k[1] = "Ticket"
        THEN [gone EXCEPT !.c = [Disown(@, k, 0, TRUE) EXCEPT !.a.tickets = Less(@, 1)]]
      ELSE IF k[1] = "SignerList"
        THEN [gone EXCEPT !.c = Disown(@, k, 0, TRUE)]
      ELSE IF \/ k[1] = "Credential" /\ DeleteSLEFails(v, k)
              \/ k[1] = "Oracle" /\ UnlinkFails(v, r.c.id, node, k, TRUE)
        THEN [r EXCEPT !.ter = "tecHAS_OBLIGATIONS"]
      ELSE IF k[1] = "Credential"
        THEN [gone EXCEPT !.c.v = DeleteSLE(@, k)]
      ELSE IF k[1] = "Oracle"
        THEN [gone EXCEPT !.c.v = Erase(Unlink(@, r.c.id, node, k, TRUE), k)]
      ELSE IF UnlinkFails(v, r.c.id, node, k, FALSE)
        THEN [r EXCEPT !.ter = "tefBAD_LEDGER"]
      ELSE [gone EXCEPT !.c = Disown(@, k, node, FALSE)]

DeleteEntries(c) ==
  FoldLeft(DeleteEntry, [ter |-> "tesSUCCESS", c |-> c, n |-> 0], DirForEach(c.v.dir[c.id]))

(* A mutant: a young account can be deleted.                               *)
AgeSequenceNone(c, t) == 0

(* The sequence the age of the account is judged by: the one the           *)
(* transaction uses, or the account's own when it uses a ticket.           *)
AgeSequence(c, t) == IF t.ticket = 0 THEN t.seq ELSE c.a.seq

(* The balance moves, and the account root goes with its directory.        *)
CloseAccount(c, t, r) ==
  LET moved == Credit([r.c EXCEPT !.v.dir[c.id] = ErasePage(@, 0)], t.dst, c.a.bal)
  IN  IF r.ter # "tesSUCCESS" THEN Fail(c, r.ter)
      ELSE Ok([moved EXCEPT !.v = EraseAccount(@, c.id)])

AccountDelete(c, t) ==
  IF ~HasAccount(c.v, t.dst) THEN Fail(c, "tecNO_DST")
  ELSE IF TagMissing(c.v, t.dst, t.tag) THEN Fail(c, "tecDST_TAG_NEEDED")
  ELSE IF BadCredentials(c, t) THEN Fail(c, "tecBAD_CREDENTIALS")
  ELSE IF StaleCredentials(c, t) THEN Fail(c, "tecEXPIRED")
  ELSE IF t.creds = {} /\ ~MayDeposit(c, t, t.dst) THEN Fail(c, "tecNO_PERMISSION")
  ELSE IF AgeSequence(c, t) + seqDelta > c.v.lseq THEN Fail(c, "tecTOO_SOON")
  ELSE IF ~MayDeposit(c, t, t.dst) THEN Fail(c, "tecNO_PERMISSION")
  ELSE CloseAccount(c, t, DeleteEntries(c))
=============================================================================
