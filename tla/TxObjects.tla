----------------------------- MODULE TxObjects -----------------------------
(***************************************************************************)
(* Transactors that keep one ledger entry of their own: tickets, checks    *)
(* drawn on XRP, signer lists and regular keys, DIDs, deposit              *)
(* pre-authorisations, credentials, delegations, price oracles and         *)
(* permissioned domains.  Each operator is the Apply method of one         *)
(* transaction type: it takes the context and the transaction and gives    *)
(* the result code and the context it leaves.  The amendments the code     *)
(* gates on are enabled.                                                   *)
(***************************************************************************)
EXTENDS TxLedger

CONSTANTS maxTicketCount,       \* tickets an account may have (250)
          oraclePairsPerReserve, \* pairs an oracle holds for one reserve (5)
          MaxOracleDataSeries,  \* pairs an oracle may hold (10)
          MaxLastUpdateTimeDelta \* seconds a price may differ from the close time (300)

-----------------------------------------------------------------------------
(* TicketCreate.Apply: tickets Sequence .. Sequence+n-1, each linked into  *)
(* the owner directory.  The page a ticket lands on is not recorded; the   *)
(* ledger sequence is, when its creation is threaded.                      *)
LinkAll(v, id, keys) == FoldLeft(LAMBDA w, k : Link(w, id, k), v, keys)

TicketCreate(c, t) ==
  LET keys  == [i \in 1 .. t.count |-> <<"Ticket", c.id, c.a.seq + i - 1>>]
      ticket == [owner |-> c.id, lgrSeq |-> c.v.lseq]
      owned == [c.v EXCEPT !.obj = [k \in Range(keys) |-> ticket] @@ @]
  IN  IF c.a.tickets + t.count > maxTicketCount
        THEN Fail(c, "tecDIR_FULL")
      ELSE IF PriorBalance(c) < AccountReserve(c.a.own + t.count)
        THEN Fail(c, "tecINSUFFICIENT_RESERVE")
      ELSE Ok([c EXCEPT !.v = LinkAll(owned, c.id, keys),
                        !.a.own = @ + t.count,
                        !.a.seq = @ + t.count,
                        !.a.tickets = @ + t.count])

-----------------------------------------------------------------------------
(* CheckCreate.Apply, for a check of XRP.  SendMax is t.max, and 0 is no   *)
(* expiration.                                                             *)
NewCheck(c, t, node, dstNode) ==
  [owner |-> c.id, dst |-> t.dst, max |-> t.max, exp |-> t.exp, tag |-> t.tag,
   node |-> node, dstNode |-> dstNode]

CheckCreate(c, t) ==
  LET key == <<"Check", c.id, t.proxy>>
      v1  == Link(c.v, t.dst, key)
  IN  IF ~HasAccount(c.v, t.dst) THEN Fail(c, "tecNO_DST")
      ELSE IF "DisallowIncomingCheck" \in c.v.acct[t.dst].flags
        THEN Fail(c, "tecNO_PERMISSION")
      ELSE IF TagMissing(c.v, t.dst, t.tag) THEN Fail(c, "tecDST_TAG_NEEDED")
      ELSE IF t.exp # 0 /\ t.exp <= c.v.time THEN Fail(c, "tecEXPIRED")
      ELSE IF PriorBalance(c) < AccountReserve(c.a.own + 1)
        THEN Fail(c, "tecINSUFFICIENT_RESERVE")
      ELSE IF LinkFails(c.v, t.dst, key) \/ LinkFails(v1, c.id, key)
        THEN Fail(c, "tecDIR_FULL")
      ELSE Ok([c EXCEPT
             !.v = Write(Link(v1, c.id, key), key,
                         NewCheck(c, t, LinkPage(v1, c.id, key), LinkPage(c.v, t.dst, key))),
             !.a.own = @ + 1])

(* removeCheckFromDirectories, the owner count and the erasure.            *)
DropCheck(c, key) ==
  LET k   == Read(c.v, key)
      v1  == Unlink(c.v, k.dst, k.dstNode, key, TRUE)
      v2  == Unlink(v1, k.owner, k.node, key, TRUE)
  IN  AddOwner([c EXCEPT !.v = Erase(v2, key)], k.owner, -1)

CheckCancel(c, t) ==
  LET k == Read(c.v, t.key)
  IN  IF ~Exists(c.v, t.key) THEN Fail(c, "tecNO_ENTRY")
      ELSE IF (k.exp = 0 \/ k.exp > c.v.time) /\ c.id \notin {k.owner, k.dst}
        THEN Fail(c, "tecNO_PERMISSION")
      ELSE Ok(DropCheck(c, t.key))

(* What the creator can pay without going below the reserve it will need   *)
(* once the check is gone.  OwnerCount - 1 is unsigned: from 0 it wraps to *)
(* a reserve nobody has.                                                   *)
Liquid(root) == IF root.own = 0 THEN 0 ELSE Less(root.bal, AccountReserve(root.own - 1))

(* CheckCash.Apply, for an exact Amount or for at least DeliverMin.  The   *)
(* casher is the destination, never the creator.                           *)
CheckCash(c, t) ==
  LET k    == Read(c.v, t.key)
      have == Liquid(c.v.acct[k.owner])
      pay  == IF ~t.deliverMin THEN t.amount ELSE IF have < k.max THEN have ELSE k.max
  IN  IF ~Exists(c.v, t.key) THEN Fail(c, "tecNO_ENTRY")
      ELSE IF k.dst # c.id THEN Fail(c, "tecNO_PERMISSION")
      ELSE IF TagMissing(c.v, c.id, k.tag) THEN Fail(c, "tecDST_TAG_NEEDED")
      ELSE IF k.exp # 0 /\ k.exp <= c.v.time THEN Fail(c, "tecEXPIRED")
      ELSE IF t.amount > k.max \/ have < t.amount THEN Fail(c, "tecPATH_PARTIAL")
      ELSE Ok(DropCheck(Credit(Debit(c, k.owner, pay), c.id, pay), t.key))

-----------------------------------------------------------------------------
(* A mutant: the last key can be cleared.                                  *)
SetRegularKeyUnchecked(c, t) ==
  IF t.key = c.id THEN Fail(c, "temBAD_REGKEY") ELSE Ok([c EXCEPT !.a.regKey = t.key])

(* SetRegularKey.Apply; t.key = None clears the key.                       *)
SetRegularKey(c, t) ==
  IF t.key = c.id THEN Fail(c, "temBAD_REGKEY")
  ELSE IF /\ t.key = None
          /\ "DisableMaster" \in c.a.flags
          /\ ~Exists(c.v, <<"SignerList", c.id>>)
    THEN Fail(c, "tecNO_ALTERNATIVE_KEY")
  ELSE Ok([c EXCEPT !.a.regKey = t.key])

(* removeSignersFromLedger: one owner count, taken from page 0.            *)
RemoveSigners(c) ==
  LET key == <<"SignerList", c.id>>
  IN  IF ~Exists(c.v, key) THEN c
      ELSE [c EXCEPT !.v = Erase(Unlink(@, c.id, 0, key, TRUE), key),
                     !.a.own = Less(@, 1)]

(* SignerListSet.Apply; t.signers = {} is a quorum of zero.  Every signer  *)
(* has weight one.                                                         *)
SignerListSet(c, t) ==
  LET key == <<"SignerList", c.id>>
      d   == RemoveSigners(c)
  IN  IF t.signers = {}
        THEN IF "DisableMaster" \in c.a.flags /\ c.a.regKey = None
               THEN Fail(c, "tecNO_ALTERNATIVE_KEY")
               ELSE Ok(d)
      ELSE IF PriorBalance(d) < AccountReserve(d.a.own + 1)
        THEN Fail(d, "tecINSUFFICIENT_RESERVE")
      ELSE Ok(Own(d, key, [owner |-> c.id, signers |-> t.signers, quorum |-> t.quorum,
                           node |-> 0]))

-----------------------------------------------------------------------------
(* DIDSet.Apply: the fields of the transaction replace those of the entry; *)
(* t.set are the fields given a value, t.clear those given as empty.       *)
DIDSet(c, t) ==
  LET key   == <<"DID", c.id>>
      found == Exists(c.v, key)
      left  == IF found THEN (Read(c.v, key).fields \cup t.set) \ t.clear ELSE t.set
  IN  IF ~found /\ c.a.bal < AccountReserve(c.a.own + 1)
        THEN Fail(c, "tecINSUFFICIENT_RESERVE")
      ELSE IF left = {} THEN Fail(c, "tecEMPTY_DID")
      ELSE IF found THEN Ok([c EXCEPT !.v.obj[key].fields = left])
      ELSE Ok(Own(c, key, [owner |-> c.id, fields |-> left, node |-> 0]))

(* DIDDelete.Apply: always from page 0.                                    *)
DIDDelete(c, t) ==
  LET key == <<"DID", c.id>>
  IN  IF ~Exists(c.v, key) THEN Fail(c, "tecNO_ENTRY")
      ELSE Ok(Disown(c, key, 0, TRUE))

-----------------------------------------------------------------------------
(* DepositPreauth.Apply.  The key of an entry names the account it         *)
(* authorises or the set of issuers whose credentials it accepts.          *)
PreauthKey(id, who) == <<"DepositPreauth", id, who>>

(* What applyAuthorize and applyAuthorizeCredentials do after their own    *)
(* look at the accounts named.                                             *)
AddPreauth(c, key) ==
  IF Exists(c.v, key) THEN Fail(c, "tecDUPLICATE")
  ELSE IF PriorBalance(c) < AccountReserve(c.a.own + 1)
    THEN Fail(c, "tecINSUFFICIENT_RESERVE")
  ELSE IF LinkFails(c.v, c.id, key) THEN Fail(c, "tecDIR_FULL")
  ELSE Ok(Own(c, key, [owner |-> c.id, node |-> LinkPage(c.v, c.id, key)]))

(* applyUnauthorize, applyUnauthorizeCredentials and removeFromLedger.     *)
RemovePreauth(c, key) ==
  IF ~Exists(c.v, key) THEN Fail(c, "tecNO_ENTRY")
  ELSE IF UnlinkFails(c.v, c.id, Read(c.v, key).node, key, FALSE)
    THEN Fail(c, "tefBAD_LEDGER")
  ELSE Ok(Disown(c, key, Read(c.v, key).node, FALSE))

ApplyAuthorize(c, who) ==
  IF ~HasAccount(c.v, who) THEN Fail(c, "tecNO_TARGET")
  ELSE AddPreauth(c, PreauthKey(c.id, who))

ApplyAuthorizeCredentials(c, issuers) ==
  IF \E i \in issuers : ~HasAccount(c.v, i) THEN Fail(c, "tecNO_ISSUER")
  ELSE AddPreauth(c, PreauthKey(c.id, issuers))

DepositPreauth(c, t) ==
  IF t.remove THEN RemovePreauth(c, PreauthKey(c.id, t.who))
  ELSE IF t.who \in Accounts THEN ApplyAuthorize(c, t.who)
  ELSE ApplyAuthorizeCredentials(c, t.who)

-----------------------------------------------------------------------------
(* Credentials: the key names the subject and the issuer.                  *)
CredKey(subject, issuer) == <<"Credential", subject, issuer>>

(* CheckCredentialExpired: one second later than the transactors' own      *)
(* tests elsewhere.                                                        *)
CheckCredentialExpired(v, key) ==
  Read(v, key).exp # 0 /\ v.time > Read(v, key).exp

(* A credential counts against its subject once accepted, and until then   *)
(* against its issuer.                                                     *)
CredOwner(v, key) == IF Read(v, key).accepted THEN key[2] ELSE key[3]

(* A credential about oneself is accepted from the start.                  *)
NewCredential(c, t, node, subjNode) ==
  [accepted |-> t.subject = c.id, exp |-> t.exp, node |-> node, subjNode |-> subjNode]

CredentialCreate(c, t) ==
  LET key == CredKey(t.subject, c.id)
      v1  == Link(c.v, c.id, key)
      v2  == IF t.subject = c.id THEN v1 ELSE Link(v1, t.subject, key)
      e   == NewCredential(c, t, LinkPage(c.v, c.id, key),
                           IF t.subject = c.id THEN 0 ELSE LinkPage(v1, t.subject, key))
  IN  IF ~HasAccount(c.v, t.subject) THEN Fail(c, "tecNO_TARGET")
      ELSE IF Exists(c.v, key) THEN Fail(c, "tecDUPLICATE")
      ELSE IF t.exp # 0 /\ c.v.time > t.exp THEN Fail(c, "tecEXPIRED")
      ELSE IF PriorBalance(c) < AccountReserve(c.a.own + 1)
        THEN Fail(c, "tecINSUFFICIENT_RESERVE")
      ELSE IF LinkFails(c.v, c.id, key)
              \/ (t.subject # c.id /\ LinkFails(v1, t.subject, key))
        THEN Fail(c, "tecDIR_FULL")
      ELSE Ok([c EXCEPT !.v = Write(v2, key, e), !.a.own = @ + 1])

CredentialAccept(c, t) ==
  LET key == CredKey(c.id, t.issuer)
      v1  == [c.v EXCEPT !.obj[key].accepted = TRUE]
  IN  IF ~HasAccount(c.v, t.issuer) THEN Fail(c, "tecNO_ISSUER")
      ELSE IF ~Exists(c.v, key) THEN Fail(c, "tecNO_ENTRY")
      ELSE IF Read(c.v, key).accepted THEN Fail(c, "tecDUPLICATE")
      ELSE IF CheckCredentialExpired(c.v, key) THEN Fail(c, "tecEXPIRED")
      ELSE IF PriorBalance(c) < AccountReserve(c.a.own + 1)
        THEN Fail(c, "tecINSUFFICIENT_RESERVE")
      ELSE Ok([c EXCEPT !.v = AdjustOwnerCount(v1, t.issuer, -1), !.a.own = @ + 1])

(* Both directory entries of a credential, then the entry itself.          *)
DropCredential(v, key) ==
  LET v1 == Unlink(v, key[3], Read(v, key).node, key, FALSE)
      v2 == IF key[2] = key[3] THEN v1
            ELSE Unlink(v1, key[2], Read(v, key).subjNode, key, FALSE)
  IN  Erase(v2, key)

(* Anyone may delete an expired credential.                                *)
CredentialDelete(c, t) ==
  LET key == CredKey(t.subject, t.issuer)
  IN  IF ~Exists(c.v, key) THEN Fail(c, "tecNO_ENTRY")
      ELSE IF c.id \notin {t.subject, t.issuer} /\ ~CheckCredentialExpired(c.v, key)
        THEN Fail(c, "tecNO_PERMISSION")
      ELSE Ok(AddOwner([c EXCEPT !.v = DropCredential(@, key)], CredOwner(c.v, key), -1))

(* DeleteSLE: the same step by step, with the owner count taken in the     *)
(* view.  A directory that cannot let go of the credential stops it, with  *)
(* what was done before left done.                                         *)
IssuerLetsGo(v, key) ==
  LET v1 == Unlink(v, key[3], Read(v, key).node, key, FALSE)
  IN  IF CredOwner(v, key) = key[3] THEN AdjustOwnerCount(v1, key[3], -1) ELSE v1

SubjectLetsGo(v, key) ==
  LET v1 == Unlink(v, key[2], Read(v, key).subjNode, key, FALSE)
  IN  IF key[2] = key[3] THEN v
      ELSE IF Read(v, key).accepted THEN AdjustOwnerCount(v1, key[2], -1) ELSE v1

IssuerHolds(v, key) == UnlinkFails(v, key[3], Read(v, key).node, key, FALSE)

SubjectHolds(v, key) ==
  key[2] # key[3] /\ UnlinkFails(v, key[2], Read(v, key).subjNode, key, FALSE)

DeleteSLE(v, key) ==
  IF IssuerHolds(v, key) THEN v
  ELSE IF SubjectHolds(v, key) THEN IssuerLetsGo(v, key)
  ELSE Erase(SubjectLetsGo(IssuerLetsGo(v, key), key), key)

DeleteSLEFails(v, key) == IssuerHolds(v, key) \/ SubjectHolds(v, key)

(* CredentialAccept.ApplyOnTec.                                            *)
AcceptOnTec(v, id, t) ==
  LET key == CredKey(id, t.issuer)
  IN  IF Exists(v, key) /\ CheckCredentialExpired(v, key) THEN DeleteSLE(v, key) ELSE v

-----------------------------------------------------------------------------
(* DelegateSet.Apply; t.perms are the transaction types delegated.         *)
DelegateKey(id, to) == <<"Delegate", id, to>>

NotDelegatable == {"AccountSet", "SetRegularKey", "SignerListSet", "DelegateSet",
                   "AccountDelete"}

DelegateSet(c, t) ==
  LET key   == DelegateKey(c.id, t.to)
      found == Exists(c.v, key)
  IN  IF ~HasAccount(c.v, t.to) THEN Fail(c, "tecNO_TARGET")
      ELSE IF t.perms \cap NotDelegatable # {} THEN Fail(c, "tecNO_PERMISSION")
      ELSE IF found /\ t.perms = {} THEN Ok(Disown(c, key, Read(c.v, key).node, FALSE))
      ELSE IF found THEN Ok([c EXCEPT !.v.obj[key].perms = t.perms])
      ELSE IF t.perms = {} THEN Ok(c)
      ELSE IF PriorBalance(c) < AccountReserve(c.a.own + 1)
        THEN Fail(c, "tecINSUFFICIENT_RESERVE")
      ELSE IF LinkFails(c.v, c.id, key) THEN Fail(c, "tecDIR_FULL")
      ELSE Ok(Own(c, key, [owner |-> c.id, perms |-> t.perms,
                           node |-> LinkPage(c.v, c.id, key)]))

-----------------------------------------------------------------------------
(* An oracle of more than five pairs takes two reserves.                   *)
OracleCount(pairs) == IF Cardinality(pairs) > oraclePairsPerReserve THEN 2 ELSE 1

(* The update time: within maxLastUpdateTimeDelta of the close time, a     *)
(* test skipped while the close time is smaller than that.                 *)
BadUpdateTime(v, at) ==
  /\ v.time >= MaxLastUpdateTimeDelta
  /\ at < v.time - MaxLastUpdateTimeDelta \/ at > v.time + MaxLastUpdateTimeDelta

(* doApplyUpdate and doApplyCreate.                                        *)
OracleUpdate(c, key, pairs, at, adjust) ==
  Ok([c EXCEPT !.v.obj[key] = [@ EXCEPT !.pairs = pairs, !.at = at], !.a.own = @ + adjust])

OracleCreate(c, key, pairs, at, adjust) ==
  IF LinkFails(c.v, c.id, key) THEN Fail(c, "tecDIR_FULL")
  ELSE Ok([c EXCEPT !.v = Write(Link(@, c.id, key), key,
                                [owner |-> c.id, pairs |-> pairs, at |-> at,
                                 node |-> LinkPage(c.v, c.id, key)]),
                    !.a.own = @ + adjust])

(* OracleSet.Apply; t.put are the pairs with a price, t.del those without. *)
OracleSet(c, t) ==
  LET key    == <<"Oracle", c.id>>
      found  == Exists(c.v, key)
      old    == IF found THEN Read(c.v, key).pairs ELSE {}
      pairs  == (old \ t.del) \cup t.put
      adjust == OracleCount(pairs) - (IF found THEN OracleCount(old) ELSE 0)
  IN  IF BadUpdateTime(c.v, t.at) THEN Fail(c, "tecINVALID_UPDATE_TIME")
      ELSE IF ~found /\ t.del # {} THEN Fail(c, "temMALFORMED")
      ELSE IF found /\ t.at <= Read(c.v, key).at THEN Fail(c, "tecINVALID_UPDATE_TIME")
      ELSE IF ~(t.del \subseteq old) THEN Fail(c, "tecTOKEN_PAIR_NOT_FOUND")
      ELSE IF pairs = {} THEN Fail(c, "tecARRAY_EMPTY")
      ELSE IF Cardinality(pairs) > MaxOracleDataSeries THEN Fail(c, "tecARRAY_TOO_LARGE")
      ELSE IF PriorBalance(c) < AccountReserve(c.a.own + adjust)
        THEN Fail(c, "tecINSUFFICIENT_RESERVE")
      ELSE IF found THEN OracleUpdate(c, key, pairs, t.at, adjust)
      ELSE OracleCreate(c, key, pairs, t.at, adjust)

(* DeleteOracleFromView, with the root page kept.                          *)
OracleDelete(c, t) ==
  LET key   == <<"Oracle", c.id>>
      count == OracleCount(Read(c.v, key).pairs)
  IN  IF ~Exists(c.v, key) THEN Fail(c, "tecNO_ENTRY")
      ELSE IF UnlinkFails(c.v, c.id, Read(c.v, key).node, key, TRUE)
        THEN Fail(c, "tefBAD_LEDGER")
      ELSE Ok([c EXCEPT
             !.v = Erase(Unlink(@, c.id, Read(c.v, key).node, key, TRUE), key),
             !.a.own = IF @ >= count THEN @ - count ELSE @])

-----------------------------------------------------------------------------
(* PermissionedDomainSet.Apply; t.domain = None creates a domain named     *)
(* after the sequence or ticket of the transaction.  t.issuers are the     *)
(* issuers of the accepted credentials.                                    *)
DomainUpdate(c, t) ==
  IF ~Exists(c.v, t.domain) THEN Fail(c, "tecNO_ENTRY")
  ELSE IF Read(c.v, t.domain).owner # c.id THEN Fail(c, "tecNO_PERMISSION")
  ELSE Ok([c EXCEPT !.v.obj[t.domain].issuers = t.issuers])

DomainCreate(c, t) ==
  LET key == <<"Domain", c.id, t.proxy>>
  IN  IF c.a.bal < AccountReserve(c.a.own + 1) THEN Fail(c, "tecINSUFFICIENT_RESERVE")
      ELSE IF LinkFails(c.v, c.id, key) THEN Fail(c, "tefINTERNAL")
      ELSE Ok(Own(c, key, [owner |-> c.id, issuers |-> t.issuers,
                           node |-> LinkPage(c.v, c.id, key)]))

DomainSet(c, t) ==
  IF \E i \in t.issuers : ~HasAccount(c.v, i) THEN Fail(c, "tecNO_ISSUER")
  ELSE IF t.domain # None THEN DomainUpdate(c, t)
  ELSE DomainCreate(c, t)

DomainDelete(c, t) ==
  IF ~Exists(c.v, t.domain) THEN Fail(c, "tecNO_ENTRY")
  ELSE IF Read(c.v, t.domain).owner # c.id THEN Fail(c, "tecNO_PERMISSION")
  ELSE IF UnlinkFails(c.v, c.id, Read(c.v, t.domain).node, t.domain, FALSE)
    THEN Fail(c, "tefBAD_LEDGER")
  ELSE Ok(Disown(c, t.domain, Read(c.v, t.domain).node, FALSE))
=============================================================================
