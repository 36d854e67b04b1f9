------------------------- MODULE TransactionHistory -------------------------
(***************************************************************************)
(* Histories of a ledger: any accounts submit transactions in any order,   *)
(* the engine (module Transactor) applies each of them, and ledgers close  *)
(* in between, which moves the close time on.                              *)
(*                                                                         *)
(* A history stays within one scope: the transaction types it uses and who *)
(* sends them (by), the accounts funded at the start, their balance and    *)
(* the flags they have set by then (preset), the flags AccountSet changes, *)
(* the amounts, tags and issuances that occur, how many drops the history  *)
(* may burn (depth, its length) and how late it may get (horizon), and     *)
(* which variations of the common fields it tries: tickets and wrong       *)
(* sequences (proxies), keys and signer lists (signing), delegates, and    *)
(* TapRETRY.  The scopes together cover every type.                        *)
(***************************************************************************)
EXTENDS Transactor

CONSTANTS Scopes,               \* the scopes explored
          GenesisSeq,           \* the ledger sequence at the start
          FirstSeq              \* the sequence of every account at the start

VARIABLES ledger,               \* the view every transaction is applied to
          scope,                \* the scope of this history
          used,                 \* ghost: the sequences and tickets spent, by account
          last                  \* ghost: the transaction just submitted and its outcome

vars == <<ledger, scope, used, last>>

Nothing == [a |-> None, t |-> [type |-> "none"], ter |-> "none", applied |-> FALSE]

Genesis(sc) ==
  [acct |-> [a \in sc.funded |-> [NewAccount(sc.balance, FirstSeq) EXCEPT !.flags = sc.preset[a]]],
   obj |-> [k \in {} |-> 0], dir |-> [a \in Accounts |-> NoDirectory],
   time |-> 1, lseq |-> GenesisSeq, burned |-> 0]

Init ==
  /\ scope \in Scopes
  /\ ledger = Genesis(scope)
  /\ used = {}
  /\ last = Nothing

-----------------------------------------------------------------------------
(* The common fields a transaction of a may carry.                         *)
Proxies(a) ==
  LET seq == ledger.acct[a].seq
  IN  {[seq |-> s, ticket |-> 0, proxy |-> s] :
         s \in IF scope.proxies THEN {seq - 1, seq, seq + 1} ELSE {seq}}
      \cup {[seq |-> 0, ticket |-> n, proxy |-> n] :
              n \in IF scope.proxies THEN FirstSeq .. seq ELSE {}}

Signatures(a) ==
  LET one(s)  == [signer |-> s, multi |-> {}]
      pairs   == Accounts \X Accounts
      several == {m \in SUBSET pairs : m # {} /\ Cardinality(m) <= 2
                                       /\ \A p, q \in m : p[1] = q[1] => p = q}
  IN  IF scope.signing
        THEN {one(s) : s \in Accounts} \cup {[signer |-> None, multi |-> m] : m \in several}
        ELSE {one(a)}

Signed(a) ==
  UNION {{[delegate |-> d] @@ s : s \in Signatures(IF d = None THEN a ELSE d)} :
           d \in {None} \cup (IF scope.delegates THEN Accounts ELSE {})}

Envelopes(a) ==
  {p @@ s @@ [retry |-> r] :
     p \in Proxies(a), s \in Signed(a), r \in IF scope.retry THEN BOOLEAN ELSE {FALSE}}

(* The accounts that may send a type now, the keys of a type and one that  *)
(* is absent, the credentials a sender may name, and times about now.      *)
Senders(type) ==
  IF ledger.burned < scope.depth THEN scope.by[type] \cap DOMAIN ledger.acct ELSE {}

Keys(type) == KeysOf(ledger, type) \cup {<<type, None, None>>}

Creds(a) == {{}} \cup {{k} : k \in {j \in KeysOf(ledger, "Credential") : j[2] = a}}

Times == {0, ledger.time, ledger.time + 1}

-----------------------------------------------------------------------------
(* The fields of its own a transaction of a may carry, by type.            *)
TicketCreates(a) == [type : {"TicketCreate"}, count : 1 .. 2]

CheckCreates(a) ==
  [type : {"CheckCreate"}, dst : Accounts \ {a}, max : scope.amounts, exp : Times,
   tag : scope.tags]

CheckCancels(a) == [type : {"CheckCancel"}, key : Keys("Check")]

CheckCashes(a) ==
  [type : {"CheckCash"}, key : Keys("Check"), amount : scope.amounts, deliverMin : BOOLEAN]

SetRegularKeys(a) == [type : {"SetRegularKey"}, key : Accounts \cup {None}]

SignerListSets(a) ==
  {t \in [type : {"SignerListSet"}, signers : SUBSET (Accounts \ {a}),
          quorum : 0 .. Cardinality(Accounts)] :
     IF t.signers = {} THEN t.quorum = 0 ELSE t.quorum \in 1 .. Cardinality(t.signers)}

DIDSets(a) ==
  LET some == SUBSET {"uri", "data"}
  IN  {t \in [type : {"DIDSet"}, set : some, clear : some] :
         t.set \cap t.clear = {} /\ t.set \cup t.clear # {}}

DIDDeletes(a) == [type : {"DIDDelete"}]

DepositPreauths(a) ==
  [type : {"DepositPreauth"}, who : (Accounts \ {a}) \cup {{i} : i \in Accounts},
   remove : BOOLEAN]

CredentialCreates(a) == [type : {"CredentialCreate"}, subject : Accounts, exp : Times]

CredentialAccepts(a) == [type : {"CredentialAccept"}, issuer : Accounts]

CredentialDeletes(a) == [type : {"CredentialDelete"}, subject : Accounts, issuer : Accounts]

DelegateSets(a) ==
  [type : {"DelegateSet"}, to : Accounts \ {a}, perms : SUBSET {"Payment", "AccountSet"}]

OracleSets(a) ==
  LET some == SUBSET (1 .. 3)
  IN  {t \in [type : {"OracleSet"}, put : some, del : some, at : 1 .. scope.horizon] :
         t.put \cap t.del = {} /\ t.put \cup t.del # {}}

OracleDeletes(a) == [type : {"OracleDelete"}]

DomainSets(a) ==
  [type : {"DomainSet"}, domain : Keys("Domain") \cup {None}, issuers : {{i} : i \in Accounts}]

DomainDeletes(a) == [type : {"DomainDelete"}, domain : Keys("Domain")]

Payments(a) ==
  [type : {"Payment"}, dst : Accounts \ {a}, amount : scope.amounts, tag : scope.tags,
   creds : Creds(a)]

EscrowCreates(a) ==
  {t \in [type : {"EscrowCreate"}, dst : Accounts, amount : scope.amounts, finish : Times,
          cancel : Times, cond : BOOLEAN, tag : scope.tags] :
     /\ t.finish # 0 \/ t.cancel # 0
     /\ t.cancel # 0 => t.finish < t.cancel}

EscrowFinishes(a) ==
  [type : {"EscrowFinish"}, key : Keys("Escrow"), fulfilled : BOOLEAN, creds : Creds(a)]

EscrowCancels(a) == [type : {"EscrowCancel"}, key : Keys("Escrow")]

PaymentChannelCreates(a) ==
  [type : {"PaymentChannelCreate"}, dst : Accounts \ {a}, amount : scope.amounts,
   delay : 0 .. 1, cancel : Times, tag : scope.tags]

PaymentChannelFunds(a) ==
  [type : {"PaymentChannelFund"}, key : Keys("PayChannel"), amount : scope.amounts, exp : Times]

PaymentChannelClaims(a) ==
  {t \in [type : {"PaymentChannelClaim"}, key : Keys("PayChannel"),
          balance : {0} \cup scope.amounts, signed : BOOLEAN, renew : BOOLEAN,
          close : BOOLEAN, creds : Creds(a)] :
     ~(t.renew /\ t.close)}

AccountSets(a) ==
  LET some == scope.flags \cup {None}
  IN  {t \in [type : {"AccountSet"}, set : some, clear : some] :
         t.set = None \/ t.set # t.clear}

AccountDeletes(a) ==
  [type : {"AccountDelete"}, dst : Accounts \ {a}, tag : scope.tags, creds : Creds(a)]

MPTokenIssuanceCreates(a) ==
  UNION {{[type |-> "MPTokenIssuanceCreate", domain |-> d] @@ i :
            d \in {None} \cup (IF "RequireAuth" \in i.flags THEN KeysOf(ledger, "Domain") ELSE {})} :
           i \in scope.issues}

MPTokenIssuanceDestroys(a) ==
  [type : {"MPTokenIssuanceDestroy"}, key : Keys("MPTokenIssuance")]

MPTokenIssuanceSets(a) ==
  {t \in [type : {"MPTokenIssuanceSet"}, key : Keys("MPTokenIssuance"),
          holder : (Accounts \ {a}) \cup {None}, lock : {"lock", "unlock", "none"},
          setDomain : BOOLEAN, domain : {None} \cup Keys("Domain")] :
     /\ t.holder # None => ~t.setDomain
     /\ ~t.setDomain => t.domain = None}

MPTokenAuthorizes(a) ==
  [type : {"MPTokenAuthorize"}, key : Keys("MPTokenIssuance"),
   holder : (Accounts \ {a}) \cup {None}, un : BOOLEAN]

MPTPayments(a) ==
  {t \in [type : {"MPTPayment"}, key : Keys("MPTokenIssuance"), dst : Accounts \ {a},
          amount : scope.amounts, sendMax : {0} \cup scope.amounts,
          deliverMin : {0} \cup scope.amounts, partial : BOOLEAN, tag : {FALSE}, creds : {{}}] :
     t.deliverMin # 0 => t.partial}

Clawbacks(a) ==
  [type : {"Clawback"}, key : Keys("MPTokenIssuance"), holder : Accounts \ {a},
   amount : scope.amounts]

Bodies(type, a) ==
  CASE type = "TicketCreate" -> TicketCreates(a)
    [] type = "CheckCreate" -> CheckCreates(a)
    [] type = "CheckCancel" -> CheckCancels(a)
    [] type = "CheckCash" -> CheckCashes(a)
    [] type = "SetRegularKey" -> SetRegularKeys(a)
    [] type = "SignerListSet" -> SignerListSets(a)
    [] type = "DIDSet" -> DIDSets(a)
    [] type = "DIDDelete" -> DIDDeletes(a)
    [] type = "DepositPreauth" -> DepositPreauths(a)
    [] type = "CredentialCreate" -> CredentialCreates(a)
    [] type = "CredentialAccept" -> CredentialAccepts(a)
    [] type = "CredentialDelete" -> CredentialDeletes(a)
    [] type = "DelegateSet" -> DelegateSets(a)
    [] type = "OracleSet" -> OracleSets(a)
    [] type = "OracleDelete" -> OracleDeletes(a)
    [] type = "DomainSet" -> DomainSets(a)
    [] type = "DomainDelete" -> DomainDeletes(a)
    [] type = "Payment" -> Payments(a)
    [] type = "EscrowCreate" -> EscrowCreates(a)
    [] type = "EscrowFinish" -> EscrowFinishes(a)
    [] type = "EscrowCancel" -> EscrowCancels(a)
    [] type = "PaymentChannelCreate" -> PaymentChannelCreates(a)
    [] type = "PaymentChannelFund" -> PaymentChannelFunds(a)
    [] type = "PaymentChannelClaim" -> PaymentChannelClaims(a)
    [] type = "AccountSet" -> AccountSets(a)
    [] type = "AccountDelete" -> AccountDeletes(a)
    [] type = "MPTokenIssuanceCreate" -> MPTokenIssuanceCreates(a)
    [] type = "MPTokenIssuanceDestroy" -> MPTokenIssuanceDestroys(a)
    [] type = "MPTokenIssuanceSet" -> MPTokenIssuanceSets(a)
    [] type = "MPTokenAuthorize" -> MPTokenAuthorizes(a)
    [] type = "MPTPayment" -> MPTPayments(a)
    [] type = "Clawback" -> Clawbacks(a)

(* Any account of the scope submits any transaction it may send.           *)
Submit ==
  \E type \in DOMAIN scope.by : \E a \in Senders(type) :
    \E body \in Bodies(type, a), e \in Envelopes(a) :
      \E t \in {body @@ e} : \E r \in {Apply(ledger, a, t)} :
        /\ ledger' = r.v
        /\ used' = IF r.applied THEN used \cup {<<a, t.proxy>>} ELSE used
        /\ last' = [a |-> a, t |-> t, ter |-> r.ter, applied |-> r.applied]
        /\ UNCHANGED scope

(* The next ledger: its parent closed later.                               *)
CloseLedger ==
  /\ ledger.time < scope.horizon
  /\ ledger' = [ledger EXCEPT !.time = @ + 1, !.lseq = @ + 1]
  /\ last' = Nothing
  /\ UNCHANGED <<scope, used>>

Next == Submit \/ CloseLedger

Spec == Init /\ [][Next]_vars

-----------------------------------------------------------------------------

(* No sequence of transactions creates or loses XRP: account balances,     *)
(* escrows, the unclaimed part of channels and the fees destroyed always   *)
(* add up to what was there at the start.  Stronger than the engine's own  *)
(* XRPNotCreated check, which only forbids a gain.                         *)
XRPConserved ==
  XRPHeld(ledger) + ledger.burned = scope.balance * Cardinality(scope.funded)

(* What an entry adds to the owner count of an account.                    *)
Charge(k, a) ==
  IF k[1] = "Credential" THEN IF CredOwner(ledger, k) = a THEN 1 ELSE 0
  ELSE IF ledger.obj[k].owner # a THEN 0
  ELSE IF k[1] = "Oracle" THEN OracleCount(ledger.obj[k].pairs)
  ELSE 1

(* OwnerCount and TicketCount, which the transactors keep by hand in two   *)
(* places (the account root in memory and the view's copy), always equal   *)
(* what the account owns.                                                  *)
OwnerCountsMatch ==
  \A a \in DOMAIN ledger.acct :
    /\ ledger.acct[a].own = MapThenSumSet(LAMBDA k : Charge(k, a), DOMAIN ledger.obj)
    /\ ledger.acct[a].tickets = Cardinality({k \in KeysOf(ledger, "Ticket") : k[2] = a})

(* The accounts whose owner directory lists an entry.                      *)
Parties(k) ==
  IF k[1] = "Credential" THEN {k[2], k[3]}
  ELSE IF k[1] \in {"Check", "Escrow", "PayChannel"}
    THEN {ledger.obj[k].owner, ledger.obj[k].dst}
  ELSE {ledger.obj[k].owner}

(* The key k of an entry that is gone may still be on page p of a's        *)
(* directory: the page of its type is not recorded and it was not on the   *)
(* root, it is an escrow that a did not create, a ticket whose page was    *)
(* misread, or the root could not let go of it.                            *)
MayLinger(a, p, k) ==
  \/ p # 0 /\ k[1] \in {"Ticket", "SignerList", "DID", "Escrow", "MPTokenIssuance", "MPToken"}
  \/ k[1] = "Escrow" /\ k[2] # a
  \/ k[1] = "Ticket" /\ HasByte(k[3], 52)
  \/ p = 0 /\ Severed(ledger.dir[a])

(* Every entry is on a page of the directories of its parties, which a     *)
(* walk finds unless the directory is severed; and nothing else is listed  *)
(* but keys that may linger.                                               *)
DirectoriesMatch ==
  /\ \A k \in DOMAIN ledger.obj : \A a \in Parties(k) : k \in Stored(ledger.dir[a])
  /\ \A a \in Accounts :
       LET dir == ledger.dir[a]
       IN  /\ Severed(dir) \/ Stored(dir) = Range(DirForEach(dir))
           /\ \A p \in DOMAIN dir : \A k \in Range(dir[p].idx) :
                IF Exists(ledger, k) THEN a \in Parties(k) ELSE MayLinger(a, p, k)

(* AccountDelete strands nothing that its walk of the directory finds:     *)
(* whatever is left names accounts that exist as its owner, destination,   *)
(* subject or issuer, or is out of the walk's reach.                       *)
PartiesExist ==
  \A k \in DOMAIN ledger.obj : \A a \in Parties(k) :
    HasAccount(ledger, a) \/ k \notin Range(DirForEach(ledger.dir[a]))

(* The amount outstanding of an issuance is what its holders have, within  *)
(* its maximum, through payments with a transfer fee, partial payments and *)
(* clawback; and nobody holds anything of an issuance that was destroyed.  *)
MPTBacked ==
  LET tokens(i) == {k \in KeysOf(ledger, "MPToken") : k[3] = i}
      amount(k) == ledger.obj[k].amount
  IN  /\ \A i \in KeysOf(ledger, "MPTokenIssuance") :
           LET e == ledger.obj[i]
           IN  /\ e.outstanding = MapThenSumSet(amount, tokens(i))
               /\ e.outstanding <= IF e.max = 0 THEN maxMPTokenAmount ELSE e.max
      /\ \A k \in KeysOf(ledger, "MPToken") : ~Exists(ledger, k[3]) => amount(k) = 0

(* Whatever the transactors did, one by one or against each other, the     *)
(* ledger adds up: XRP, owner counts, directories, the parties of entries  *)
(* and the amounts outstanding.                                            *)
LedgerConsistent ==
  XRPConserved /\ OwnerCountsMatch /\ DirectoriesMatch /\ PartiesExist /\ MPTBacked

(* Through any order of AccountSet, SetRegularKey and SignerListSet, an    *)
(* account whose master key is disabled has another way to sign.           *)
NeverLockedOut ==
  \A a \in DOMAIN ledger.acct :
    "DisableMaster" \in ledger.acct[a].flags
      => ledger.acct[a].regKey # None \/ Exists(ledger, <<"SignerList", a>>)

-----------------------------------------------------------------------------
(* No transaction is applied twice: an account never spends the same       *)
(* sequence or ticket again, not even one that was deleted and funded      *)
(* anew.                                                                   *)
NoReplay ==
  [][last'.applied => <<last'.a, last'.t.proxy>> \notin used]_vars

(* What a tec code may change of the ledger.                               *)
FeeOnly(old, new, a, t) ==
  LET bare(root) == [root EXCEPT !.own = 0, !.tickets = 0, !.seq = 0]
  IN  /\ DOMAIN new.obj \subseteq DOMAIN old.obj
      /\ \A k \in DOMAIN new.obj : new.obj[k] = old.obj[k]
      /\ \A k \in DOMAIN old.obj \ DOMAIN new.obj :
           \/ k = TicketKey(a, t.ticket)
           \/ k[1] = "Credential" /\ CheckCredentialExpired(old, k)
      /\ DOMAIN new.acct = DOMAIN old.acct
      /\ \A b \in DOMAIN old.acct :
           /\ bare(new.acct[b]) =
                [bare(old.acct[b]) EXCEPT !.bal = IF b = Payer(a, t) THEN @ - Fee(t) ELSE @]
           /\ new.acct[b].seq = IF b = a /\ t.ticket = 0 THEN t.seq + 1 ELSE old.acct[b].seq
      /\ ~Exists(new, TicketKey(a, t.ticket))

(* A transaction that is not applied leaves the ledger alone.  One that    *)
(* fails with a tec code takes the fee from whoever pays it, uses up the   *)
(* sequence or ticket, deletes credentials that had expired, and does      *)
(* nothing else.                                                           *)
FailureIsFeeOnly ==
  [][last' # Nothing =>
       /\ ~last'.applied => ledger' = ledger
       /\ last'.applied /\ IsTec(last'.ter)
            => FeeOnly(ledger, ledger', last'.a, last'.t)]_vars

(* The engine's safety net is never needed: no transaction is stopped by   *)
(* an invariant check, and none finds the ledger internally inconsistent   *)
(* but for a severed directory.                                            *)
NoInternalFailure ==
  [][/\ last'.ter \notin {"tecINVARIANT_FAILED", "tefINVARIANT_FAILED"}
     /\ last'.ter \in {"tefINTERNAL", "tefBAD_LEDGER"}
          => \E a \in Accounts : Severed(ledger.dir[a])]_vars

(* A transaction that fails does so cleanly: it costs its fee and nothing  *)
(* else, and it never fails because the engine found the ledger broken.    *)
FailsCleanly == FailureIsFeeOnly /\ NoInternalFailure

\* What an account with DepositAuth has authorised.
Authorised(old, a, from, t) ==
  \/ Exists(old, PreauthKey(a, from))
  \/ \E c \in t.creds : /\ Exists(old, c) /\ Read(old, c).accepted /\ c[2] = from
                        /\ ~CheckCredentialExpired(old, c)
                        /\ Exists(old, PreauthKey(a, {c[3]}))

GaveBack(old, new, a) ==
  \E k \in DOMAIN old.obj \ DOMAIN new.obj :
    k[1] \in {"Escrow", "PayChannel"} /\ old.obj[k].owner = a

(* An account with DepositAuth receives XRP from a transaction of another  *)
(* account only if it authorised that account or its credential, or both   *)
(* amounts are within the base reserve, or what comes back was its own: an *)
(* escrow or a channel of its that ended.                                  *)
DepositAuthRespected ==
  [][\A a \in (DOMAIN ledger.acct \cap DOMAIN ledger'.acct) \ {last'.a} :
       /\ "DepositAuth" \in ledger.acct[a].flags
       /\ ledger'.acct[a].bal > ledger.acct[a].bal
       => \/ GaveBack(ledger, ledger', a)
          \/ ledger.acct[a].bal <= ReserveBase
             /\ ledger'.acct[a].bal - ledger.acct[a].bal <= ReserveBase
          \/ Authorised(ledger, a, last'.a, last'.t)]_vars

(* The destination of a payment channel has notice: the channel ends with  *)
(* funds it did not receive only by its own transaction or after the       *)
(* expiration or cancel time, and an expiration is never set nearer than   *)
(* the settle delay, nor an earlier one brought forward.                   *)
ChannelNotice ==
  [][\A k \in KeysOf(ledger, "PayChannel") :
       LET ch == ledger.obj[k]
       IN  IF Exists(ledger', k)
             THEN LET exp == ledger'.obj[k].exp
                  IN  exp \in {0, ch.exp} \/ exp >= ledger.time + ch.delay
                        \/ (ch.exp # 0 /\ exp >= ch.exp)
             ELSE \/ last'.a = ch.dst \/ Lapsed(ledger, ch)
                  \/ ledger'.acct[ch.dst].bal - ledger.acct[ch.dst].bal
                       = ch.amount - ch.balance]_vars

(* Whatever an account delegates, a delegate never decides who controls    *)
(* it: no transaction sent by a delegate changes its keys, its signers,    *)
(* its flags or its delegations, or deletes it.                            *)
DelegateNeverInControl ==
  [][last'.t.type # "none" /\ last'.t.delegate # None /\ last'.a \in DOMAIN ledger.acct =>
       /\ last'.a \in DOMAIN ledger'.acct
       /\ ledger'.acct[last'.a].regKey = ledger.acct[last'.a].regKey
       /\ ledger'.acct[last'.a].flags = ledger.acct[last'.a].flags
       /\ \A type \in {"SignerList", "Delegate"} :
            {k \in KeysOf(ledger', type) : k[2] = last'.a}
              = {k \in KeysOf(ledger, type) : k[2] = last'.a}]_vars

(* What an account may rely on, others' transactions notwithstanding: its  *)
(* deposit authorisation, its control over its keys and delegations, and   *)
(* the notice a channel owes its destination.                              *)
RightsRespected == DepositAuthRespected /\ DelegateNeverInControl /\ ChannelNotice

=============================================================================
