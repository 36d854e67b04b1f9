---------------------------- MODULE NFTokenMarket ----------------------------
(***************************************************************************)
(* Histories of NFTokens, trust lines and escrowed tokens: accounts mint,  *)
(* trade, change and burn NFTokens, for XRP or for another account's       *)
(* token, and lock tokens of trust lines and of issuances in escrows, in   *)
(* any order.  The engine around the transactors is that of module         *)
(* Transactor with the parts that do not matter here left out: every       *)
(* transaction carries the account's next sequence and pays the base fee.  *)
(*                                                                         *)
(* A history stays within one scope: who sends what (by), its first        *)
(* transactions (start), the fields tried (see the transaction sets), the  *)
(* initial balance and flags, the tokens an account issues at a rate, and  *)
(* how many more transactions there are (depth).                           *)
(***************************************************************************)
EXTENDS NFTokens, TokenEscrow

CONSTANTS Scopes                \* the scopes explored

VARIABLES ledger,               \* the view every transaction is applied to
          scope,                \* the scope of this history
          last                  \* ghost: the transaction just submitted and its outcome

vars == <<ledger, scope, last>>

-----------------------------------------------------------------------------
(* The engine: fee and sequence, the transactor, then commit or claim.     *)
Charged(v, id) == [v EXCEPT !.acct[id].bal = @ - BaseFee, !.acct[id].seq = @ + 1,
                            !.burned = @ + BaseFee]

Transact(c, t) ==
  CASE t.type = "TrustSet" -> TrustSet(c, t)
    [] t.type = "NFTokenMint" -> NFTokenMint(c, t)
    [] t.type = "NFTokenBurn" -> NFTokenBurn(c, t)
    [] t.type = "NFTokenModify" -> NFTokenModify(c, t)
    [] t.type = "NFTokenCreateOffer" -> NFTokenCreateOffer(c, t)
    [] t.type = "NFTokenCancelOffer" -> NFTokenCancelOffer(c, t)
    [] t.type = "NFTokenAcceptOffer" -> NFTokenAcceptOffer(c, t)
    [] t.type = "AccountSet" -> SetRateAndMinter(c, t)
    [] t.type = "MPTokenIssuanceCreate" -> MPTokenIssuanceCreate(c, t)
    [] t.type = "MPTokenAuthorize" -> MPTokenAuthorize(c, t)
    [] t.type = "MPTPayment" -> MPTPayment(c, t)
    [] t.type = "EscrowCreate" -> TokenEscrowCreate(c, t)
    [] t.type = "EscrowFinish" -> TokenEscrowFinish(c, t)
    [] t.type = "EscrowCancel" -> TokenEscrowCancel(c, t)

Conclude(v, w, id, r) ==
  [ter |-> r.ter,
   v   |-> IF r.ter = "tesSUCCESS" THEN UpdateAccountRoot(r.c.v, id, r.c.a)
           ELSE IF IsTec(r.ter) THEN w ELSE v]

ApplyCharged(v, w, id, t) ==
  Conclude(v, w, id, Transact([v |-> w, id |-> id, a |-> w.acct[id]], t))

Apply(v, id, t) ==
  IF v.acct[id].bal < BaseFee THEN [ter |-> "terINSUF_FEE_B", v |-> v]
  ELSE ApplyCharged(v, Charged(v, id), id, [proxy |-> v.acct[id].seq] @@ t)

-----------------------------------------------------------------------------
Nothing == [a |-> None, t |-> [type |-> "none"], ter |-> "none"]

Fresh(sc) ==
  [acct |-> [a \in Accounts |->
               [bal |-> sc.balance[a], seq |-> 1, own |-> 0, flags |-> sc.flags[a],
                rate |-> sc.rate[a], minter |-> sc.minter[a], minted |-> 0, gone |-> 0,
                first |-> None]],
   obj |-> [k \in {} |-> 0], dir |-> [a \in Accounts |-> NoDirectory],
   nft |-> [a \in Accounts |-> NoPages], tdir |-> [k \in {} |-> NoDirectory], time |-> 1, burned |-> 0]

(* The ledger after the first transactions of a scope, then aged so that   *)
(* the history may start.                                                  *)
Started(sc) ==
  [FoldLeft(LAMBDA v, s : Apply(v, s[1], s[2]).v, Fresh(sc), sc.start) EXCEPT !.burned = 0]

Init ==
  /\ scope \in Scopes
  /\ ledger = Started(scope)
  /\ last = Nothing

-----------------------------------------------------------------------------
(* The tokens there are, and one that is not; the offers, and none.        *)
TokensOf(v, a) ==
  UNION {{v.nft[a][p].tok[i].id : i \in DOMAIN v.nft[a][p].tok} : p \in DOMAIN v.nft[a]}

Tokens == UNION {TokensOf(ledger, a) : a \in Accounts}

EntriesOf(v, type) == {k \in DOMAIN v.obj : k[1] = type}

Offers(v) == EntriesOf(v, "NFTokenOffer")

Escrows(v) == EntriesOf(v, "Escrow")

-----------------------------------------------------------------------------
Lines(a) ==
  [type : {"TrustSet"}, peer : scope.peers[a] \ {a}, limit : scope.limits, quality : {None},
   set : scope.lineflags, clear : scope.lineflags]

MintTxs(a) ==
  [type : {"NFTokenMint"}, issuer : {None} \cup {i \in Accounts : ledger.acct[i].minter = a},
   ct : scope.taxa, flags : scope.tokenflags, fee : scope.fees, uri : {"old"},
   amount : {None} \cup scope.amounts, dst : {None}, exp : scope.exps, sell : {TRUE}]

Burns(a) == [type : {"NFTokenBurn"}, tok : Tokens, owner : {None} \cup (Accounts \ {a})]

Modifies(a) ==
  [type : {"NFTokenModify"}, tok : Tokens, owner : {None} \cup (Accounts \ {a}), uri : {"new"}]

CreateOffers(a) ==
  [type : {"NFTokenCreateOffer"}, tok : Tokens, sell : {TRUE}, owner : {None},
   amount : scope.amounts, dst : scope.dsts \ {a}, exp : scope.exps]
  \cup
  [type : {"NFTokenCreateOffer"}, tok : Tokens, sell : {FALSE}, owner : Accounts \ {a},
   amount : scope.amounts, dst : scope.dsts \ {a}, exp : scope.exps]

CancelOffers(a) ==
  [type : {"NFTokenCancelOffer"}, offers : {s \in SUBSET Offers(ledger) : Cardinality(s) \in {1, 2}}]

AcceptOffers(a) ==
  {t \in [type : {"NFTokenAcceptOffer"}, buy : {None} \cup Offers(ledger),
          sell : {None} \cup Offers(ledger), fee : {None} \cup scope.brokerfees] :
     /\ t.buy # None \/ t.sell # None
     /\ t.fee # None => t.buy # None /\ t.sell # None}

AccountSets(a) ==
  [type : {"AccountSet"}, rate : scope.rates, minter : {None}, clear : {FALSE}]
  \cup
  {t \in [type : {"AccountSet"}, rate : {None}, minter : {None} \cup scope.minters, clear : BOOLEAN] :
     t.clear = (t.minter = None) /\ scope.minters # {}}

Holds(a) ==
  [type : {"MPTokenAuthorize"}, key : EntriesOf(ledger, "MPTokenIssuance"), un : BOOLEAN,
   holder : {None}]

(* t.iss is the issuer of the escrowed token, t.mpt its issuance if it has *)
(* one.                                                                    *)
EscrowCreates(a) ==
  {t \in [type : {"EscrowCreate"}, dst : scope.dsts, amount : scope.locks, finish : {1},
          cancel : {0, 2}, cond : {FALSE}, tag : {FALSE},
          mpt : scope.issuances, iss : scope.issuers] :
     t.mpt # None => t.iss = t.mpt[2]}

EscrowFinishes(a) ==
  [type : {"EscrowFinish"}, key : Escrows(ledger), fulfilled : {FALSE}, creds : {{}}]

EscrowCancels(a) == [type : {"EscrowCancel"}, key : Escrows(ledger)]

(* What NFTokenMint.Validate and the others turn down without a look at    *)
(* the ledger is not tried: a fee needs Transferable.                      *)
WellFormed(t) ==
  t.type = "NFTokenMint" => (t.fee > 0 => "Transferable" \in t.flags)

Submit(a, t) ==
  /\ WellFormed(t)
  /\ \E r \in {Apply(ledger, a, t)} :
       /\ ledger' = r.v
       /\ last' = [a |-> a, t |-> t, ter |-> r.ter]
  /\ UNCHANGED scope

Transactions(type, a) ==
  CASE type = "TrustSet" -> Lines(a)
    [] type = "NFTokenMint" -> MintTxs(a)
    [] type = "NFTokenBurn" -> Burns(a)
    [] type = "NFTokenModify" -> Modifies(a)
    [] type = "NFTokenCreateOffer" -> CreateOffers(a)
    [] type = "NFTokenCancelOffer" -> CancelOffers(a)
    [] type = "NFTokenAcceptOffer" -> AcceptOffers(a)
    [] type = "AccountSet" -> AccountSets(a)
    [] type = "MPTokenAuthorize" -> Holds(a)
    [] type = "EscrowCreate" -> EscrowCreates(a)
    [] type = "EscrowFinish" -> EscrowFinishes(a)
    [] type = "EscrowCancel" -> EscrowCancels(a)

SubmitAny ==
  /\ ledger.burned < scope.depth
  /\ \E type \in DOMAIN scope.by : \E a \in scope.by[type] :
       \E t \in Transactions(type, a) : Submit(a, t)

(* A ledger closes: offers may have expired.                               *)
CloseLedger ==
  /\ ledger.time < scope.horizon /\ ledger.burned < scope.depth
  /\ ledger' = [ledger EXCEPT !.time = @ + 1]
  /\ last' = Nothing
  /\ UNCHANGED scope

Next == SubmitAny \/ CloseLedger

Spec == Init /\ [][Next]_vars

-----------------------------------------------------------------------------
(* The pages of an account hold what the code relies on when it looks a    *)
(* token up: they form one chain in key order that ends in the last page,  *)
(* none is empty or too full, tokens are in order, and the page a token is *)
(* looked for in (locatePage) is the one that holds it.                    *)
PagesSound ==
  \A a \in Accounts :
    LET pages == ledger.nft[a]
        after(k) == IF \E j \in DOMAIN pages : j > k THEN SuccPage(pages, k) ELSE NoPage
    IN  /\ DOMAIN pages # {} => LastPageKey \in DOMAIN pages
        /\ \A k \in DOMAIN pages :
             /\ Len(pages[k].tok) \in 1 .. dirMaxTokensPerPage
             /\ pages[k].next = after(k)
             /\ pages[k].prev # NoPage => /\ pages[k].prev \in DOMAIN pages
                                          /\ pages[pages[k].prev].next = k
             /\ \A i \in DOMAIN pages[k].tok : LocatePage(pages, pages[k].tok[i].id) = k
             /\ \A i \in 1 .. Len(pages[k].tok) - 1 :
                  Before(pages[k].tok[i], pages[k].tok[i + 1])

(* Every token minted and not burned is held exactly once, and no two      *)
(* tokens share an id: what NFTokenMint, NFTokenBurn and a sale leave of   *)
(* MintedNFTokens and BurnedNFTokens adds up with the pages.               *)
TokensAccounted ==
  \A i \in Accounts :
    LET held(a) == {<<p, n>> \in UNION {{p} \X DOMAIN ledger.nft[a][p].tok :
                                           p \in DOMAIN ledger.nft[a]} :
                      ledger.nft[a][p].tok[n].id.iss = i}
        count(a) == Cardinality(held(a))
    IN  /\ MapThenSumSet(count, Accounts) = ledger.acct[i].minted - ledger.acct[i].gone
        /\ Cardinality({t \in Tokens : t.iss = i}) = ledger.acct[i].minted - ledger.acct[i].gone

(* No token is lost or doubled, and each is where it is looked for.        *)
TokensInPlace == PagesSound /\ TokensAccounted

(* An account's owner count is what it owns: its token pages, its offers,  *)
(* escrows, issuances and MPTokens, and its ends of trust lines that carry *)
(* the Reserve flag.                                                       *)
OwnerCountsMatch ==
  \A a \in Accounts :
    ledger.acct[a].own = Cardinality(DOMAIN ledger.nft[a])
      + Cardinality({k \in DOMAIN ledger.obj : k[1] # "Line" /\ Read(ledger, k).owner = a})
      + Cardinality({k \in DOMAIN ledger.obj : /\ k[1] = "Line" /\ a \in k[2]
                                               /\ "Reserve" \in Read(ledger, k).side[a].flags})

(* The key k of an entry that is gone may still be on page p of a's        *)
(* directory: escrows, issuances and MPTokens do not record their page and *)
(* are looked for on the root only; EscrowFinish and EscrowCancel leave    *)
(* the destination's and the issuer's directory alone; and the root of a   *)
(* severed directory lets go of nothing.                                   *)
MayLinger(a, p, k) ==
  \/ p # 0 /\ k[1] \in {"Escrow", "MPTokenIssuance", "MPToken"}
  \/ k[1] = "Escrow" /\ k[2] # a
  \/ p = 0 /\ Severed(ledger.dir[a])

(* Every offer is in its owner's directory and in its token's, on the page *)
(* it remembers, so that it can be cancelled; and owner directories hold   *)
(* no key of an entry that is gone but those that may linger.              *)
OffersLinked ==
  /\ \A k \in Offers(ledger) :
       LET e == Read(ledger, k)
       IN  /\ k \in Range(ReadPage(ledger.dir[e.owner], e.node).idx)
           /\ k \in Range(ReadPage(TokenDir(ledger, OfferDir(e.tok, e.sell)), e.tnode).idx)
  /\ \A a \in Accounts : \A p \in DOMAIN ledger.dir[a] :
       \A k \in Range(ledger.dir[a][p].idx) : Exists(ledger, k) \/ MayLinger(a, p, k)

(* What an MPT issuance says of its tokens: the outstanding amount is what *)
(* its holders have, free or locked; its locked amount is what their       *)
(* tokens have locked; and each holder's token has at least as much locked *)
(* as the holder's escrows, so that every escrow can be paid or returned.  *)
EscrowsBacked ==
  \A m \in EntriesOf(ledger, "MPTokenIssuance") :
    LET toks       == {k \in EntriesOf(ledger, "MPToken") : k[3] = m}
        sum(f(_))  == MapThenSumSet(f, toks)
        due(a)     == MapThenSumSet(LAMBDA k : Read(ledger, k).amount,
                        {k \in Escrows(ledger) : Read(ledger, k).mpt = m /\ k[2] = a})
    IN  /\ Read(ledger, m).outstanding
             = sum(LAMBDA k : Read(ledger, k).amount + Read(ledger, k).locked)
        /\ Read(ledger, m).locked = sum(LAMBDA k : Read(ledger, k).locked)
        /\ \A a \in Accounts : due(a) > 0 =>
             /\ Exists(ledger, TokenKey(a, m))
             /\ Read(ledger, TokenKey(a, m)).locked >= due(a)

(* What accounts hold and owe adds up after every transaction: reserves,   *)
(* directories, and what escrows have locked.                              *)
HoldingsConsistent == OwnerCountsMatch /\ OffersLinked /\ EscrowsBacked

XRPTotal(v) == MapThenSumSet(LAMBDA a : v.acct[a].bal, Accounts) + v.burned

(* A sale that the token's own issuer brokers.                             *)
IssuerBrokers(a, t) ==
  /\ t.type = "NFTokenAcceptOffer" /\ t.buy # None /\ t.sell # None
  /\ Exists(ledger, t.buy) /\ Read(ledger, t.buy).tok.iss = a

(* No transaction makes or loses XRP: what a buyer pays reaches the        *)
(* seller, the issuer and the broker, whichever of them submits.  A sale   *)
(* brokered by the token's issuer is left out: there the broker's share is *)
(* lost (nftoken_accept_offer.go).                                         *)
XRPConserved ==
  [][IssuerBrokers(last'.a, last'.t) \/ XRPTotal(ledger') = XRPTotal(ledger)]_vars

(* A sale never leaves a buyer or a seller owing tokens it did not owe: no *)
(* sale takes a balance on a line below zero, transfer rate included.      *)
NobodyOverdrawn ==
  [][last'.t.type = "NFTokenAcceptOffer" =>
       \A a, i \in Accounts : scope.rate[i] # 0 /\ a # i =>
         Held(ledger', a, i) >= 0 \/ Held(ledger', a, i) >= Held(ledger, a, i)]_vars

(* What an account gains of an asset, its own transaction's fee aside.     *)
Gain(a, x) ==
  IF x # XRP THEN Held(ledger', a, x) - Held(ledger, a, x)
  ELSE ledger'.acct[a].bal - ledger.acct[a].bal + (IF a = last'.a THEN BaseFee ELSE 0)

(* A sale that goes through pays everyone what they are due.  The seller   *)
(* gets the price less the number of the broker's fee and less the token   *)
(* issuer's share, which is the token's transfer fee to the unit; the      *)
(* broker gets its fee, in the token the fee names; and the buyer gives up *)
(* what they get, and at most the transfer rate on top, a unit of rounding *)
(* for each of three payments.  Nothing in the code compares the token of  *)
(* the broker's fee with the one of the sale (executeBrokeredMode): when   *)
(* they differ the buyer pays in two.                                      *)
PaidInFull ==
  [][last'.t.type = "NFTokenAcceptOffer" /\ last'.ter = "tesSUCCESS" =>
       LET t      == last'.t
           o      == Read(ledger, IF t.buy # None THEN t.buy ELSE t.sell)
           x      == o.amount.asset
           buyer  == IF t.buy # None THEN o.owner ELSE last'.a
           seller == IF t.sell # None THEN Read(ledger, t.sell).owner ELSE last'.a
           net    == o.amount.n - FeeOf(t.fee)
           share  == transferFeeDivisor * (net - Gain(seller, x)) - o.tok.fee * net
           due    == net + (IF t.fee # None THEN IF t.fee.asset = x THEN t.fee.n ELSE 0 ELSE 0)
           rate   == IF x = XRP THEN qualityOne ELSE TransferRate(ledger, x)
       IN  /\ seller # x => IF o.tok.iss \in {buyer, seller} THEN Gain(seller, x) = net
                            ELSE share < transferFeeDivisor /\ -share < transferFeeDivisor
           /\ t.fee # None => IF last'.a \in {o.tok.iss, t.fee.asset} THEN TRUE
                              ELSE Gain(last'.a, t.fee.asset) = t.fee.n
           /\ buyer # x => /\ -Gain(buyer, x) >= due
                           /\ -Gain(buyer, x) * qualityOne <= due * rate + 3 * (qualityOne - 1)]_vars

(* A sale moves money exactly: none appears, none is lost, everyone is     *)
(* paid what they are due and nobody pays what they do not have.           *)
SalesExact == XRPConserved /\ NobodyOverdrawn /\ PaidInFull

(* A token that is not transferable changes hands only with its issuer as  *)
(* one of the parties, or on an offer of an account that was the issuer's  *)
(* minter when it made the offer: NFTokenCreateOffer checks this and       *)
(* NFTokenAcceptOffer does not look again, so that an offer outlives its   *)
(* owner's dismissal (AccountSet), and no more than that.                  *)
NonTransferableStays ==
  [][\A a, b \in Accounts : a # b =>
       \A tok \in TokensOf(ledger, a) \cap TokensOf(ledger', b) :
         \/ "Transferable" \in tok.flags
         \/ tok.iss \in {a, b}
         \/ \E k \in Offers(ledger) \ Offers(ledger') :
              LET e == Read(ledger, k)
              IN  e.tok = tok /\ e.owner \in {a, b} /\ e.minter = e.owner]_vars

(* A token leaves its holder only if the holder offered it, accepts an     *)
(* offer, or the token is burnable and was burnt by its issuer or by the   *)
(* minter the issuer has at that time.                                     *)
HolderConsents ==
  [][\A a \in Accounts : \A tok \in TokensOf(ledger, a) \ TokensOf(ledger', a) :
       \/ last'.a = a
       \/ \E k \in Offers(ledger) \ Offers(ledger') :
            Read(ledger, k).owner = a /\ Read(ledger, k).tok = tok /\ Read(ledger, k).sell
       \/ "Burnable" \in tok.flags /\ last'.t.type = "NFTokenBurn"
            /\ last'.a \in {tok.iss, ledger.acct[tok.iss].minter}]_vars

(* Tokens change hands as their issuer and their holder allow.             *)
TokensFollowRules == NonTransferableStays /\ HolderConsents

(* What an account has of a token that is or was escrowed.                 *)
HoldingOf(v, a, e) ==
  IF a = e.iss THEN 0
  ELSE IF e.mpt = None THEN Held(v, a, e.iss)
  ELSE IF Exists(v, TokenKey(a, e.mpt)) THEN Read(v, TokenKey(a, e.mpt)).amount ELSE 0

(* An escrow that is gone was paid or returned in full: cancelled, its     *)
(* owner has the amount back; finished, its destination has at most the    *)
(* amount and at least what it was due at the transfer rate in force when  *)
(* the escrow was made ("protecting the destination from issuer rate       *)
(* increases", EscrowCreate.Apply); and nobody else's holdings changed.    *)
EscrowPaysOut ==
  [][\A k \in Escrows(ledger) \ Escrows(ledger') :
       LET e       == Read(ledger, k)
           gain(a) == HoldingOf(ledger', a, e) - HoldingOf(ledger, a, e)
           to      == IF last'.t.type = "EscrowCancel" THEN e.owner ELSE e.dst
       IN  /\ \A a \in Accounts \ {to} : gain(a) = 0
           /\ to # e.iss => gain(to) <= e.amount
           /\ to # e.iss => gain(to) >= IF to = e.owner /\ last'.t.type = "EscrowCancel"
                                         THEN e.amount ELSE e.promise]_vars
=============================================================================
