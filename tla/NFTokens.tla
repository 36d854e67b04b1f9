------------------------------ MODULE NFTokens ------------------------------
(***************************************************************************)
(* The NFToken transactors, src/internal/tx/nftoken: mint, burn, modify,   *)
(* and the offers to sell and to buy a token.                              *)
(*                                                                         *)
(* Besides what TxLedger says a view has, v.nft holds the pages of each    *)
(* account and v.tdir the directories of the offers for a token, named     *)
(* <<"Sells", id>> and <<"Buys", id>>.  An account root has rate           *)
(* (TransferRate), minter (NFTokenMinter), minted, gone (BurnedNFTokens)   *)
(* and first (FirstNFTokenSequence or None).  An amount is [asset, n].     *)
(* All amendments are on, so no amount is negative and no token has the    *)
(* TrustLine flag.                                                         *)
(*                                                                         *)
(* First the pages in which an account keeps its NFTokens                  *)
(* (src/internal/tx/nftoken/nftoken_page.go and nftoken_id.go).            *)
(*                                                                         *)
(* A token id is a record of what its 32 bytes hold: flags, fee, iss (the  *)
(* issuer), ct (the ciphered taxon) and seq.  The low 96 bits, which       *)
(* decide its page, are the last 32 bits of the issuer's account id        *)
(* (IssuerTail), ct and seq.  Pages are a function from page keys (low 96  *)
(* bits) to records of tok, the tokens in order, and prev and next, the    *)
(* neighbours or NoPage.  The page with key k holds tokens below k.        *)
(***************************************************************************)
EXTENDS TrustLines

CONSTANTS dirMaxTokensPerPage,  \* tokens a page holds (32 in the code)
          IssuerTail,           \* the last 32 bits of each issuer's account id
          Span                  \* more than any taxon, sequence, fee or account

ASSUME PageConstants == dirMaxTokensPerPage \in Nat \ {0, 1} /\ Span \in Nat \ {0}

NoPage == 0

LastPageKey == Span * Span * Span

NoPages == [k \in {} |-> NoPage]

(* getNFTPageKey; uint256Next of an id has this key plus one.              *)
PageKey(id) == (IssuerTail[id.iss] * Span + id.ct) * Span + id.seq

(* The other bits of the id, as bytes compare.                             *)
Rest(id) ==
  LET bit == [Burnable |-> 1, OnlyXRP |-> 2, Transferable |-> 8, Mutable |-> 16]
      sum == FoldSet(LAMBDA f, n : n + bit[f], 0, id.flags)
  IN  (sum * Span + id.fee) * Span + id.iss

(* compareNFTokenID.                                                       *)
Before(s, t) ==
  \/ PageKey(s.id) < PageKey(t.id)
  \/ PageKey(s.id) = PageKey(t.id) /\ Rest(s.id) < Rest(t.id)

-----------------------------------------------------------------------------
(* succNFTokenPage.                                                        *)
SuccPage(pages, key) ==
  LET above == {k \in DOMAIN pages : k > key}
  IN  IF above = {} THEN LastPageKey ELSE CHOOSE k \in above : \A j \in above : k <= j

(* locatePage, locatePageForInsert.                                        *)
LocatePage(pages, id) == SuccPage(pages, PageKey(id))

(* findToken.                                                              *)
FindToken(pages, id) ==
  LET k == LocatePage(pages, id)
  IN  k \in DOMAIN pages /\ \E i \in DOMAIN pages[k].tok : pages[k].tok[i].id = id

TokenData(pages, id) ==
  LET toks == pages[LocatePage(pages, id)].tok
  IN  toks[CHOOSE i \in DOMAIN toks : toks[i].id = id]

-----------------------------------------------------------------------------
(* Where a full page is cut: how many tokens go to the new page.  Tokens   *)
(* with one page key stay together.                                        *)
SplitPoint(toks) ==
  LET half  == dirMaxTokensPerPage \div 2
      same(i) == PageKey(toks[i].id) = PageKey(toks[half].id)
      after == {i \in half + 1 .. Len(toks) : ~same(i)}
      first == {i \in DOMAIN toks : same(i)}
      cut   == IF after # {} THEN after ELSE first
  IN  (CHOOSE i \in cut : \A j \in cut : i <= j) - 1

(* A page of one key alone is left whole, before or after the new token.   *)
SplitFor(toks, id) ==
  LET n == SplitPoint(toks)
  IN  IF n = 0 /\ PageKey(id) > PageKey(toks[1].id) THEN Len(toks) ELSE n

NewPageKey(toks, n) ==
  IF n = dirMaxTokensPerPage THEN PageKey(toks[n].id) + 1 ELSE PageKey(toks[n + 1].id)

(* A mutant: the page before keeps pointing at the page that was split.    *)
SplitPageUnlinked(pages, at, n) ==
  LET old == pages[at]
      new == NewPageKey(old.tok, n)
  IN  [(new :> [tok |-> SubSeq(old.tok, 1, n), prev |-> old.prev, next |-> at]) @@ pages
         EXCEPT ![at] = [tok |-> SubSeq(old.tok, n + 1, Len(old.tok)), prev |-> new,
                         next |-> old.next]]

(* splitPage: the first n tokens move to a new page before this one.       *)
SplitPage(pages, at, n) ==
  LET old == pages[at]
      new == NewPageKey(old.tok, n)
      linked == IF old.prev = NoPage THEN pages ELSE [pages EXCEPT ![old.prev].next = new]
  IN  [(new :> [tok |-> SubSeq(old.tok, 1, n), prev |-> old.prev, next |-> at]) @@ linked
         EXCEPT ![at] = [tok |-> SubSeq(old.tok, n + 1, Len(old.tok)), prev |-> new,
                         next |-> old.next]]

(* insertNFTokenSorted into the page at.                                   *)
PutToken(pages, at, tok) ==
  [pages EXCEPT ![at].tok = SortSeq(Append(@, tok), Before)]

SplitInto(pages, at, tok, n, new) ==
  IF new \in DOMAIN pages
    THEN [ter |-> "tefINTERNAL", pages |-> pages, created |-> 0]
    ELSE [ter |-> "tesSUCCESS", created |-> 1,
          pages |-> PutToken(SplitPage(pages, at, n), IF PageKey(tok.id) < new THEN new ELSE at,
                             tok)]

InsertSplit(pages, at, tok, toks, n) ==
  IF SplitPoint(toks) = 0 /\ PageKey(tok.id) = PageKey(toks[1].id)
    THEN [ter |-> "tecNO_SUITABLE_NFTOKEN_PAGE", pages |-> pages, created |-> 0]
    ELSE SplitInto(pages, at, tok, n, NewPageKey(toks, n))

(* getPageForToken and insertNFToken.                                      *)
InsertInPage(pages, at, tok) ==
  IF at \notin DOMAIN pages
    THEN [ter |-> "tesSUCCESS", created |-> 1,
          pages |-> (LastPageKey :> [tok |-> <<tok>>, prev |-> NoPage, next |-> NoPage]) @@ pages]
  ELSE IF Len(pages[at].tok) < dirMaxTokensPerPage
    THEN [ter |-> "tesSUCCESS", created |-> 0, pages |-> PutToken(pages, at, tok)]
  ELSE InsertSplit(pages, at, tok, pages[at].tok, SplitFor(pages[at].tok, tok.id))

InsertNFToken(pages, tok) == InsertInPage(pages, LocatePage(pages, tok.id), tok)

-----------------------------------------------------------------------------
Has(pages, k) == k # NoPage /\ k \in DOMAIN pages

Mergeable(pages, j, k) ==
  /\ Has(pages, j) /\ Has(pages, k)
  /\ Len(pages[j].tok) + Len(pages[k].tok) <= dirMaxTokensPerPage

Without(pages, k) == [j \in DOMAIN pages \ {k} |-> pages[j]]

(* doMergePages: page j goes into page k, the one after it.                *)
MergePages(pages, j, k) ==
  LET p   == pages[j].prev
      all == [pages EXCEPT ![k].tok = SortSeq(pages[j].tok \o @, Before), ![k].prev = p]
  IN  Without(IF Has(pages, p) THEN [all EXCEPT ![p].next = k] ELSE all, j)

TryMerge(r, j, k) ==
  IF Mergeable(r.pages, j, k)
    THEN [pages |-> MergePages(r.pages, j, k), removed |-> r.removed + 1]
    ELSE r

(* The last page is emptied: the page before it moves into it.             *)
MoveIntoLast(pages, k) ==
  LET j == pages[k].prev
      p == pages[j].prev
      moved == [pages EXCEPT ![k].tok = pages[j].tok, ![k].prev = p]
  IN  Without(IF Has(pages, p) THEN [moved EXCEPT ![p].next = k] ELSE moved, j)

(* Any other emptied page is taken out of the chain.                       *)
UnlinkEmpty(pages, k) ==
  LET j == pages[k].prev
      l == pages[k].next
      left == IF Has(pages, j) THEN [pages EXCEPT ![j].next = IF Has(pages, l) THEN l ELSE NoPage]
                               ELSE pages
  IN  Without(IF Has(pages, l)
                THEN [left EXCEPT ![l].prev = IF Has(pages, j) THEN j ELSE NoPage]
                ELSE left, k)

(* removeToken, for a token that is there.                                 *)
RemovedFrom(pages, k, less) ==
  LET j == pages[k].prev
      l == pages[k].next
  IN  IF less[k].tok # <<>>
        THEN TryMerge(TryMerge([pages |-> less, removed |-> 0], j, k), k, l)
      ELSE IF Has(pages, j) /\ k = LastPageKey
        THEN [pages |-> MoveIntoLast(less, k), removed |-> 1]
      ELSE TryMerge([pages |-> UnlinkEmpty(less, k), removed |-> 1], j, l)

RemoveFromPage(pages, k, id) ==
  RemovedFrom(pages, k, [pages EXCEPT ![k].tok = SelectSeq(@, LAMBDA t : t.id # id)])

RemoveToken(pages, id) == RemoveFromPage(pages, LocatePage(pages, id), id)

-----------------------------------------------------------------------------
CONSTANTS transferFeeDivisor,             \* what a transfer fee is a fraction of
          maxDeletableTokenOfferEntries   \* offers a burn deletes at most

(* The first result that is not a success.                                 *)
FirstFailure(results) ==
  LET failed == SelectSeq(results, LAMBDA ter : ter # "tesSUCCESS")
  IN  IF failed = <<>> THEN "tesSUCCESS" ELSE Head(failed)

Unless(bad, ter) == IF bad THEN ter ELSE "tesSUCCESS"

(* A mutant: anybody may.                                                  *)
MayActAlways(v, issuer, id) == TRUE

MayActFor(v, issuer, id) ==
  issuer = id \/ (HasAccount(v, issuer) /\ v.acct[issuer].minter = id)

-----------------------------------------------------------------------------
(* Offers.                                                                 *)
TokenDir(v, d) == IF d \in DOMAIN v.tdir THEN v.tdir[d] ELSE NoDirectory

OfferDir(tok, sell) == <<IF sell THEN "Sells" ELSE "Buys", tok>>

SetTokenDir(v, d, dir) == [v EXCEPT !.tdir = (d :> dir) @@ @]

(* The offer is put into the sender's directory and the token's.  minter   *)
(* is a ghost, the issuer's minter of the day.                             *)
InsertOffer(c, key, tok, t) ==
  LET d  == OfferDir(tok, t.sell)
      in == DirInsert(TokenDir(c.v, d), key)
      e  == [owner |-> c.id, tok |-> tok, amount |-> t.amount, sell |-> t.sell,
             dst |-> t.dst, exp |-> t.exp, node |-> LinkPage(c.v, c.id, key),
             tnode |-> in.page, minter |-> c.v.acct[tok.iss].minter]
  IN  [c EXCEPT !.v = SetTokenDir(Write(Link(@, c.id, key), key, e), d, in.dir),
                !.a.own = @ + 1]

(* deleteTokenOffer; the owner count is the caller's.                      *)
DeleteTokenOffer(v, key) ==
  LET e == Read(v, key)
      d == OfferDir(e.tok, e.sell)
      w == Unlink(v, e.owner, e.node, key, FALSE)
  IN  Erase(SetTokenDir(w, d, DirRemove(TokenDir(w, d), e.tnode, key, FALSE).dir), key)

(* deleteNFTokenOffers: at most limit of them, in directory order, out of  *)
(* their owners' directories and the ledger.  The token's own directory    *)
(* keeps their keys.                                                       *)
DeleteOneForToken(c, key) ==
  LET e == Read(c.v, key)
  IN  IF Exists(c.v, key)
        THEN AddOwner([c EXCEPT !.v = Erase(Unlink(@, e.owner, e.node, key, FALSE), key)],
                      e.owner, -1)
        ELSE c

DeleteNFTokenOffers(c, tok, sell, limit) ==
  LET keys == DirForEach(TokenDir(c.v, OfferDir(tok, sell)))
      some == SubSeq(keys, 1, IF Len(keys) < limit THEN Len(keys) ELSE limit)
  IN  FoldLeft(DeleteOneForToken, c, some)

-----------------------------------------------------------------------------
(* checkNFTTrustlineAuthorized.                                            *)
TrustlineAuthorized(v, a, issuer) ==
  IF issuer \in {XRP, a} THEN "tesSUCCESS"
  ELSE IF ~HasAccount(v, issuer) THEN "tecNO_ISSUER"
  ELSE IF "RequireAuth" \notin v.acct[issuer].flags THEN "tesSUCCESS"
  ELSE IF ~HasLine(v, a, issuer) THEN "tecNO_LINE"
  ELSE Unless("Auth" \notin LineFlags(v, a, issuer, issuer), "tecNO_AUTH")

(* checkNFTTrustlineDeepFrozen.                                            *)
TrustlineDeepFrozen(v, a, issuer) ==
  IF issuer = XRP THEN "tesSUCCESS"
  ELSE IF ~HasAccount(v, issuer) THEN "tecNO_ISSUER"
  ELSE Unless(IsDeepFrozen(v, a, issuer), "tecFROZEN")

(* The issuer of a token with a transfer fee must be able to receive its   *)
(* share of a token amount.                                                *)
IssuerLineMissing(v, tok, asset) ==
  asset \notin {XRP, tok.iss} /\ tok.fee # 0 /\ ~HasLine(v, tok.iss, asset)

IssuerCannotReceive(v, tok, asset) ==
  IF asset = XRP \/ tok.fee = 0 THEN "tesSUCCESS"
  ELSE IF ~HasAccount(v, tok.iss) THEN "tecNO_ISSUER"
  ELSE IF IssuerLineMissing(v, tok, asset) THEN "tecNO_LINE"
  ELSE Unless(IsFrozen(v, tok.iss, asset), "tecFROZEN")

DestinationRefused(v, dst) ==
  IF dst = None THEN "tesSUCCESS"
  ELSE IF ~HasAccount(v, dst) THEN "tecNO_DST"
  ELSE Unless("DisallowIncomingNFTokenOffer" \in v.acct[dst].flags, "tecNO_PERMISSION")

-----------------------------------------------------------------------------
(* NFTokenMint.  t.issuer is None or another account, t.amount None or the *)
(* price of a sell offer made at once.                                     *)
MintOfferRefused(c, t, tok) ==
  IF t.amount = None THEN "tesSUCCESS"
  ELSE FirstFailure(
    <<Unless(t.amount.asset # XRP /\ ("OnlyXRP" \in t.flags \/ t.amount.n = 0), "temBAD_AMOUNT"),
      Unless(t.exp # 0 /\ t.exp <= c.v.time, "tecEXPIRED"),
      IssuerCannotReceive(c.v, tok, t.amount.asset),
      Unless(IsFrozen(c.v, c.id, t.amount.asset), "tecFROZEN"),
      TrustlineAuthorized(c.v, c.id, t.amount.asset),
      DestinationRefused(c.v, t.dst)>>)

(* The issuer's root with its next token counted.  Its own sequence was    *)
(* already advanced by this transaction.                                   *)
Minted(root, byIssuer) ==
  [root EXCEPT !.minted = @ + 1,
               !.first = IF @ # None THEN @ ELSE IF byIssuer THEN root.seq - 1 ELSE root.seq]

IssuerRoot(c, issuer) == IF issuer = None THEN c.a ELSE c.v.acct[issuer]

TokenOf(c, t, root) ==
  [iss |-> IF t.issuer = None THEN c.id ELSE t.issuer, ct |-> t.ct, flags |-> t.flags,
   fee |-> t.fee, seq |-> root.first + root.minted - 1]

(* tokenOfferCreateApply for the new token, then the reserve.              *)
MintOffer(c, t, tok, before, prior) ==
  LET key == <<"NFTokenOffer", c.id, t.proxy>>
      d   == IF t.amount = None THEN c ELSE InsertOffer(c, key, tok, t)
  IN  IF \/ t.amount # None /\ prior < AccountReserve(c.a.own + 1)
         \/ d.a.own > before /\ prior < AccountReserve(d.a.own)
        THEN Fail(c, "tecINSUFFICIENT_RESERVE")
        ELSE Ok(d)

MintedBy(c, t, root) ==
  IF t.issuer = None THEN [c EXCEPT !.a.minted = root.minted, !.a.first = root.first]
  ELSE [c EXCEPT !.v = UpdateAccountRoot(@, t.issuer, root)]

MintToken(c, t, root, tok, r) ==
  IF r.ter # "tesSUCCESS" THEN Fail(c, r.ter)
  ELSE MintOffer(MintedBy([c EXCEPT !.v.nft[c.id] = r.pages, !.a.own = @ + r.created], t, root),
                 t, tok, c.a.own, PriorBalance(c))

Mints(c, t, root, tok) ==
  LET ter == MintOfferRefused(c, t, tok)
  IN  IF ter # "tesSUCCESS" THEN Fail(c, ter)
      ELSE MintToken(c, t, root, tok,
                     InsertNFToken(c.v.nft[c.id], [id |-> tok, uri |-> t.uri]))

NFTokenMint(c, t) ==
  IF t.issuer # None /\ ~HasAccount(c.v, t.issuer) THEN Fail(c, "tecNO_ISSUER")
  ELSE IF t.issuer # None /\ c.v.acct[t.issuer].minter # c.id THEN Fail(c, "tecNO_PERMISSION")
  ELSE LET root == Minted(IssuerRoot(c, t.issuer), t.issuer = None)
       IN  Mints(c, t, root, TokenOf(c, t, root))

-----------------------------------------------------------------------------
(* NFTokenBurn.  t.owner is None when the sender owns the token.           *)
OwnerIn(c, t) == IF t.owner = None THEN c.id ELSE t.owner

BurnedBy(c, issuer) ==
  IF issuer = c.id THEN [c EXCEPT !.a.gone = @ + 1]
  ELSE IF HasAccount(c.v, issuer) THEN [c EXCEPT !.v.acct[issuer].gone = @ + 1]
  ELSE c

BurnOffers(c, tok, sells) ==
  DeleteNFTokenOffers(DeleteNFTokenOffers(c, tok, TRUE, maxDeletableTokenOfferEntries),
                      tok, FALSE, Less(maxDeletableTokenOfferEntries, sells))

Removed(c, owner, tok, r) ==
  BurnedBy(AddOwner([c EXCEPT !.v.nft[owner] = r.pages], owner, -r.removed), tok.iss)

Burn(c, owner, tok) ==
  BurnOffers(Removed(c, owner, tok, RemoveToken(c.v.nft[owner], tok)), tok,
             Len(DirForEach(TokenDir(c.v, OfferDir(tok, TRUE)))))

NFTokenBurn(c, t) ==
  IF ~FindToken(c.v.nft[OwnerIn(c, t)], t.tok) THEN Fail(c, "tecNO_ENTRY")
  ELSE IF OwnerIn(c, t) # c.id
            /\ ("Burnable" \notin t.tok.flags \/ ~MayActFor(c.v, t.tok.iss, c.id))
    THEN Fail(c, "tecNO_PERMISSION")
  ELSE Ok(Burn(c, OwnerIn(c, t), t.tok))

(* NFTokenModify.                                                          *)
NFTokenModify(c, t) ==
  LET owner == OwnerIn(c, t)
      page  == LocatePage(c.v.nft[owner], t.tok)
      set(e) == IF e.id = t.tok THEN [e EXCEPT !.uri = t.uri] ELSE e
  IN  IF ~FindToken(c.v.nft[owner], t.tok) THEN Fail(c, "tecNO_ENTRY")
      ELSE IF "Mutable" \notin t.tok.flags THEN Fail(c, "tecNO_PERMISSION")
      ELSE IF t.tok.iss # c.id /\ ~HasAccount(c.v, t.tok.iss) THEN Fail(c, "tecINTERNAL")
      ELSE IF ~MayActFor(c.v, t.tok.iss, c.id) THEN Fail(c, "tecNO_PERMISSION")
      ELSE Ok([c EXCEPT !.v.nft[owner][page].tok = [i \in DOMAIN @ |-> set(@[i])]])

-----------------------------------------------------------------------------
(* NFTokenCreateOffer.  t.owner is given exactly when t.sell is not.       *)
CreateOfferRefused(c, t) ==
  LET v == c.v
      asset == t.amount.asset
  IN  FirstFailure(
    <<Unless(\/ asset # XRP /\ ("OnlyXRP" \in t.tok.flags \/ t.amount.n = 0)
             \/ ~t.sell /\ t.amount.n = 0, "temBAD_AMOUNT"),
      Unless(t.exp # 0 /\ t.exp <= v.time, "tecEXPIRED"),
      Unless(~FindToken(v.nft[IF t.sell THEN c.id ELSE t.owner], t.tok), "tecNO_ENTRY"),
      IssuerCannotReceive(v, t.tok, asset),
      Unless("Transferable" \notin t.tok.flags /\ ~MayActFor(v, t.tok.iss, c.id),
             "tefNFTOKEN_IS_NOT_TRANSFERABLE"),
      Unless(IsFrozen(v, c.id, asset), "tecFROZEN"),
      Unless(~t.sell /\ asset # XRP /\ AccountFunds(v, c.id, asset) <= 0, "tecUNFUNDED_OFFER"),
      DestinationRefused(v, t.dst),
      IF t.sell THEN "tesSUCCESS"
      ELSE IF ~HasAccount(v, t.owner) THEN "tecNO_TARGET"
      ELSE DestinationRefused(v, t.owner),
      TrustlineAuthorized(v, c.id, asset)>>)

NFTokenCreateOffer(c, t) ==
  LET ter == CreateOfferRefused(c, t)
      d   == InsertOffer(c, <<"NFTokenOffer", c.id, t.proxy>>, t.tok, t)
  IN  IF ter # "tesSUCCESS" THEN Fail(c, ter)
      ELSE IF PriorBalance(c) < AccountReserve(d.a.own) THEN Fail(c, "tecINSUFFICIENT_RESERVE")
      ELSE Ok(d)

(* NFTokenCancelOffer: the owner or the destination may, and anyone once   *)
(* it has expired; offers that are gone are passed over.                   *)
MayCancel(c, key) ==
  Exists(c.v, key) => \/ Read(c.v, key).exp # 0 /\ Read(c.v, key).exp <= c.v.time
                      \/ c.id \in {Read(c.v, key).owner, Read(c.v, key).dst}

CancelOne(c, key) ==
  IF Exists(c.v, key)
    THEN [AddOwner(c, Read(c.v, key).owner, -1) EXCEPT !.v = DeleteTokenOffer(@, key)]
    ELSE c

NFTokenCancelOffer(c, t) ==
  IF \E key \in t.offers : ~MayCancel(c, key) THEN Fail(c, "tecNO_PERMISSION")
  ELSE Ok(FoldSet(LAMBDA key, d : CancelOne(d, key), c, t.offers))

-----------------------------------------------------------------------------
(* Token payments.  createTrustLineWithBalance: only the receiver gets the *)
(* Reserve flag and pays for the line, in the view.                        *)
CreateLineFor(v, from, to, n) ==
  LET flags == {"Reserve"} \cup (IF DefaultRipple(v, to) THEN {} ELSE {"NoRipple"})
  IN  AdjustOwnerCount(TrustCreate(v, to, from, n, NewSide(0, FALSE, flags, 0)), to, 1)

(* rippleCreditIOU: one of the two is the issuer.                          *)
RippleCreditIOU(v, from, to, n) ==
  IF n = 0 THEN v
  ELSE IF HasLine(v, from, to)
    THEN [v EXCEPT !.obj[LineKey(from, to)].bal = IF from = Low(from, to) THEN @ - n ELSE @ + n]
  ELSE CreateLineFor(v, from, to, n)

(* accountSendIOU: the sender pays the issuer's transfer rate on top.      *)
AccountSendIOU(v, from, to, issuer, n) ==
  IF n = 0 \/ from = to THEN v
  ELSE IF issuer \in {from, to} THEN RippleCreditIOU(v, from, to, n)
  ELSE RippleCreditIOU(RippleCreditIOU(v, issuer, to, n), from, issuer,
                       MulRatioUp(n, TransferRate(v, issuer), qualityOne))

Overdrawn(v, a, issuer) == a # issuer /\ Held(v, a, issuer) < 0

(* A mutant: nobody looks at the balances afterwards.                      *)
PayIOUUnchecked(r, from, to, issuer, n) ==
  IF r.ter # "tesSUCCESS" \/ n = 0 THEN r
  ELSE Ok([r.c EXCEPT !.v = AccountSendIOU(@, from, to, issuer, n)])

(* payIOU, after which neither party may be below zero.                    *)
Settled(r, w, parties, issuer) ==
  IF \E a \in parties : Overdrawn(w, a, issuer) THEN Fail(r.c, "tecINSUFFICIENT_FUNDS")
  ELSE Ok([r.c EXCEPT !.v = w])

PayIOU(r, from, to, issuer, n) ==
  IF r.ter # "tesSUCCESS" \/ n = 0 THEN r
  ELSE Settled(r, AccountSendIOU(r.c.v, from, to, issuer, n), {from, to}, issuer)

(* syncCtxOwnerCount: lines made for the sender were counted in the view.  *)
SyncCtxOwnerCount(r) == [r EXCEPT !.c.a.own = r.c.v.acct[r.c.id].own]

(* nftTransferFeeXRP: rounded half to even.                                *)
NFTTransferFeeXRP(n, fee) ==
  LET q == (n * fee) \div transferFeeDivisor
      r == (n * fee) % transferFeeDivisor
      half == transferFeeDivisor \div 2
  IN  IF r > half \/ (r = half /\ q % 2 # 0) THEN q + 1 ELSE q

(* No share for an issuer that is a party to the sale.                     *)
SharesFee(tok, seller, buyer) == tok.fee # 0 /\ tok.iss \notin {seller, buyer}

(* The number of a broker's fee, an amount or None.                        *)
FeeOf(fee) == IF fee = None THEN 0 ELSE fee.n

(* What the sender gains is written to ctx.Account, what the buyer and the *)
(* seller pay and gain to the view unless they are the sender; the         *)
(* issuer's share always goes to the view's copy.                          *)
PayXRP(c, buyer, seller, tok, amount, brokerFee) ==
  LET cut == IF SharesFee(tok, seller, buyer)
               THEN NFTTransferFeeXRP(amount - brokerFee, tok.fee) ELSE 0
      d   == Credit(Debit(c, buyer, amount), c.id, brokerFee)
      e   == IF cut > 0 /\ HasAccount(d.v, tok.iss)
               THEN [d EXCEPT !.v.acct[tok.iss].bal = @ + cut] ELSE d
  IN  Ok(Credit(e, seller, amount - brokerFee - cut))

PaySale(r, buyer, seller, tok, issuer, n) ==
  LET cut == IF SharesFee(tok, seller, buyer)
               THEN MulRatioUp(n, tok.fee, transferFeeDivisor) ELSE 0
  IN  IF r.ter = "tesSUCCESS" /\ cut > 0 /\ IssuerLineMissing(r.c.v, tok, issuer)
        THEN Fail(r.c, "tecNO_LINE")
      ELSE PayIOU(PayIOU(r, buyer, tok.iss, issuer, cut), buyer, seller, issuer, n - cut)

Synced(r) == IF r.ter = "tesSUCCESS" THEN SyncCtxOwnerCount(r) ELSE r

(* The broker is paid first, in the token its fee names, which need not be *)
(* the one of the sale; the number is taken off the price all the same.    *)
PayTokens(c, buyer, seller, tok, amount, fee) ==
  LET paid == IF fee = None THEN Ok(c) ELSE PayIOU(Ok(c), buyer, c.id, fee.asset, fee.n)
  IN  Synced(PaySale(paid, buyer, seller, tok, amount.asset, amount.n - FeeOf(fee)))

(* transferNFToken, the page counts and the buyer's reserve.               *)
Root(c, id) == IF id = c.id THEN c.a ELSE c.v.acct[id]

Received(c, buyer, created) ==
  IF created > 0 /\ Root(c, buyer).bal < AccountReserve(Root(c, buyer).own)
    THEN Fail(c, "tecINSUFFICIENT_RESERVE")
    ELSE Ok(c)

Moved(c, seller, buyer, out, in) ==
  IF in.ter # "tesSUCCESS" THEN Fail(c, in.ter)
  ELSE Received(AddOwner(AddOwner([c EXCEPT !.v.nft[seller] = out.pages,
                                            !.v.nft[buyer] = in.pages],
                                  seller, -out.removed), buyer, in.created),
                buyer, in.created)

TransferNFToken(r, seller, buyer, tok) ==
  IF r.ter # "tesSUCCESS" THEN r
  ELSE Moved(r.c, seller, buyer, RemoveToken(r.c.v.nft[seller], tok),
             InsertNFToken(r.c.v.nft[buyer], TokenData(r.c.v.nft[seller], tok)))

XRPAvailable(root) == Less(root.bal, AccountReserve(root.own))

(* The offers go first, then the money, then the token: the common course  *)
(* of executeBrokeredMode and of accepting one offer directly.             *)
Pay(c, buyer, seller, tok, amount, fee) ==
  IF amount.asset = XRP THEN PayXRP(c, buyer, seller, tok, amount.n, FeeOf(fee))
  ELSE PayTokens(c, buyer, seller, tok, amount, fee)

TakeOffer(c, key) ==
  [c EXCEPT !.v = AdjustOwnerCount(DeleteTokenOffer(@, key), Read(@, key).owner, -1)]

Sell(c, s) ==
  IF s.amount.asset = XRP /\ XRPAvailable(Root(c, s.buyer)) < s.amount.n
    THEN Fail(c, "tecINSUFFICIENT_FUNDS")
  ELSE TransferNFToken(Pay(FoldSet(LAMBDA k, d : TakeOffer(d, k), c, s.offers),
                           s.buyer, s.seller, s.tok, s.amount, s.fee),
                       s.seller, s.buyer, s.tok)

-----------------------------------------------------------------------------
(* NFTokenAcceptOffer.  t.buy and t.sell are keys or None, t.fee None or   *)
(* the broker's fee.                                                       *)
OfferUnusable(v, key) ==
  IF key = None THEN "tesSUCCESS"
  ELSE IF ~Exists(v, key) THEN "tecOBJECT_NOT_FOUND"
  ELSE Unless(Read(v, key).exp # 0 /\ Read(v, key).exp <= v.time, "tecEXPIRED")

BrokerFeeRefused(c, t, buy, sell) ==
  IF t.fee = None THEN "tesSUCCESS"
  ELSE FirstFailure(
    <<Unless((t.fee.asset = XRP) # (buy.amount.asset = XRP), "tecNFTOKEN_BUY_SELL_MISMATCH"),
      Unless(t.fee.n >= buy.amount.n \/ sell.amount.n > buy.amount.n - t.fee.n,
             "tecINSUFFICIENT_PAYMENT"),
      TrustlineAuthorized(c.v, c.id, t.fee.asset),
      TrustlineDeepFrozen(c.v, c.id, t.fee.asset)>>)

BrokeredRefused(c, t, buy, sell) ==
  FirstFailure(
    <<Unless(buy.tok # sell.tok \/ buy.amount.asset # sell.amount.asset,
             "tecNFTOKEN_BUY_SELL_MISMATCH"),
      Unless(buy.owner = sell.owner, "tecCANT_ACCEPT_OWN_NFTOKEN_OFFER"),
      Unless(sell.amount.n > buy.amount.n, "tecINSUFFICIENT_PAYMENT"),
      Unless(buy.dst \notin {None, c.id} \/ sell.dst \notin {None, c.id}, "tecNO_PERMISSION"),
      BrokerFeeRefused(c, t, buy, sell)>>)

BuyRefused(c, buy, direct) ==
  LET asset == buy.amount.asset
  IN  FirstFailure(
    <<Unless(buy.sell, "tecNFTOKEN_OFFER_TYPE_MISMATCH"),
      Unless(buy.owner = c.id, "tecCANT_ACCEPT_OWN_NFTOKEN_OFFER"),
      Unless(direct /\ ~FindToken(c.v.nft[c.id], buy.tok), "tecNO_PERMISSION"),
      Unless(direct /\ buy.dst \notin {None, c.id}, "tecNO_PERMISSION"),
      Unless(asset # XRP /\ AccountFunds(c.v, buy.owner, asset) < buy.amount.n,
             "tecINSUFFICIENT_FUNDS"),
      TrustlineAuthorized(c.v, buy.owner, asset),
      IF direct THEN TrustlineAuthorized(c.v, c.id, asset) ELSE "tesSUCCESS",
      IF direct THEN TrustlineDeepFrozen(c.v, c.id, asset) ELSE "tesSUCCESS">>)

SellRefused(c, sell, direct) ==
  LET asset == sell.amount.asset
  IN  FirstFailure(
    <<Unless(~sell.sell, "tecNFTOKEN_OFFER_TYPE_MISMATCH"),
      Unless(sell.owner = c.id, "tecCANT_ACCEPT_OWN_NFTOKEN_OFFER"),
      Unless(~FindToken(c.v.nft[sell.owner], sell.tok), "tecNO_PERMISSION"),
      Unless(direct /\ sell.dst \notin {None, c.id}, "tecNO_PERMISSION"),
      Unless(direct /\ asset # XRP /\ AccountFunds(c.v, c.id, asset) < sell.amount.n,
             "tecINSUFFICIENT_FUNDS"),
      TrustlineAuthorized(c.v, sell.owner, asset),
      IF direct THEN TrustlineAuthorized(c.v, c.id, asset) ELSE "tesSUCCESS",
      TrustlineDeepFrozen(c.v, sell.owner, asset)>>)

(* The issuer of a token with a fee must be able to hold its share.        *)
FeeRefused(v, tok, asset) ==
  IF tok.fee = 0 \/ asset = XRP THEN "tesSUCCESS"
  ELSE FirstFailure(<<Unless(IssuerLineMissing(v, tok, asset), "tecNO_LINE"),
                      TrustlineAuthorized(v, tok.iss, asset),
                      TrustlineDeepFrozen(v, tok.iss, asset)>>)

(* What is sold to whom, or why not.                                       *)
Sale(offers, buyer, seller, o, fee, ter) ==
  [offers |-> offers, buyer |-> buyer, seller |-> seller, tok |-> o.tok, amount |-> o.amount,
   fee |-> fee, ter |-> ter]

Brokered(c, t, buy, sell) ==
  Sale({t.buy, t.sell}, buy.owner, sell.owner, buy, t.fee,
       FirstFailure(<<BrokeredRefused(c, t, buy, sell), BuyRefused(c, buy, FALSE),
                      SellRefused(c, sell, FALSE)>>))

SaleOf(c, t) ==
  IF t.sell = None
    THEN LET buy == Read(c.v, t.buy)
         IN  Sale({t.buy}, buy.owner, c.id, buy, None, BuyRefused(c, buy, TRUE))
  ELSE IF t.buy = None
    THEN LET sell == Read(c.v, t.sell)
         IN  Sale({t.sell}, c.id, sell.owner, sell, None, SellRefused(c, sell, TRUE))
  ELSE Brokered(c, t, Read(c.v, t.buy), Read(c.v, t.sell))

Accept(c, s) ==
  LET ter == FirstFailure(<<s.ter, FeeRefused(c.v, s.tok, s.amount.asset)>>)
  IN  IF ter # "tesSUCCESS" THEN Fail(c, ter) ELSE Sell(c, s)

NFTokenAcceptOffer(c, t) ==
  LET ter == FirstFailure(<<OfferUnusable(c.v, t.buy), OfferUnusable(c.v, t.sell)>>)
  IN  IF ter # "tesSUCCESS" THEN Fail(c, ter) ELSE Accept(c, SaleOf(c, t))

=============================================================================
