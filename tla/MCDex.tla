------------------------------- MODULE MCDex -------------------------------
(***************************************************************************)
(* A bounded instance of the decentralised exchange: an automated market   *)
(* maker, the order books with the payments and offers that use them, and  *)
(* the sandbox they work in; part says which a behaviour is about.         *)
(***************************************************************************)
EXTENDS AMM, Offers, PaymentSandbox, TLC

CONSTANTS Parts,
          Budget,             \* transactions per behaviour
          Stake,              \* of each holder in an AMM that is there from the start
          Trades,             \* transactions on the order books per behaviour
          Quotes,             \* the two amounts of an offer
          CrowdedBooks        \* the books may be filled from the start

VARIABLES part, spent

(* A ledger without an AMM, or with one that one holder, every holder, or  *)
(* one of them thrice, has put equal amounts into.                         *)
Holders == Parties \ {Issuer}
Founder == CHOOSE a \in Holders : TRUE
Founded(L, H) ==
  FoldSet(LAMBDA a, K : IssueLP(Into(K, a, <<Stake, Stake>>, TRUE), a, Stake),
          [L EXCEPT !.amm = initializeFeeAuctionVote(Founder, 0, 0)], H)
Majority(L) ==      \* one holder has all but a quarter
  FoldLeft(LAMBDA K, a : IssueLP(Into(K, a, <<Stake, Stake>>, TRUE), a, Stake),
           Founded(L, Holders), <<Founder, Founder>>)
NoPools == native = FALSE /\ frozen = FALSE /\ clock = 0 /\ pools = Fresh
MCPrices == {<<3, 1>>, <<2, 3>>}

(* Accounts 1 and 3 trade XRP and the two tokens of gateway 2, which takes *)
(* a quarter on transfers.                                                 *)
USD == <<"USD", 2>>
EUR == <<"EUR", 2>>
Issues == {XRP, USD, EUR}
MCRate == [a \in {0, 1, 2, 3} |-> IF a = 2 THEN <<5, 4>> ELSE <<1, 1>>]
Books == {b \in Issues \X Issues : b[1] # b[2]}
LineOf2(holder, bal, limit) ==
  [bal |-> Seen(holder, 2, bal), lim |-> [x \in {holder, 2} |-> IF x = holder THEN limit ELSE 0],
   qin |-> [x \in {holder, 2} |-> One], qout |-> [x \in {holder, 2} |-> One],
   rsv |-> {holder}, nor |-> IF limit = 0 THEN {holder} ELSE {}, frz |-> {}, deep |-> {}, auth |-> {}]
Quiet ==
  [xrp |-> <<12, 12, 6>>, cnt |-> <<2, 0, 1>>,
   lines |-> (<<1, 2, "USD">> :> LineOf2(1, 6, 9)) @@ (<<1, 2, "EUR">> :> LineOf2(1, 6, 9))
             @@ (<<2, 3, "USD">> :> LineOf2(3, 6, 9)),
   offers |-> Empty, books |-> [b \in Books |-> <<>>], glob |-> {}, now |-> 1]

(* Account 3 sells all the USD it holds, on a line it set no limit on, for *)
(* XRP, and EUR for USD; the gateway makes offers in the same books.       *)
Quoted(b, q) ==
  [in |-> b[1], out |-> b[2], pays |-> q[1], gets |-> q[2], rate |-> q, exp |-> 0]
Crowded ==
  [Quiet EXCEPT
     !.lines = (<<1, 2, "EUR">> :> LineOf2(1, 6, 30)) @@ (<<2, 3, "EUR">> :> LineOf2(3, 6, 9))
               @@ (<<2, 3, "USD">> :> LineOf2(3, 5, 0)),
     !.offers = (<<3, 1>> :> Quoted(<<XRP, USD>>, <<4, 5>>))
                @@ (<<3, 2>> :> Quoted(<<USD, EUR>>, <<4, 4>>))
                @@ (<<2, 1>> :> Quoted(<<XRP, USD>>, <<5, 5>>))
                @@ (<<2, 2>> :> Quoted(<<USD, EUR>>, <<4, 5>>)),
     !.books[<<XRP, USD>>] = <<<<3, 1>>, <<2, 1>>>>, !.books[<<USD, EUR>>] = <<<<2, 2>>, <<3, 2>>>>,
     !.cnt = <<1, 2, 4>>]

MCQuotes == {<<2, 4>>, <<3, 8>>}

(* The units of tokens are not larger than the unit of XRP: tokens have    *)
(* sixteen digits, and rounding to whole drops is the coarser.             *)
Quote(b, q) ==
  [in |-> b[1], out |-> b[2], exp |-> 0,
   pays |-> IF b[2] = XRP THEN q[2] ELSE q[1], gets |-> IF b[2] = XRP THEN q[1] ELSE q[2]]
MCCreates == {Quote(b, q) : b \in Books, q \in Quotes}
Expiring == [in |-> USD, out |-> EUR, pays |-> 2, gets |-> 4, exp |-> 2]
MCPayments ==
  [src : {1}, dst : {2, 3}, deliver : Issues, amount : {3, 9}, sendIssue : Issues, sendMax : {1, 4},
   paths : {<<>>, <<<<OfferNode(XRP)>>>>}, direct : {TRUE}, partial : BOOLEAN, limitQ : {FALSE}, min : {None}]
  \union
  [src : {1}, dst : {3}, deliver : {USD}, amount : {3}, sendIssue : {EUR}, sendMax : {4},
   paths : {<<<<OfferNode(XRP)>>>>}, direct : BOOLEAN, partial : {TRUE}, limitQ : BOOLEAN, min : {2}]
  \union
  [src : {1}, dst : {1}, deliver : {EUR}, amount : {8}, sendIssue : {XRP}, sendMax : {10},
   paths : {<<<<OfferNode(USD)>>>>}, direct : {TRUE}, partial : BOOLEAN, limitQ : {FALSE}, min : {None}]

(* Any offers are placed first; the last transactions may be anything. *)
Trade ==
  \/ \E a \in {1, 3}, o \in Creates : OfferCreate(a, o, {}, 0)
  \/ spent = 0 /\ OfferCreate(1, Expiring, {}, 0)
  \/ spent = 1 /\ Tick
  \/ spent = 1 /\ \E k \in {<<1, 2, "EUR">>, <<2, 3, "USD">>} : Freeze(k, 2)
  \/ spent = Trades - 1 /\ \E o \in Creates, f \in CreateFlags : OfferCreate(1, o, f, 0)
  \/ spent = Trades - 1 /\ \E a \in {1, 3}, o \in Creates : seqs[a] > 1 /\ OfferCreate(a, o, {}, 1)
  \/ spent = Trades - 1 /\ \E k \in {<<1, 1>>, <<3, 2>>} : k[2] < seqs[k[1]] /\ OfferCancel(k)
  \/ spent = Trades - 1 /\ \E p \in Payments : Payment(p)

NoTrade == dex = Quiet /\ seqs = [a \in Accounts |-> 1] /\ done = NoTx
NoSandbox == view = [k \in SandboxKeys |-> Gone] /\ boxes = <<Blank>> /\ plain = <<view>> /\ gone = {}

MCInit ==
  /\ part \in Parts
  /\ \/ /\ part = "amm"
        /\ native \in BOOLEAN /\ frozen = FALSE /\ clock = 0
        /\ \E L \in {Fresh} : pools \in {L, Founded(L, {Founder}), Founded(L, Holders), Majority(L)}
        /\ NoTrade /\ NoSandbox
     \/ /\ part = "trade"
        /\ dex \in (IF CrowdedBooks THEN {Crowded} ELSE {Quiet})
        /\ seqs = [a \in Accounts |-> IF CrowdedBooks THEN 3 ELSE 1] /\ done = NoTx
        /\ NoPools /\ NoSandbox
     \/ part = "sandbox" /\ SandboxInit /\ NoPools /\ NoTrade
  /\ spent = IF HasAMM(pools) THEN 1 ELSE 0

MCNext ==
  /\ UNCHANGED part
  /\ \/ part = "amm" /\ spent < Budget /\ AMMNext /\ spent' = spent + 1
        /\ UNCHANGED <<dexVars, sandboxVars>>
     \/ part = "trade" /\ spent < Trades /\ Trade /\ spent' = spent + 1
        /\ UNCHANGED <<ammVars, sandboxVars>>
     \/ part = "sandbox" /\ SandboxNext /\ UNCHANGED <<spent, ammVars, dexVars>>

MCSpec == MCInit /\ [][MCNext]_<<part, spent, ammVars, dexVars, sandboxVars>>
=============================================================================
