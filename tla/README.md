# A TLA+ verification of goXRPLd

goXRPLd is an XRP Ledger node written in Go. This directory holds TLA+ models of
the parts of it that change state: how validations become a validated ledger,
how the node runs consensus, fetches ledgers and keeps its peers, how
transactions change the ledger, how payments and offers trade, and how all of it
is stored. TLC checks the models on small instances. The properties of the
consensus core, of the tables and sandboxes transactions write through, and of
the node store are also proved with TLAPS, for instances of every size.

`PROJECT.json` maps every definition to the source lines it stands for, lists
the runs, the theorems, and the hazards of the code with the properties that
cover them. Paths below are under `src/internal/` unless they start with `src/`.

## The system and its models

| Part | Source | Modules |
|---|---|---|
| Validation tracker | `consensus/rcl/validations*.go` | `ValidationTracker`, `ValidationAgreement`, `ValidationAgreementProofs` |
| Consensus engine | `consensus/rcl/engine.go` | `ConsensusEngine`, `ConsensusEngineProofs`, `EngineLocks` |
| Ledger service | `ledger/service/` | `LedgerService`, `LedgerServiceProofs` |
| Router and catch-up | `consensus/adaptor/router.go`, `ledger/inbound/` | `Acquisition` |
| Peer overlay | `peermanagement/` | `Overlay` |
| Transaction queue | `txq/` | `TxQ`, `TxQProofs` |
| Transaction engine | `tx/engine.go`, `ledger/state/directory.go` | `TxLedger`, `Transactor`, `TransactionHistory` |
| The table of a transaction | `tx/apply_state_table.go`, `tx/threading.go` | `LedgerView`, `ApplyStateTable`, `ApplyStateTableProofs` |
| Accounts, keys, tickets, checks, channels, escrows, credentials, delegates, DIDs, oracles, domains, MPTs | `tx/account`, `tx/check`, `tx/escrow`, ... | `TxObjects`, `TxHoldings`, `TxMPT` |
| Trust lines, NFTokens, token escrows | `tx/trustset`, `tx/nftoken`, `tx/escrow` | `TrustLines`, `NFTokens`, `TokenEscrow`, `NFTokenMarket` |
| Payments, order books | `tx/payment/`, `tx/offer/` | `PaymentSandbox`, `PaymentSandboxProofs`, `PaymentSteps`, `PaymentFlow`, `Offers` |
| Automated market maker | `tx/amm/` | `AMM` |
| Ledger entries, metadata | `ledger/state/`, `tx/field_metadata.go` | `LedgerEntries` |
| SHAMap | `src/shamap/` | `SHAMap`, `LedgerMaps` |
| Node store | `src/storage/nodestore/` | `NodeStore`, `NodeStoreProofs` |

`Loops` is a counted loop as a function, with the two facts every proof about a
`for` loop of the code rests on. The `MC...` modules are the instances;
`TransactorScopes` has the scopes of `TransactionHistory`.

How the parts meet. A proposal reaches `Engine.OnProposal` through the router;
the heartbeat calls `Engine.timerEntry`; an accepted set goes through
`adaptor.BuildLedger` to `Service.AcceptConsensusResult`, which applies the
transactions through the engine and its table, and the node signs a validation
of the result. Validations go to `ValidationTracker.Add`; the one that completes
a quorum runs the callback `Engine.Start` installs, which calls
`Service.SetValidatedLedger` and expires old validations. Ledgers the node did
not build are fetched by the router (`Acquisition`) and adopted by the service:
`Acquisition` extends `LedgerService`, so that its adoptions are the service's.
`ValidationAgreement` extends the tracker with the configuration of a running
node. `Offers` extends `PaymentFlow` and `PaymentSteps`; `NFTokenMarket` and
`TransactionHistory` extend the transactors and the engine.

### Consensus

**ValidationTracker.** `validations`, `byNode`, `fired`, `trusted`, `negUNL`,
`quorum`, `minSeq`, `trieTips` are the fields of the struct. Every mutator runs
under `vt.mu` and is one action. The fully-validated callback runs after the lock
is released: `Add` puts the ledger in `dispatch` and the action `Dispatch` runs
the callback, so other mutators may come between. Times are offsets in minutes
from the tracker's clock. The trie is reduced to the tips it is built from;
whether the ancestry of a ledger can be resolved is chosen at each call.
`everFired`, `firedBy`, `calls`, `archived` and `floor` are history variables.
`Spec` has what the running engine does, `SpecAPI` adds `Clear`, which only tests
call.

**ValidationAgreement** restricts the tracker to one UNL and the quorums
`computeQuorum` derives from it and the negative UNLs. It assumes that a negative
UNL disables at most a quarter of the UNL. That is the rule of the XRP Ledger
protocol; the node takes the negative UNL from the validated ledger and does not
check it. Quorum and negative UNL move independently, as they are set by two
calls.

**ConsensusEngine.** The record `e` is the `Engine` struct; every handler holds
`e.mu` and is one action, the heartbeat one action per phase it finds after
`checkLedger`. The node is a validator in operating mode Full, the peers are its
trusted validators. Choices of the environment: the clocks, the outcome of the
dispute re-vote (`mine`), whether the close-time vote moves the position
(`bump`), whether a ledger has more trusted support than ours, which peers'
proposals are stale. Signing does not fail. The service is reduced to its history
and its closed and open ledgers; `Base` is the ledger it really builds on. A build
may fail before or after it closes the open ledger (`shut`); a closed one cannot be
closed again, so that `CloseRefused` holds until a ledger is adopted, another
sequence is built on, or the set has transactions.

**EngineLocks** has the goroutines that take `Engine.mu` and the read-write lock
as Go implements it: a waiting writer keeps new readers out.

**LedgerService.** The record `svc` is the `Service` struct. Every operation
holds `s.mu` throughout and is one action; the functions ending in `Locked` are
operators on the record. A ledger is the sequence of its blocks, since its hash
commits to its chain. A block keeps the transactions of its transaction map and
those whose effects are in its state map apart, because the code can make them
differ. A failing `Close` or save is `AcceptConsensusResultFails`.
`HeldCascadeMax` is `heldAdoptionCascadeMax` (256 in the code, 2 in the run).
`AdoptLedgerWithState`, which only tests call directly, is in `SpecAPI`.

**Acquisition** is the router's side of catching up: status changes, the choice
between header, replay delta and full state, answers that come late, twice or
from another peer, the maintenance tick with its timeouts and retries, the caps,
and the adoption at the end. `Apply` of a replay compares the state it computes
with the header's. `hollow` has the ledgers adopted by their header alone, as the
end of the initial sync may do (`router.go:1168`). Peers are honest and a ledger's
contents are a small `SHAMap`. The effect of `engine.OnLedger` is left out.

**Overlay** has connecting (with the look at the peer table before and after
dialling), removal and shutdown, the bounded event and message queues, and a
relay slot for one validator with counting, selection, squelching, idling and
un-squelching (`MaxSelectedPeers` is 1 in the run, 5 in the code). A peer
identifier is used once. Sends of squelches do not fail.

**TxQ** is `Apply`, `TryClearAccountQueueUpThruTx`, `ProcessClosedLedger` and
`Accept` with the fee metrics. The open ledger, reached through contexts, is
external. The tie-break by `txID XOR parentHash` is one of two orders.
A transaction that replaces the only queued one of its account is *detached*: it
is in `byFee` and in no account queue. `Accept` skips it (`accept.go:42`,
"Shouldn't happen, but handle it"), and it stays until `byFee` is rebuilt for a
ledger with another parent hash. Two calls on a queue with detached candidates are
left out: the eviction of one, which dereferences its missing account queue, and
a second submission of the very transaction that is detached. Saturation of
`mulDiv`, `Clear`, `SetMaxSize` and the queries are left out.

### Transactions

**TxLedger, Transactor, TransactionHistory.** `TxLedger` has directories and the
view, `Transactor` the engine around a transactor (preflight, preclaim, fee,
sequence or ticket, authorisation, and what is kept when it fails), `TxObjects`,
`TxHoldings` and `TxMPT` the transactors. A history is a sequence of transactions
on one ledger; a *scope* says which types and senders it is about. Amendments are
taken to be enabled; one credential type, at most one credential per transaction,
signer weights of 1; a directory page holds one key (`dirNodeMaxEntries`, 32 in the
code), so that every second entry of an account opens a page; the fee is
`BaseFee` (`ReserveIncrement` for AccountDelete). `AccountTxnID`, `LastLedgerSequence` and the duplicate check by hash are left out:
`NoReplay` holds by sequences and tickets alone.

**ApplyStateTable** is the table between a transactor and the ledger, with
threading and the metadata it decides on; `LedgerView` is what it promises: writes
seen at once by the transactor, by the ledger all together or not at all. Erasing
is of existing entries only, as all callers do; nested tables are its composition.

**LedgerEntries.** The bytes of an entry are its fields in the order of their
codes. A parser knows some type codes and stops at the first it does not know; a
serializer drops what the struct does not have. One definition per parser and
serializer of nineteen entry types, and the metadata built from the bytes. `asked`
is what the transactors set, whether or not a serializer writes it. A field's value
is the default, another one, a blob of more than 192 bytes, or what a parser that
takes the length of such a blob for one byte makes of it.

**TrustLines, NFTokens, TokenEscrow, NFTokenMarket.** Pages of NFTokens with their
splits and merges, mint, burn, modify, offers, direct and brokered sales for XRP
and trust-line tokens, with a broker's fee in the token it names, the minter an
issuer appoints and dismisses, and escrows of trust-line and MPT amounts. Left out: the
precision check `canAddIOUAmounts`, pseudo-accounts, tickets, quality settings of
lines, behaviour before amendments. Fees and rates are in quarters, a page holds
two tokens.

**PaymentSandbox, PaymentSteps, PaymentFlow, Offers.** `PaymentSandbox` is the
chain of sandboxes with its insertions, modifications and deletions, and the uses
the payment engine makes of it; `PaymentSteps` the direct, XRP and book steps,
`PaymentFlow` strands and the flow loop, `Offers` OfferCreate, OfferCancel and
Payment over them. Left out: AMM liquidity inside a book step, domains and hybrid
offers, tick size, `limitOut`, path elements with only a currency or an issuer,
account elements after an XRP conversion, destination tags and deposit
authorisation of token payments, consume errors, behaviour before amendments.

**AMM**: create, deposit, withdraw, vote, bid, clawback, delete and swaps, in all
their modes, with whole-token arithmetic that rounds as the code does, and with
`verifyAndAdjustLPTokenBalance`, by which a withdrawal or a clawback of an LP that
holds nearly all tokens makes `LPTokenBalance` what that LP holds; nearly is a
thousandth in the code, a third here (`Tolerance`). `whole` remembers whether this
has left out another LP. An `LPTokenBalance` below zero, to which that can lead,
ends deposits and withdrawals in the model. The loss of digits beyond the
sixteenth, for which the adjustment is there, authorisation and the no-ripple rules
of lines, and the swap's competition with order books are left out.

### Storage

**SHAMap, LedgerMaps.** Trees of small branching factor and depth, hashes as
structures; put, delete, snapshots (two goroutines may be inside `Snapshot`),
flush, release and load over a store, iteration, bounds, comparison, proofs.
Synchronisation of missing nodes and the wire format are left out.

**NodeStore.** Threads inside `Fetch` and `Store`, each step under the lock the
code holds; the LRU cache, the negative cache, the rotating backends and their
retention. `stored`, `excused` and `missed` are history variables.


## The runs

| Run | Instance | Distinct states |
|---|---|---|
| `validations` | agreement: UNL of 4, negative UNL of 0 or 1 (quorum 4 or 3), a fork at 1 and a ledger at 3, retention 1; interface: 2 validators, one behind a rotated key, 2 trusted sets, quorums 0 and 2 | 718,956 |
| `engine` | 2 peers, 2 sets, 5 messages with a fork and a bow-out, sequences up to 3, 1 buffered proposal per peer | 50,168 |
| `network` | service: sequences up to 3, 7 calls; acquisition: 2 peers, 3 outside events; overlay: 3 connections, 3 or 4 outside events | 94,556 |
| `transactions` | 3 accounts in 12 scopes and 4 accounts in a token market, histories of 2 to 6 transactions, pages of one key | 292,719 |
| `state` | the table, the entries, maps in memory, maps over a store, the node store | 543,479 |
| `dex` | an AMM of 3 parties and 3 transactions; books of 3 issues and 3 transactions; sandboxes over 2 keys | 225,430 |
| `server` | transactions of 2 accounts, with a TicketCreate, replacements of a lone entry and one below the base fee, 4 ledgers, a queue of 2 | 39,818 |
| `engine_locks`, `tx_map_hash`, `sandbox_applies`, `blocker_alone`, `compare` | see below | violated |

*validations*: `IndexesAgree`, the latest-per-node index is the highest of what is
recorded and nobody counts twice at a sequence; `TipsOfTrusted`, trie support
comes only from those who count, through every rebuild and expiry; `Agreement`, no
two ledgers of a sequence are fully validated; `ExactlyOnce`, the promise of the
callback; `ExpirySound`, eviction loses nothing and what was evicted stays settled.

*engine*: `RoundConsistent`, what is counted and what is proposed belong to the
ledger the round builds on; `PositionsHonest`, a changed position gets a higher
number, and a recovering node does not vouch for its round; `WrongLedgerLeft`,
the wrong-ledger mode ends, or the node comes to hold the empty set and an open
ledger that a failed build has closed, with which every further build is refused.

*network*: `ValidationExact`, only a quorum validates and no event is published
twice; `AdoptionChains`, an adoption leaves no foreign ledger below the tip;
`AcquisitionSound`, what a replay or a full fetch adopts has the state its header
names, at most one ledger is adopted without its state, and only to end the
initial sync, and one path fetches a ledger;
`SelectedExactly`, a relay slot that has selected keeps exactly its sources
unmuted; `NothingLingers`, replays end and dead connections are forgotten.

*transactions*: `LedgerConsistent`, drops, owner counts, directories and token
supplies add up, and a directory keeps the key of an entry that is gone only in the
cases named below; `NeverLockedOut`, an account keeps a way to sign; `NoReplay`;
`FailsCleanly`, a failure costs the fee alone; `RightsRespected`, deposit
authorisation, the limits of delegates, and the notice a channel gives. For the
market: `TokensInPlace`, pages are sorted, linked and hold each token once;
`HoldingsConsistent`, counts, directories (with the same exceptions) and locked
amounts; `SalesExact`, no XRP appears or is lost, nobody is overdrawn, and seller,
token issuer and broker get what they are due, each in the token it is due in;
`TokensFollowRules`, a token leaves its holder only with the holder's or, burnable,
the issuer's consent, and a non-transferable one only to or from its issuer, or on
an offer that the issuer's minter of the time made; `EscrowPaysOut`, an escrow
moves exactly what was agreed.

*state*: `ApplyNeverFails`, `PreviousTxnIDIsLast`, `SuccIsNextVisible` and
`ImplementsLedgerView` for the table; `EntryFaithful`, no parser or serializer
loses a field, with three exceptions (the `Flags` of a directory, the open-book
place of a hybrid offer, a DID from its first long blob on), and metadata tells the
change; `MapsAgree`, hash, walks and proofs are those of the contents, `DeepEqual`
tells equal maps, and `Compare` reports only true differences, and all of them
unless it stops early as `compare` shows; `NothingLost`, what was put is found after
any flush and release; `StoredIsFound`, a node stored is found, with the three
exceptions the code makes (its backend's retention is over; a Fetch that
overlapped the Store marked it missing; a Rotate has failed).

*dex*: `PoolAccounted`, pool, LP tokens, lines and directory of an AMM add up, the
tokens as long as no LP was taken for the only one; `SharesKeepValue`, no
transaction lowers the pool's value per LP token, but that a withdrawal at an
effective price may pay out what one more LP token is worth, and that nothing is claimed once
`LPTokenBalance` leaves out somebody's tokens; `OffersConsistent`,
`MoneyKept` and `PricesKept` for offers and payments; `SandboxIsMap`, a chain of
sandboxes shows what one map with the same writes would.

*server*: `BlockerAlone`, a blocker shares the queue with other transactions of its
account only if one of them is detached;
`AcceptTakesTheBest`, what an `Accept` leaves behind could not go in (two kinds of
passes are excluded, in which the code goes on past a candidate it could apply);
`EveryoneLeaves`, while ledgers close, each with a hash of its own, no queued
transaction stays for ever, but those that pay less than the base fee, which
`Apply` queues and `Accept` stops at, and those that wait behind one.

**Bounds.** A fork needs two ledgers of one sequence and an eviction a third above
the retention window, so three ledgers reach every case of the tracker. Three
sequences give the service a parent, a child to hold and a fork between. Buffers,
stashes, caches, queues and pages are at their limits of one or two, so that all
of them overflow. The budgets of `network` bound what comes from outside; what the
node makes of it is not bounded. The scopes of `transactions` are
the least in which the histories a family of types is exposed to can happen: a
ticket used after its account was deleted and funded again takes four
transactions, a token of a domain six. The views of the runs drop history
variables no guard and no property of the run reads in an earlier state;
symmetries are of values that only equality tells apart. Runs without a deadlock
check have bounded inputs, so their behaviours end. `CrowdedBooks` is FALSE in
`dex`, which keeps it clear of what `sandbox_applies` shows.

**Fairness.** `engine`: the heartbeat ticks for ever, so a waiting round starts, an
open round closes once its idle interval is over, an establishing round meets its
deadline, and a build that is not refused does not fail for ever; nothing is
assumed of peers.
`network`: the router's ticker, the event loop, the router's loop, the relay's
sweep, and a run loop whose connection closed; each is a goroutine or a timer that
runs as long as the node does, and again nothing is assumed of peers. `server`:
ledgers keep closing. `engine_locks`: goroutines are scheduled, and a waiting
writer gets the lock, which Go guarantees.

## What the violated runs show

- `engine_locks`: `OnValidation` and the accept path call `ValidationTracker.Add`
  with `Engine.mu` held for writing, and the callback takes it for reading. The
  comment on `Add` says that it may, "without deadlocking".
- `tx_map_hash`: a map filled through `PutWithNodeType`, as transaction maps are,
  links the empty inner nodes of a split from the top down, and their ancestors
  keep the hash they had while empty. The root hash then depends on the order of
  the puts.
- `sandbox_applies`: an entry that one child sandbox deleted and a later one
  inserted again becomes an insertion over an entry the ledger still has, and the
  transaction ends in `tefINTERNAL`, which the comment on `Insert` sets out to
  prevent.
- `blocker_alone`: a blocker that replaces the only entry of its account is
  detached, and a transaction with a ticket is then queued beside it; the comment
  says "we require that a blocker be alone in the account's queue".
- `compare`: `Compare(other, 0)` ends at the first pair of inner nodes of which no
  two present children differ, because it takes an empty list of pairs for the limit
  having been reached. The comment says "0 = no limit" and "complete=true if all
  differences found, false if truncated".

## What is proved

A proof module states its theorems for every value of the constants that
satisfies the assumptions named here. Each rests on an inductive invariant, with
one lemma per operation or action.

**Loops.** Many operations of the code are loops: the playback of proposals, the
cascade of held adoptions, the walk past erased entries, the clean-up of backends,
the reading through a chain of sandboxes. Each is an instance
`X == INSTANCE Loops WITH Step <- op` of a counted loop. `LoopTurns` gives its two
equations and `TurnByTurn` an induction over its turns that the provers can use: a
set of numbers that has 0 and with each number its successor has them all. A proof
about a loop names the set of turns after which the claim holds and cites both.

**ValidationAgreementProofs**, from `TrackerConstants`: `TypeCorrect`,
`IndexesAgreeHold` and `TipsOfTrustedHolds`, for `SpecAPI`. The invariant `TInv`
is their conjunction, because `ExpireOld` decides by the index of validations
whether a node's latest one goes, and the tips follow that index. With
`UNLAssumption`, and for `Spec` (`Clear` erases the fired marks): `AgreementHolds`,
`ExactlyOnceHolds`, `ExpirySoundHolds`. The argument:

1. `QuorumIsMajority`: four fifths of at least three quarters of the UNL, rounded
   up, is more than half of it; `MajoritiesMeet`: two such sets share a validator.
2. `Agreement` is not inductive, because `ExpireOld` erases marks and validations.
   `AInv` adds `RetainedAboveFloor` (everything at or above the highest eviction is
   still recorded), `FiredByMajority`, and `Anchored` (once anything was evicted, a
   reported ledger above the floor has a majority with nothing recorded below it).
3. A ledger below the floor would need a majority, which meets the anchor's, whose
   members only have newer validations; a rival above the floor would need a
   majority that meets the first one's, and nobody is recorded twice at a sequence.

**ConsensusEngineProofs**, from `EngineConstants`: `RoundConsistentHolds` and
`PositionsHonestHolds`, for any peers, messages, adoptions and number of rounds.
`EInv` types the engine (positions are numbered, buffered proposals are their
senders', kept proposals are real messages) and adds what the two need: the
proposals of a round are for its ledger unless the mode is wrongLedger or the
phase accepted, a position is for `prevLedger` and names `ourTxSet`, and while
recovering the node has no position and is not proposing. Playback is the loop
`replayOne`; `handleWrongLedger`, `startRound` and `acceptLedger` have a lemma
each, which the heartbeat's actions compose.

**LedgerServiceProofs**, from `ServiceConstants`: `TypesHold`,
`ValidationExactHolds`, `TipConsistentHolds` and `AdoptionChainsHold`, for
`SpecAPI`. `SInv` says that the history, the two stashes and the held adoptions
are well formed (one entry per sequence or hash, within their limits and ages),
that every ledger is filed under its own sequence, that the closed ledger is the
history's and the open ledger its child, and, in `Backed`, that a quorum stashed
for a ledger still to come is a real one whose ledger has not been published.
Without the last `PublishedOnce` is not inductive: a re-adopted ledger could drain
a stash entry after its event has left. The cascade is the loop `cascadeAt`.

**ApplyStateTableProofs**, from `TableConstants` (keys are finite, owners are
account roots): `ApplyNeverFailsAlways`, `ThreadsUnbroken`, `WalkMeetsEveryEntry`
and `TableIsLedgerView`. `TabInv` says that each item remembers what the base view
had, and how its action follows from that. For Succ's search past erased entries,
the loop invariant is that everything between the key and the place reached is
erased in the table; since a turn passes at least one key, as many turns as there
are keys suffice. `TableIsLedgerView` shows the refinement step by step.

**NodeStoreProofs**, from `NodeStoreConstants`: `NInvHolds`, `StoredIsFoundHolds`,
for any threads, sizes and lifetimes. `NInv` follows a node from the moment it is
written: until its backend's retention is over, a backend that Fetch asks has it,
no closed one comes before that backend in the order of asking, a stored node is
not in the negative cache, and a Fetch under way only owes what is stored.

**PaymentSandboxProofs**, from `SandboxConstants`: `SandboxIsMapHolds`. `PInv` says
of the root, and of a child over it, that reading through its records gives the
map its writes make (`StandsFor`), that nothing is both deleted and recorded, that
a modification is of an entry below and an insertion of an entry that is not.
`Merged` carries this over `Apply` of a child to its parent.

**TxQProofs**, from `TxQAssumption` (finitely many transactions, whose accounts
submit): `BlockerAloneHolds`, for any transactions, fees and limits of the queue.
A blocker that waits has company only through a detached candidate. `QInv` says
that candidates are filed under their own account and that a relevant registered
blocker is the only relevant registered candidate. Everything but joining the queue only
takes candidates out (`Shrinks`) and only moves sequences forward (`Grows`), and
`StaysAlone` shows that neither brings company to a blocker; the loops of `Accept`
and of the rescue are such steps, turn by turn (`AcceptFollows`, `RescueFollows`).
For joining, `EnqueueAlone` puts the checks made on the queue that `Apply` found
against the queue a failed rescue or an eviction has left.

**Only model-checked.** TLAPS has no rule for liveness under fairness, so
`WrongLedgerLeft`, `NothingLingers`, `EveryoneLeaves` and `AddReturns` stay with
TLC. `SHAMap` and `LedgerMaps` are recursive over trees, for which the provers
have no induction, and `Acquisition` uses them: `MapsAgree`, `NothingLost` and
`AcquisitionSound` stay with TLC. So do the properties of the transactors, the
NFToken market, the exchange, the AMM and the entries, which are about sums over
a whole ledger or about arithmetic with rounding, and
`SelectedExactly`. `AcceptTakesTheBest` needs the order of the fee index and the
end of the loop, which depends on it.

## Where the code and its comments differ

Found while modelling. The first list is about the parts whose model shows the
difference, the second about behaviour the models leave out or take as it is.

- The validated ledger is the one whose quorum was reported last, not the highest:
  two quorums reported in the other order move it back (`service.go`,
  `SetValidatedLedger`).
- A trie tip left behind by an unresolved newer ledger outlives the validation it
  stands for (`validations_trie.go`).
- The chain switch of `AcceptConsensusResult` and `AdoptLedgerHeader` insert into
  the history and leave the stash of quorums alone.
- `AcceptConsensusResult` compares the parent's sequence only, and an empty set
  closes the open ledger with whatever was submitted to it.
- A bow-out is buffered before it is recognised and is replayed as a position.
- Nothing keeps a node from signing full validations of two ledgers of a sequence.
- The comments on `startRoundLocked` and `OnLedger` say that a round after a switch
  emits no validation; `acceptLedger` sends a partial one. `PositionsHonest` states
  what does hold.
- A failed `Rotate` of the node store leaves the primary on the list that
  retention empties; a `Fetch` that overlaps a `Store` may mark the node missing
  after it was written (`database.go:159`, `kvstore_database.go:126`).
- A transaction that replaces the only one of its account is missing from
  `byAccount`; one below the base fee is queued and never applied.
- A build that fails after it closed the open ledger leaves a ledger that no later
  build with an empty set can close (`service.go:1320-1329`, `ledger.go:489`).
- The router's comment says "Don't adopt with synthetic headers - wait for real state
  data" (`router.go:701`); `router.go:1168-1171` adopts a header alone
  when its answer belongs to no fetch under way, or when the fetch refuses it.
- Checks, channels and credentials record the page they are on; tickets,
  signer lists, DIDs, escrows, MPT issuances and MPTokens are removed from page 0,
  and what is on a later page stays listed after it is gone. `GetOwnerNode` looks for
  the byte 0x34 anywhere in an entry, so a ticket with that byte in its sequence is
  looked for on a page that is not there. Emptying the only page behind the root
  leaves the root naming it as the last (`directory.go:884-925`), and AccountDelete
  erases a root whose later pages stay. An escrow read back has
  no `DestinationNode` or `IssuerNode`, so that EscrowFinish and EscrowCancel leave it
  in the destination's and the issuer's directories.
- `SerializeLedgerOffer` drops the `AdditionalBookDirectory` and
  `AdditionalBookNode` that `applyHybridInSandbox` sets.
- The broker's fee of an NFToken sale is paid in the token it names and subtracted
  from the price by its number; only XRP against tokens is told apart
  (`nftoken_accept_offer.go:289-313`).
- A non-transferable token may still be sold on an offer that the issuer's minter
  made before being dismissed.
- An LP within a thousandth of all tokens is taken for the only one (`asset.go:120`),
  and its withdrawal takes the others' tokens out of `LPTokenBalance`.
- `singleWithdrawEPrice` rounds the tokens up and divides by the price, which pays
  out up to the worth of one more LP token than was redeemed.
- A DID with a field of more than 192 bytes loses what follows it when parsed.
- `ParseDirectoryNode` loses `Flags`.
- `deleteNFTokenOffers` leaves directory entries behind; an issuer that brokers its
  own token loses the cut in XRP.
- A fee-only failure in preclaim charges the payer on another path than a failure
  in apply (`engine.go:545-694`); the comment at 712 describes one path.
- `table.Apply` writes one by one and would stop midway on an error;
  `ApplyNeverFails` shows that no error of the ledger occurs.

And:

- `Overlay.onMessageReceived` consumes status changes and never forwards them;
  `Overlay.Stop` holds the lock of the peer table while `Peer.Close` may block;
  `Peer.Close` and `removePeer` each emit a disconnect event.
- `shamap.New` marks a map full, so that `IsComplete` is true at once; an inbound
  ledger that failed is never reaped; an inbound header is not checked against the
  hash it was asked for; `FlushDirty` marks nodes clean before they are stored.
- Cashing a check creates a trust line without its directory entries.
- An offer replaced at the reserve limit fails with `tecINSUF_RESERVE_OFFER`; an
  expired offer leaves the offer it replaces in place; a payment without SendMax
  has no input limit; `XRPEndpointStep` and the creation of trust lines record no
  deferred credit.
- An AMM deposit discards a change of the owner count; a bid fails with
  `tecINTERNAL` when the previous slot owner has no LP line, a clawback with
  `tefINTERNAL` when the holder lacks a line of the second asset.
- The transfer fee of an MPT escrow stays locked.

## What is not modelled

Votes on disputes and close times (their results are choices), the proposal and
dispute trackers and the operating-mode manager (no production caller), the trie,
the validation archive, relaying of proposals, validations, manifests and
transactions, handshake, discovery and reputation of peers, the
invariant checkers of lines, offers, NFTokens and AMMs, batches, vaults, bridges and state fixes, multi-signature weights and load fees,
path finding, relational storage, RPC, gRPC, the codec, cryptography,
configuration and the command line. `PROJECT.json` gives the reason for each.
