--------------------- MODULE ValidationAgreementProofs ----------------------
(***************************************************************************)
(* First the indexes of ValidationTracker, for any validators, ledgers,    *)
(* trusted sets, quorums and retention, over the whole exported interface. *)
(*                                                                         *)
(* Then agreement on full validation, and one callback per ledger, for any UNL, *)
(* any negative UNLs of at most a quarter of it, any ledgers and forks and *)
(* any retention.  The argument is that of overlapping majorities, carried *)
(* across ExpireOld by the anchor: the ledger whose callback evicts the    *)
(* records below the floor is above the floor itself, so the majority that *)
(* validated it can record nothing below the floor any more.               *)
(***************************************************************************)
EXTENDS ValidationAgreement, FiniteSetTheorems, TLAPS

(* The inductive invariant: ExpireOld decides by the index of validations   *)
(* whether a node's latest validation goes, and the trie tips follow byNode,*)
(* so the facts are proved together.                                        *)
TInv == TypeOK /\ LatestIsHighest /\ OneLedgerPerSeq /\ TipsOfTrusted

(* The tracker Engine.Start builds satisfies the invariant.                 *)
LEMMA InitTInv == Init => TInv
<1> SUFFICES ASSUME Init PROVE TInv
    OBVIOUS
<1> USE TrackerConstants
<1>1. TypeOK
    BY DEF Init, TypeOK, LedgerOrNone, CallsCap
<1>2. LatestIsHighest
    BY DEF Init, LatestIsHighest
<1>3. OneLedgerPerSeq
    BY DEF Init, OneLedgerPerSeq
<1>4. TipsOfTrusted
    BY DEF Init, TipsOfTrusted
<1> QED
    BY <1>1, <1>2, <1>3, <1>4 DEF TInv

(* Add, with its filters, its quorum test and its update of the trie.       *)
LEMMA AddTInv ==
    ASSUME TInv, NEW k \in Keys, NEW l \in Ledgers, NEW full, NEW sign, NEW seen,
           NEW resolved, Add(k, l, full, sign, seen, resolved)
    PROVE  TInv'
<1> USE TrackerConstants
<1> DEFINE n == Resolve[k]
           vals == validations[l] \cup {n}
<1>1. /\ n \in Nodes
      /\ TypeOK /\ LatestIsHighest /\ OneLedgerPerSeq /\ TipsOfTrusted
    BY DEF TInv
<1>2. /\ byNode[n] # None => SeqOf[l] > SeqOf[byNode[n]]
      /\ byNode' = [byNode EXCEPT ![n] = l]
      /\ validations' = [validations EXCEPT ![l] = vals]
      /\ trieTips' = updateTrie(n, l, resolved)
      /\ UNCHANGED <<trusted, negUNL, quorum, minSeq, trieOn, calls, archived, floor>>
    BY DEF Add, resolver, Accepts, config
<1>3. /\ fired' \in SUBSET Ledgers
      /\ dispatch' \in SUBSET Ledgers
      /\ everFired' \in SUBSET Ledgers
      /\ firedBy' \in [Ledgers -> SUBSET Nodes]
  <2>1. Counted(vals) \in SUBSET Nodes
      BY <1>1 DEF Counted, TypeOK
  <2> QED
      BY <1>1, <2>1 DEF Add, resolver, TypeOK
<1>4. TypeOK'
  <2>1. trieTips' \in [Nodes -> LedgerOrNone]
      BY <1>1, <1>2 DEF TypeOK, updateTrie, LedgerOrNone
  <2>2. validations' \in [Ledgers -> SUBSET Nodes]
      BY <1>1, <1>2 DEF TypeOK
  <2>3. byNode' \in [Nodes -> LedgerOrNone]
      BY <1>1, <1>2 DEF TypeOK, LedgerOrNone
  <2> QED
      BY <1>1, <1>2, <1>3, <2>1, <2>2, <2>3 DEF TypeOK
<1>5. LatestIsHighest'
  <2> SUFFICES ASSUME NEW m \in Nodes
               PROVE  /\ byNode'[m] # None => m \in validations'[byNode'[m]]
                      /\ \A x \in Ledgers : m \in validations'[x] =>
                            /\ byNode'[m] # None
                            /\ x = byNode'[m] \/ SeqOf[x] < SeqOf[byNode'[m]]
      BY DEF LatestIsHighest
  <2>1. CASE m = n
    <3>1. byNode'[m] = l /\ l # None /\ m \in validations'[l]
        BY <1>1, <1>2, <2>1 DEF TypeOK
    <3>2. ASSUME NEW x \in Ledgers, m \in validations'[x], x # l
          PROVE  SeqOf[x] < SeqOf[l]
      <4>1. m \in validations[x]
          BY <1>2, <3>2 DEF TypeOK
      <4>2. /\ byNode[m] # None
            /\ x = byNode[m] \/ SeqOf[x] < SeqOf[byNode[m]]
          BY <1>1, <4>1 DEF LatestIsHighest
      <4>3. /\ byNode[m] \in Ledgers
            /\ SeqOf[byNode[m]] < SeqOf[l]
          BY <1>1, <1>2, <2>1, <4>2 DEF TypeOK, LedgerOrNone
      <4> QED
          BY <4>2, <4>3
    <3> QED
        BY <3>1, <3>2
  <2>2. CASE m # n
    <3>1. byNode'[m] = byNode[m]
        BY <1>1, <1>2, <2>2 DEF TypeOK
    <3>2. \A x \in Ledgers : m \in validations'[x] <=> m \in validations[x]
        BY <1>1, <1>2, <2>2 DEF TypeOK
    <3> QED
        BY <1>1, <3>1, <3>2 DEF LatestIsHighest, TypeOK, LedgerOrNone
  <2> QED
      BY <2>1, <2>2
<1>6. TipsOfTrusted'
  <2> SUFFICES ASSUME NEW m \in Nodes, trieTips'[m] # None
               PROVE  /\ trieOn' /\ m \in trusted' /\ m \notin negUNL'
                      /\ byNode'[m] # None
                      /\ SeqOf[trieTips'[m]] <= SeqOf[byNode'[m]]
      BY DEF TipsOfTrusted
  <2>1. CASE m # n
    <3>1. byNode'[m] = byNode[m] /\ trieTips'[m] = trieTips[m]
        BY <1>1, <1>2, <2>1 DEF TypeOK, updateTrie
    <3> QED
        BY <1>1, <1>2, <3>1 DEF TipsOfTrusted
  <2>2. CASE m = n /\ trieTips' = trieTips
    <3>1. byNode'[m] = l
        BY <1>1, <1>2, <2>2 DEF TypeOK
    <3>2. /\ trieTips[m] \in Ledgers /\ byNode[m] \in Ledgers
          /\ SeqOf[trieTips[m]] <= SeqOf[byNode[m]]
          /\ trieOn /\ m \in trusted /\ m \notin negUNL
        BY <1>1, <2>2 DEF TipsOfTrusted, TypeOK, LedgerOrNone
    <3>3. SeqOf[byNode[m]] < SeqOf[l]
        BY <1>2, <2>2, <3>2
    <3> QED
        BY <1>2, <2>2, <3>1, <3>2, <3>3
  <2>3. CASE m = n /\ trieTips' # trieTips
    <3>1. /\ trieOn /\ m \in trusted /\ m \notin negUNL
          /\ trieTips' = [trieTips EXCEPT ![n] = l]
        BY <1>2, <2>3 DEF updateTrie
    <3>2. trieTips'[m] = l /\ byNode'[m] = l
        BY <1>1, <1>2, <2>3, <3>1 DEF TypeOK
    <3> QED
        BY <1>2, <3>1, <3>2
  <2> QED
      BY <2>1, <2>2, <2>3
<1>7. OneLedgerPerSeq'
  <2> SUFFICES ASSUME NEW x \in Ledgers, NEW y \in Ledgers, NEW m,
                      SeqOf[x] = SeqOf[y], m \in validations'[x], m \in validations'[y],
                      x # y
               PROVE  FALSE
      BY DEF OneLedgerPerSeq
  <2>1. /\ m \in validations[x] \/ (x = l /\ m = n)
        /\ m \in validations[y] \/ (y = l /\ m = n)
      BY <1>1, <1>2 DEF TypeOK
  <2>2. ASSUME NEW z \in Ledgers, n \in validations[z]
        PROVE  SeqOf[z] < SeqOf[l]
    <3>1. byNode[n] # None /\ (z = byNode[n] \/ SeqOf[z] < SeqOf[byNode[n]])
        BY <1>1, <2>2 DEF LatestIsHighest
    <3>2. byNode[n] \in Ledgers /\ SeqOf[byNode[n]] < SeqOf[l]
        BY <1>1, <1>2, <3>1 DEF TypeOK, LedgerOrNone
    <3> QED
        BY <3>1, <3>2
  <2>3. CASE m \in validations[x] /\ m \in validations[y]
      BY <1>1, <2>3 DEF OneLedgerPerSeq
  <2>4. CASE x = l /\ m = n /\ m \in validations[y]
      BY <2>2, <2>4
  <2>5. CASE y = l /\ m = n /\ m \in validations[x]
      BY <2>2, <2>5
  <2> QED
      BY <2>1, <2>3, <2>4, <2>5
<1> QED
    BY <1>4, <1>5, <1>6, <1>7 DEF TInv

(* The rebuild behind SetTrusted, SetNegativeUNL and the provider swap puts *)
(* a tip only where the new configuration counts the node.                  *)
LEMMA RebuildTips ==
    ASSUME TInv, NEW T, NEW N, NEW known \in SUBSET Ledgers
    PROVE  /\ rebuildTrie(known, T, N) \in [Nodes -> LedgerOrNone]
           /\ trieOn => \A n \in Nodes : rebuildTrie(known, T, N)[n] # None =>
                 /\ n \in T /\ n \notin N
                 /\ byNode[n] # None
                 /\ rebuildTrie(known, T, N)[n] = byNode[n]
           /\ ~trieOn => rebuildTrie(known, T, N) = trieTips
<1> USE TrackerConstants
<1>1. TypeOK
    BY DEF TInv
<1>2. CASE trieOn
    BY <1>1, <1>2 DEF TypeOK, rebuildTrie, LedgerOrNone
<1>3. CASE ~trieOn
    BY <1>1, <1>3 DEF TypeOK, rebuildTrie
<1> QED
    BY <1>2, <1>3

(* SetTrusted rebuilds the trie for the new trusted set.                    *)
LEMMA SetTrustedTInv ==
    ASSUME TInv, NEW T \in TrustedSets, NEW known \in KnownSets, SetTrusted(T, known)
    PROVE  TInv'
<1> USE TrackerConstants
<1>1. TypeOK /\ LatestIsHighest /\ OneLedgerPerSeq /\ TipsOfTrusted
    BY DEF TInv
<1>2. /\ trusted' = T
      /\ trieTips' = rebuildTrie(known, T, negUNL)
      /\ UNCHANGED <<validations, byNode, fired, negUNL, quorum, minSeq, trieOn, dispatch,
                     everFired, firedBy, calls, archived, floor>>
    BY DEF SetTrusted, maps, history
<1>3. TypeOK'
    BY <1>1, <1>2, RebuildTips DEF TypeOK
<1>4. (LatestIsHighest /\ OneLedgerPerSeq)'
    BY <1>1, <1>2 DEF LatestIsHighest, OneLedgerPerSeq
<1>5. TipsOfTrusted'
  <2> SUFFICES ASSUME NEW n \in Nodes, trieTips'[n] # None
               PROVE  /\ trieOn /\ n \in T /\ n \notin negUNL
                      /\ byNode[n] # None
                      /\ SeqOf[trieTips'[n]] <= SeqOf[byNode[n]]
      BY <1>2 DEF TipsOfTrusted
  <2>1. trieOn
      BY <1>1, <1>2, RebuildTips DEF TipsOfTrusted
  <2>2. /\ n \in T /\ n \notin negUNL /\ byNode[n] # None
        /\ trieTips'[n] = byNode[n]
      BY <1>2, <2>1, RebuildTips
  <2>3. SeqOf[byNode[n]] \in Nat
      BY <1>1, <2>2 DEF TypeOK, LedgerOrNone
  <2> QED
      BY <2>1, <2>2, <2>3
<1> QED
    BY <1>3, <1>4, <1>5 DEF TInv

(* SetNegativeUNL rebuilds the trie without the disabled validators.        *)
LEMMA SetNegativeUNLTInv ==
    ASSUME TInv, NEW N \in NegUNLs, NEW known \in KnownSets, SetNegativeUNL(N, known)
    PROVE  TInv'
<1> USE TrackerConstants
<1>1. TypeOK /\ LatestIsHighest /\ OneLedgerPerSeq /\ TipsOfTrusted
    BY DEF TInv
<1>2. /\ negUNL' = N
      /\ trieTips' = rebuildTrie(known, trusted, N)
      /\ UNCHANGED <<validations, byNode, fired, trusted, quorum, minSeq, trieOn, dispatch,
                     everFired, firedBy, calls, archived, floor>>
    BY DEF SetNegativeUNL, maps, history
<1>3. TypeOK'
    BY <1>1, <1>2, RebuildTips DEF TypeOK
<1>4. (LatestIsHighest /\ OneLedgerPerSeq)'
    BY <1>1, <1>2 DEF LatestIsHighest, OneLedgerPerSeq
<1>5. TipsOfTrusted'
  <2> SUFFICES ASSUME NEW n \in Nodes, trieTips'[n] # None
               PROVE  /\ trieOn /\ n \in trusted /\ n \notin N
                      /\ byNode[n] # None
                      /\ SeqOf[trieTips'[n]] <= SeqOf[byNode[n]]
      BY <1>2 DEF TipsOfTrusted
  <2>1. trieOn
      BY <1>1, <1>2, RebuildTips DEF TipsOfTrusted
  <2>2. /\ n \in trusted /\ n \notin N /\ byNode[n] # None
        /\ trieTips'[n] = byNode[n]
      BY <1>2, <2>1, RebuildTips
  <2>3. SeqOf[byNode[n]] \in Nat
      BY <1>1, <2>2 DEF TypeOK, LedgerOrNone
  <2> QED
      BY <2>1, <2>2, <2>3
<1> QED
    BY <1>3, <1>4, <1>5 DEF TInv

(* Installing a provider seeds the trie from byNode; removing it drops it.  *)
LEMMA SetProviderTInv ==
    ASSUME TInv, NEW p \in BOOLEAN, NEW known \in KnownSets,
           SetLedgerAncestryProvider(p, known)
    PROVE  TInv'
<1> USE TrackerConstants
<1>1. TypeOK /\ LatestIsHighest /\ OneLedgerPerSeq /\ TipsOfTrusted
    BY DEF TInv
<1>2. /\ trieOn' = p
      /\ UNCHANGED <<validations, byNode, fired, trusted, negUNL, quorum, minSeq, dispatch,
                     everFired, firedBy, calls, archived, floor>>
    BY DEF SetLedgerAncestryProvider, maps, history
<1>3. /\ trieTips' \in [Nodes -> LedgerOrNone]
      /\ \A n \in Nodes : trieTips'[n] # None =>
            /\ p /\ n \in trusted /\ n \notin negUNL
            /\ byNode[n] # None /\ trieTips'[n] = byNode[n]
    BY <1>1 DEF SetLedgerAncestryProvider, TypeOK, LedgerOrNone
<1>4. TypeOK'
    BY <1>1, <1>2, <1>3 DEF TypeOK
<1>5. (LatestIsHighest /\ OneLedgerPerSeq)'
    BY <1>1, <1>2 DEF LatestIsHighest, OneLedgerPerSeq
<1>6. TipsOfTrusted'
    BY <1>1, <1>2, <1>3 DEF TipsOfTrusted, TypeOK, LedgerOrNone
<1> QED
    BY <1>4, <1>5, <1>6 DEF TInv

(* SetQuorum and SetMinSeq touch no index.                                  *)
LEMMA SetScalarsTInv ==
    ASSUME TInv,
           \/ \E q \in Quorums : SetQuorum(q)
           \/ \E s \in MinSeqs : SetMinSeq(s)
    PROVE  TInv'
<1> USE TrackerConstants
<1>1. /\ quorum' \in Quorums /\ minSeq' \in Nat
      /\ UNCHANGED <<validations, byNode, fired, trusted, negUNL, trieOn, trieTips, dispatch,
                     everFired, firedBy, calls, archived, floor>>
    BY DEF SetQuorum, SetMinSeq, maps, history, TInv, TypeOK
<1> QED
    BY <1>1 DEF TInv, TypeOK, LatestIsHighest, OneLedgerPerSeq, TipsOfTrusted

(* ExpireOld drops a node from byNode exactly when everything recorded for  *)
(* it goes, because its latest validation is its highest.                   *)
LEMMA ExpireOldTInv ==
    ASSUME TInv, NEW s \in Nat, ExpireOld(s),
           UNCHANGED <<trusted, negUNL, quorum, minSeq, trieOn, everFired, firedBy>>,
           dispatch' \in SUBSET Ledgers, calls' \in [Ledgers -> 0..CallsCap]
    PROVE  TInv'
<1> USE TrackerConstants
<1>1. TypeOK /\ LatestIsHighest /\ OneLedgerPerSeq /\ TipsOfTrusted
    BY DEF TInv
<1>2. TypeOK'
    BY <1>1 DEF ExpireOld, TypeOK, LedgerOrNone
<1>3. ASSUME NEW n \in Nodes, NEW l \in Ledgers, n \in validations'[l]
      PROVE  /\ n \in validations[l] /\ l \notin Dropped(s)
             /\ n \notin DroppedLatest(s)
  <2>1. n \in validations[l] /\ l \notin Dropped(s)
      BY <1>1, <1>3 DEF ExpireOld, TypeOK
  <2>2. SeqOf[l] >= s
      BY <2>1 DEF Dropped
  <2>3. byNode[n] # None /\ (l = byNode[n] \/ SeqOf[l] < SeqOf[byNode[n]])
      BY <1>1, <2>1 DEF LatestIsHighest
  <2>4. byNode[n] \in Ledgers
      BY <1>1, <2>3 DEF TypeOK, LedgerOrNone
  <2>5. SeqOf[byNode[n]] >= s
      BY <2>2, <2>3, <2>4
  <2> QED
      BY <2>1, <2>4, <2>5 DEF DroppedLatest, Dropped
<1>4. LatestIsHighest'
  <2> SUFFICES ASSUME NEW n \in Nodes
               PROVE  /\ byNode'[n] # None => n \in validations'[byNode'[n]]
                      /\ \A x \in Ledgers : n \in validations'[x] =>
                            /\ byNode'[n] # None
                            /\ x = byNode'[n] \/ SeqOf[x] < SeqOf[byNode'[n]]
      BY DEF LatestIsHighest
  <2>1. ASSUME byNode'[n] # None
        PROVE  n \in validations'[byNode'[n]]
    <3>1. n \notin DroppedLatest(s) /\ byNode'[n] = byNode[n] /\ byNode[n] \in Ledgers
        BY <1>1, <2>1 DEF ExpireOld, TypeOK, LedgerOrNone
    <3>2. n \in validations[byNode[n]]
        BY <1>1, <3>1 DEF LatestIsHighest
    <3>3. byNode[n] \notin Dropped(s)
        BY <3>1, <3>2 DEF DroppedLatest
    <3> QED
        BY <3>1, <3>2, <3>3 DEF ExpireOld
  <2>2. ASSUME NEW x \in Ledgers, n \in validations'[x]
        PROVE  /\ byNode'[n] # None
               /\ x = byNode'[n] \/ SeqOf[x] < SeqOf[byNode'[n]]
    <3>1. n \in validations[x] /\ n \notin DroppedLatest(s)
        BY <1>3, <2>2
    <3>2. byNode'[n] = byNode[n]
        BY <3>1 DEF ExpireOld
    <3> QED
        BY <1>1, <3>1, <3>2 DEF LatestIsHighest
  <2> QED
      BY <2>1, <2>2
<1>5. TipsOfTrusted'
  <2> SUFFICES ASSUME NEW n \in Nodes, trieTips'[n] # None
               PROVE  /\ trieOn /\ n \in trusted /\ n \notin negUNL
                      /\ byNode'[n] # None
                      /\ SeqOf[trieTips'[n]] <= SeqOf[byNode'[n]]
      BY DEF TipsOfTrusted
  <2>1. trieTips'[n] = trieTips[n]
      BY DEF ExpireOld
  <2>2. trieOn
      BY <1>1, <2>1 DEF TipsOfTrusted
  <2>3. byNode'[n] = byNode[n]
      BY <2>2 DEF ExpireOld
  <2> QED
      BY <1>1, <2>1, <2>3 DEF TipsOfTrusted
<1>6. OneLedgerPerSeq'
  <2>1. \A x \in Ledgers : validations'[x] \subseteq validations[x]
      BY <1>1 DEF ExpireOld, TypeOK
  <2> QED
      BY <1>1, <2>1 DEF OneLedgerPerSeq
<1> QED
    BY <1>2, <1>4, <1>5, <1>6 DEF TInv

(* The callback: with retention off, or nothing old enough, it evicts       *)
(* nothing; otherwise it is ExpireOld.                                      *)
LEMMA DispatchTInv ==
    ASSUME TInv, NEW l \in Ledgers, Dispatch(l)
    PROVE  TInv'
<1> USE TrackerConstants
<1>1. TypeOK /\ LatestIsHighest /\ OneLedgerPerSeq /\ TipsOfTrusted
    BY DEF TInv
<1>2. /\ UNCHANGED <<trusted, negUNL, quorum, minSeq, trieOn, everFired, firedBy>>
      /\ dispatch' \in SUBSET Ledgers
      /\ calls' \in [Ledgers -> 0..CallsCap]
    BY <1>1 DEF Dispatch, config, TypeOK, CallsCap
<1>3. CASE InMemoryLedgers > 0 /\ SeqOf[l] > InMemoryLedgers
  <2>1. ExpireOld(SeqOf[l] - InMemoryLedgers) /\ SeqOf[l] - InMemoryLedgers \in Nat
      BY <1>3 DEF Dispatch
  <2> QED
      BY <1>2, <2>1, ExpireOldTInv
<1>4. CASE ~(InMemoryLedgers > 0 /\ SeqOf[l] > InMemoryLedgers)
  <2>1. UNCHANGED <<validations, byNode, fired, trieTips, archived, floor>>
      BY <1>4 DEF Dispatch, maps
  <2> QED
      BY <1>1, <1>2, <2>1 DEF TInv, TypeOK, LatestIsHighest, OneLedgerPerSeq, TipsOfTrusted
<1> QED
    BY <1>3, <1>4

(* Clear empties both indexes and the trie.                                 *)
LEMMA ClearTInv ==
    ASSUME TInv, Clear
    PROVE  TInv'
<1> USE TrackerConstants
<1> QED
    BY DEF Clear, config, history, TInv, TypeOK, LatestIsHighest, OneLedgerPerSeq, TipsOfTrusted,
           LedgerOrNone

(* Every step of the interface, and stuttering, preserves the invariant.    *)
LEMMA NextTInv == TInv /\ [Next \/ Clear]_vars => TInv'
<1> SUFFICES ASSUME TInv, [Next \/ Clear]_vars
             PROVE  TInv'
    OBVIOUS
<1>1. ASSUME NEW k \in Keys, NEW l \in Ledgers, NEW full \in BOOLEAN,
             NEW sign \in SignOffsets, NEW seen \in SeenOffsets, NEW resolved \in BOOLEAN,
             Add(k, l, full, sign, seen, resolved)
      PROVE  TInv'
    BY <1>1, AddTInv
<1>2. ASSUME NEW l \in Ledgers, Dispatch(l)
      PROVE  TInv'
    BY <1>2, DispatchTInv
<1>3. ASSUME NEW T \in TrustedSets, NEW known \in KnownSets, SetTrusted(T, known)
      PROVE  TInv'
    BY <1>3, SetTrustedTInv
<1>4. CASE (\E q \in Quorums : SetQuorum(q)) \/ (\E s \in MinSeqs : SetMinSeq(s))
    BY <1>4, SetScalarsTInv
<1>5. ASSUME NEW N \in NegUNLs, NEW known \in KnownSets, SetNegativeUNL(N, known)
      PROVE  TInv'
    BY <1>5, SetNegativeUNLTInv
<1>6. ASSUME NEW p \in BOOLEAN, NEW known \in KnownSets,
             SetLedgerAncestryProvider(p, known)
      PROVE  TInv'
    BY <1>6, SetProviderTInv
<1>7. CASE Clear
    BY <1>7, ClearTInv
<1>8. CASE UNCHANGED vars
    BY <1>8 DEF vars, TInv, TypeOK, LatestIsHighest, OneLedgerPerSeq, TipsOfTrusted
<1> QED
    BY <1>1, <1>2, <1>3, <1>4, <1>5, <1>6, <1>7, <1>8 DEF Next

(* The invariant holds of the tracker used through any of its methods.      *)
LEMMA APITInv == SpecAPI => []TInv
<1> QED
    BY InitTInv, NextTInv, PTL DEF SpecAPI

(* Type correctness of the tracker, for any use of its interface.           *)
THEOREM TypeCorrect == SpecAPI => []TypeOK
<1>1. TInv => TypeOK
    BY DEF TInv
<1> QED
    BY <1>1, APITInv, PTL

(* byNode and validations agree whatever Add, ExpireOld, Clear and the      *)
(* setters do in whatever order.                                            *)
THEOREM LatestIsHighestHolds == SpecAPI => []LatestIsHighest
<1>1. TInv => LatestIsHighest
    BY DEF TInv
<1> QED
    BY <1>1, APITInv, PTL

(* No validator is ever counted for two ledgers of one sequence.            *)
THEOREM OneLedgerPerSeqHolds == SpecAPI => []OneLedgerPerSeq
<1>1. TInv => OneLedgerPerSeq
    BY DEF TInv
<1> QED
    BY <1>1, APITInv, PTL

(* Support in the trie always comes from trusted, enabled, tracked          *)
(* validators, for any sequence of rebuilds and evictions.                  *)
THEOREM TipsOfTrustedHolds == SpecAPI => []TipsOfTrusted
<1>1. TInv => TipsOfTrusted
    BY DEF TInv
<1> QED
    BY <1>1, APITInv, PTL

(* The two indexes of the tracker agree with each other at all times.       *)
THEOREM IndexesAgreeHold == SpecAPI => []IndexesAgree
<1>1. TInv => IndexesAgree
    BY DEF TInv, IndexesAgree
<1> QED
    BY <1>1, APITInv, PTL

-----------------------------------------------------------------------------
(* computeQuorum's 80 per cent of what a quarter's disabling leaves is more *)
(* than half of the whole UNL.                                              *)
LEMMA QuorumIsMajority ==
    ASSUME NEW q \in Quorums
    PROVE  2 * q > Cardinality(UNL)
<1>1. PICK N \in NegUNLs : q = computeQuorum(Cardinality(UNL), Cardinality(N))
    BY UNLAssumption
<1> DEFINE t == Cardinality(UNL)
           d == Cardinality(N)
           e == t - d
<1>2. t \in Nat /\ d \in Nat /\ t > 0
    BY UNLAssumption, FS_CardinalityType, FS_EmptySet
<1>3. 4 * d <= t
    BY UNLAssumption
<1>4. e > 0 /\ e \in Nat /\ 4 * e >= 3 * t
    BY <1>2, <1>3
<1>5. 5 * ((e * 4 + 4) \div 5) >= 4 * e
    BY <1>4
<1>6. 2 * ((e * 4 + 4) \div 5) > t
    BY <1>2, <1>4, <1>5
<1>7. (e * 4 + 4) \div 5 \in Nat
    BY <1>4
<1>8. q \in Nat /\ q >= (e * 4 + 4) \div 5
    BY <1>1, <1>2, <1>4, <1>7 DEF computeQuorum
<1> HIDE DEF t, d, e
<1>9. 2 * q > t
    BY <1>2, <1>6, <1>7, <1>8
<1> QED
    BY <1>9 DEF t

(* Two majorities of the UNL share a validator.                             *)
LEMMA MajoritiesMeet ==
    ASSUME NEW A \in SUBSET UNL, NEW B \in SUBSET UNL,
           2 * Cardinality(A) > Cardinality(UNL),
           2 * Cardinality(B) > Cardinality(UNL)
    PROVE  A \cap B # {}
<1> SUFFICES ASSUME A \cap B = {} PROVE FALSE
    OBVIOUS
<1>1. IsFiniteSet(UNL)
    BY UNLAssumption
<1>2. IsFiniteSet(A) /\ IsFiniteSet(B) /\ IsFiniteSet(A \cup B)
    BY <1>1, FS_Subset
<1>3. Cardinality(A \cup B) <= Cardinality(UNL)
    BY <1>1, FS_Subset
<1>4. Cardinality(A \cup B) = Cardinality(A) + Cardinality(B) - Cardinality(A \cap B)
    BY <1>2, FS_Union
<1>5. /\ Cardinality(A) \in Nat /\ Cardinality(B) \in Nat
      /\ Cardinality(UNL) \in Nat
    BY <1>1, <1>2, FS_CardinalityType
<1>6. Cardinality(A \cap B) = 0
    BY FS_EmptySet
<1> QED
    BY <1>3, <1>4, <1>5, <1>6

(* The tracker of Engine.Start has declared nothing.                        *)
LEMMA InitAInv == Init => AInv
<1> SUFFICES ASSUME Init PROVE AInv
    OBVIOUS
<1>1. TypeOK /\ LatestIsHighest /\ OneLedgerPerSeq
    BY InitTInv DEF TInv
<1>2. everFired = {} /\ fired = {} /\ dispatch = {} /\ floor = 0
    BY DEF Init
<1>3. ExactlyOnce
    BY DEF Init, ExactlyOnce
<1> QED
    BY <1>1, <1>2, <1>3 DEF AInv, RetainedAboveFloor, FiredByMajority, Anchored, Agreement

(* Ledgers are numbered.                                                    *)
LEMMA SequencesAreNumbers == \A l \in Ledgers : SeqOf[l] \in Nat
    BY TrackerConstants

(* An Add never records, for a validator of the anchor, a ledger below the  *)
(* floor: its latest validation is already above.                           *)
LEMMA AddKeepsAnchor ==
    ASSUME AInv, NEW k \in Keys, NEW l \in Ledgers, NEW full, NEW sign, NEW seen,
           NEW resolved, Add(k, l, full, sign, seen, resolved),
           NEW a \in everFired, SeqOf[a] > floor,
           \A n \in firedBy[a], x \in Ledgers : n \in validations[x] => SeqOf[x] >= floor
    PROVE  \A n \in firedBy[a], x \in Ledgers : n \in validations'[x] => SeqOf[x] >= floor
<1> DEFINE n == Resolve[k]
<1>1. TypeOK /\ LatestIsHighest /\ RetainedAboveFloor
    BY DEF AInv
<1>2. /\ byNode[n] # None => SeqOf[l] > SeqOf[byNode[n]]
      /\ validations' = [validations EXCEPT ![l] = validations[l] \cup {n}]
    BY DEF Add, resolver, Accepts
<1>3. n \in Nodes /\ a \in Ledgers /\ floor \in Nat
    BY TrackerConstants, <1>1 DEF TypeOK
<1>4. ASSUME n \in firedBy[a]
      PROVE  SeqOf[l] >= floor
  <2>1. n \in validations[a]
      BY SequencesAreNumbers, <1>1, <1>3, <1>4 DEF RetainedAboveFloor
  <2>2. byNode[n] # None /\ (a = byNode[n] \/ SeqOf[a] < SeqOf[byNode[n]])
      BY <1>1, <1>3, <2>1 DEF LatestIsHighest
  <2>3. byNode[n] \in Ledgers
      BY <1>1, <1>3, <2>2 DEF TypeOK, LedgerOrNone
  <2> QED
      BY SequencesAreNumbers, <1>2, <1>3, <2>2, <2>3
<1>5. \A m, x : x \in Ledgers /\ m \in validations'[x] =>
         m \in validations[x] \/ (m = n /\ x = l)
    BY <1>1, <1>2 DEF TypeOK
<1> QED
    BY <1>4, <1>5

(* The ledger an Add declares fully validated was counted by a majority, is *)
(* not below the floor, and was never declared before.                      *)
LEMMA AddFires ==
    ASSUME AInv, NEW k \in Keys, NEW l \in Ledgers, NEW full, NEW sign, NEW seen,
           NEW resolved, Add(k, l, full, sign, seen, resolved),
           checkFullValidation(l, validations[l] \cup {Resolve[k]})
    PROVE  LET C == Counted(validations[l] \cup {Resolve[k]})
           IN /\ C \subseteq UNL
              /\ 2 * Cardinality(C) > Cardinality(UNL)
              /\ C \subseteq validations'[l]
              /\ SeqOf[l] >= floor
              /\ l \notin everFired
<1> DEFINE C == Counted(validations[l] \cup {Resolve[k]})
<1>1. /\ TypeOK /\ RetainedAboveFloor /\ FiredByMajority /\ Anchored
    BY DEF AInv
<1>2. trusted = UNL /\ quorum \in Quorums /\ quorum \in Nat
    BY TrackerConstants, <1>1, UNLAssumption DEF TypeOK
<1>3. C \subseteq UNL
    BY <1>2 DEF Counted
<1>4. 2 * Cardinality(C) > Cardinality(UNL)
  <2>1. Cardinality(C) >= quorum
      BY DEF checkFullValidation
  <2>0. IsFiniteSet(UNL) /\ IsFiniteSet(C)
      BY <1>3, UNLAssumption, FS_Subset
  <2>2. Cardinality(C) \in Nat /\ Cardinality(UNL) \in Nat
      BY <2>0, FS_CardinalityType
  <2>3. 2 * quorum > Cardinality(UNL)
      BY <1>2, QuorumIsMajority
  <2>4. \A x, y, z \in Nat : x >= y /\ 2 * y > z => 2 * x > z
      OBVIOUS
  <2> HIDE DEF C
  <2> QED
      BY <1>2, <2>1, <2>2, <2>3, <2>4
<1>5. C \subseteq validations'[l]
    BY <1>1 DEF Add, resolver, Counted, TypeOK
<1>6. SeqOf[l] >= floor
  <2> HIDE DEF C
  <2>0. SeqOf[l] \in Nat /\ floor \in Nat
      BY <1>1, SequencesAreNumbers DEF TypeOK
  <2> SUFFICES ASSUME floor > 0 PROVE SeqOf[l] >= floor
      BY <2>0
  <2>1. PICK a \in everFired :
          /\ SeqOf[a] > floor
          /\ \A n \in firedBy[a], x \in Ledgers : n \in validations[x] => SeqOf[x] >= floor
      BY <1>1 DEF Anchored
  <2>2. \A n \in firedBy[a], x \in Ledgers : n \in validations'[x] => SeqOf[x] >= floor
      BY <2>1, AddKeepsAnchor
  <2>3. firedBy[a] \subseteq UNL /\ 2 * Cardinality(firedBy[a]) > Cardinality(UNL)
      BY <1>1 DEF FiredByMajority
  <2>4. C \cap firedBy[a] # {}
      BY <1>3, <1>4, <2>3, MajoritiesMeet
  <2>5. PICK m : m \in C /\ m \in firedBy[a]
      BY <2>4
  <2>6. m \in firedBy[a] /\ m \in validations'[l]
      BY <1>5, <2>5
  <2> QED
      BY <2>2, <2>6
<1>7. l \notin everFired
    BY <1>1, <1>6 DEF RetainedAboveFloor, checkFullValidation
<1> QED
    BY <1>3, <1>4, <1>5, <1>6, <1>7

(* An Add that declares nothing only adds to the records.                   *)
LEMMA AddQuietAInv ==
    ASSUME AInv, TInv', NEW k \in Keys, NEW l \in Ledgers, NEW full, NEW sign, NEW seen,
           NEW resolved, Add(k, l, full, sign, seen, resolved),
           ~checkFullValidation(l, validations[l] \cup {Resolve[k]})
    PROVE  AInv'
<1>1. TypeOK /\ RetainedAboveFloor /\ Anchored
    BY DEF AInv
<1>2. /\ validations' = [validations EXCEPT ![l] = validations[l] \cup {Resolve[k]}]
      /\ UNCHANGED <<fired, dispatch, everFired, firedBy, calls, floor>>
    BY DEF Add, resolver
<1>3. RetainedAboveFloor'
    BY <1>1, <1>2 DEF RetainedAboveFloor, TypeOK
<1>4. Anchored'
  <2> SUFFICES ASSUME floor > 0 PROVE Anchored'
      BY <1>2 DEF Anchored
  <2>1. PICK a \in everFired :
          /\ SeqOf[a] > floor
          /\ \A n \in firedBy[a], x \in Ledgers : n \in validations[x] => SeqOf[x] >= floor
      BY <1>1 DEF Anchored
  <2>2. \A n \in firedBy[a], x \in Ledgers : n \in validations'[x] => SeqOf[x] >= floor
      BY <2>1, AddKeepsAnchor
  <2> QED
      BY <1>2, <2>1, <2>2 DEF Anchored
<1>5. (FiredByMajority /\ Agreement /\ ExactlyOnce)'
    BY <1>2 DEF AInv, FiredByMajority, Agreement, ExactlyOnce
<1> QED
    BY <1>2, <1>3, <1>4, <1>5 DEF AInv, TInv

(* An Add that declares l: the majority meets that of any other ledger of   *)
(* the same sequence in a validator with two records for it.                *)
LEMMA AddFiringAInv ==
    ASSUME AInv, TInv', NEW k \in Keys, NEW l \in Ledgers, NEW full, NEW sign, NEW seen,
           NEW resolved, Add(k, l, full, sign, seen, resolved),
           checkFullValidation(l, validations[l] \cup {Resolve[k]})
    PROVE  AInv'
<1> DEFINE C == Counted(validations[l] \cup {Resolve[k]})
<1>1. /\ TypeOK /\ RetainedAboveFloor /\ Anchored /\ FiredByMajority
      /\ Agreement /\ ExactlyOnce
      /\ fired \subseteq everFired /\ dispatch \subseteq everFired
    BY DEF AInv
<1>2. /\ validations' = [validations EXCEPT ![l] = validations[l] \cup {Resolve[k]}]
      /\ fired' = fired \cup {l}
      /\ dispatch' = dispatch \cup {l}
      /\ everFired' = everFired \cup {l}
      /\ firedBy' = [firedBy EXCEPT ![l] = C]
      /\ UNCHANGED <<calls, floor>>
    BY DEF Add, resolver
<1>3. /\ C \subseteq UNL
      /\ 2 * Cardinality(C) > Cardinality(UNL)
      /\ C \subseteq validations'[l]
      /\ SeqOf[l] >= floor
      /\ l \notin everFired
    BY AddFires
<1> HIDE DEF C
<1>4. \A x \in everFired : x \in Ledgers /\ x # l /\ firedBy'[x] = firedBy[x]
    BY <1>1, <1>2, <1>3 DEF TypeOK
<1>5. firedBy'[l] = C
    BY <1>1, <1>2 DEF TypeOK
<1>6. RetainedAboveFloor'
  <2> SUFFICES ASSUME NEW x \in everFired', SeqOf[x] >= floor
               PROVE  x \in fired' /\ firedBy'[x] \subseteq validations'[x]
      BY <1>2 DEF RetainedAboveFloor
  <2>1. CASE x = l
      BY <1>2, <1>3, <1>5, <2>1
  <2>2. CASE x \in everFired
      BY <1>1, <1>2, <1>4, <2>2 DEF RetainedAboveFloor, TypeOK
  <2> QED
      BY <1>2, <2>1, <2>2
<1>7. FiredByMajority'
    BY <1>1, <1>2, <1>3, <1>4, <1>5 DEF FiredByMajority
<1>8. Anchored'
  <2> SUFFICES ASSUME floor > 0 PROVE Anchored'
      BY <1>2 DEF Anchored
  <2>1. PICK a \in everFired :
          /\ SeqOf[a] > floor
          /\ \A n \in firedBy[a], x \in Ledgers : n \in validations[x] => SeqOf[x] >= floor
      BY <1>1 DEF Anchored
  <2>2. \A n \in firedBy[a], x \in Ledgers : n \in validations'[x] => SeqOf[x] >= floor
      BY <2>1, AddKeepsAnchor
  <2> QED
      BY <1>2, <1>4, <2>1, <2>2 DEF Anchored
<1>9. Agreement'
  <2>1. ASSUME NEW x \in everFired, SeqOf[x] = SeqOf[l]
        PROVE  FALSE
    <3>1. /\ x \in Ledgers /\ x # l
          /\ firedBy[x] \subseteq UNL
          /\ 2 * Cardinality(firedBy[x]) > Cardinality(UNL)
        BY <1>1, <1>4 DEF FiredByMajority
    <3>2. PICK m : m \in C /\ m \in firedBy[x]
      <4>1. C \cap firedBy[x] # {}
          BY <1>3, <3>1, MajoritiesMeet
      <4> QED
          BY <4>1
    <3>3. m \in validations'[l] /\ m \in validations'[x]
      <4>1. firedBy[x] \subseteq validations[x]
          BY <1>1, <1>3, <2>1 DEF RetainedAboveFloor
      <4> QED
          BY <1>1, <1>2, <1>3, <3>1, <3>2, <4>1 DEF TypeOK
    <3>4. OneLedgerPerSeq'
        BY DEF TInv
    <3> QED
        BY <2>1, <3>1, <3>3, <3>4 DEF OneLedgerPerSeq
  <2> QED
      BY <1>1, <1>2, <2>1 DEF Agreement
<1>10. ExactlyOnce'
  <2> SUFFICES ASSUME NEW x \in Ledgers
               PROVE  calls'[x] + (IF x \in dispatch' THEN 1 ELSE 0)
                        = (IF x \in everFired' THEN 1 ELSE 0)
      BY DEF ExactlyOnce
  <2>1. CASE x # l
      BY <1>1, <1>2, <2>1 DEF ExactlyOnce
  <2>2. CASE x = l
    <3>0. calls \in [Ledgers -> 0 .. 2]
        BY <1>1 DEF TypeOK, CallsCap
    <3>1. calls[l] \in Nat /\ l \notin dispatch
        BY <1>1, <1>3, <3>0
    <3>2. calls[l] = 0
      <4>1. calls[l] + (IF l \in dispatch THEN 1 ELSE 0) = (IF l \in everFired THEN 1 ELSE 0)
          BY <1>1 DEF ExactlyOnce
      <4>2. l \notin everFired
          BY <1>3
      <4> QED
          BY <3>1, <4>1, <4>2
    <3> QED
        BY <1>2, <2>2, <3>2
  <2> QED
      BY <2>1, <2>2
<1>11. fired' \subseteq everFired' /\ dispatch' \subseteq everFired'
    BY <1>1, <1>2
<1> QED
    BY <1>6, <1>7, <1>8, <1>9, <1>10, <1>11 DEF AInv, TInv

(* The callback runs once for its ledger, and evicts below it.              *)
LEMMA DispatchAInv ==
    ASSUME AInv, TInv', NEW l \in Ledgers, Dispatch(l)
    PROVE  AInv'
<1>1. /\ TypeOK /\ RetainedAboveFloor /\ Anchored /\ FiredByMajority
      /\ Agreement /\ ExactlyOnce
      /\ fired \subseteq everFired /\ dispatch \subseteq everFired
    BY DEF AInv
<1>2. /\ l \in dispatch /\ l \in everFired
      /\ dispatch' = dispatch \ {l}
      /\ calls' = [calls EXCEPT ![l] = IF @ < CallsCap THEN @ + 1 ELSE @]
      /\ UNCHANGED <<everFired, firedBy>>
    BY <1>1 DEF Dispatch
<1>3. ExactlyOnce'
  <2> SUFFICES ASSUME NEW x \in Ledgers
               PROVE  calls'[x] + (IF x \in dispatch' THEN 1 ELSE 0)
                        = (IF x \in everFired' THEN 1 ELSE 0)
      BY DEF ExactlyOnce
  <2>1. CASE x # l
      BY <1>1, <1>2, <2>1 DEF ExactlyOnce, TypeOK
  <2>2. CASE x = l
    <3>1. calls[l] \in Nat
        BY <1>1 DEF TypeOK, CallsCap
    <3>2. calls[l] = 0
      <4>1. calls[l] + (IF l \in dispatch THEN 1 ELSE 0) = (IF l \in everFired THEN 1 ELSE 0)
          BY <1>1 DEF ExactlyOnce
      <4> QED
          BY <1>2, <3>1, <4>1
    <3>3. calls'[l] = 1
        BY <1>1, <1>2, <3>2 DEF TypeOK, CallsCap
    <3> QED
        BY <1>2, <2>2, <3>3
  <2> QED
      BY <2>1, <2>2
<1>4. (FiredByMajority /\ Agreement)' /\ dispatch' \subseteq everFired'
    BY <1>1, <1>2 DEF FiredByMajority, Agreement
<1>5. CASE InMemoryLedgers > 0 /\ SeqOf[l] > InMemoryLedgers
  <2> DEFINE s == SeqOf[l] - InMemoryLedgers
  <2>1. s \in Nat /\ s < SeqOf[l] /\ floor \in Nat
      BY TrackerConstants, <1>1, <1>5 DEF TypeOK
  <2>2. /\ validations' = [x \in Ledgers |->
                             IF x \in Dropped(s) THEN {} ELSE validations[x]]
        /\ fired' = fired \ Dropped(s)
        /\ floor' = IF s > floor THEN s ELSE floor
      BY <1>5 DEF Dispatch, ExpireOld
  <2> HIDE DEF s
  <2>3. RetainedAboveFloor'
    <3> SUFFICES ASSUME NEW x \in everFired, SeqOf[x] >= floor'
                 PROVE  x \in fired' /\ firedBy[x] \subseteq validations'[x]
        BY <1>2 DEF RetainedAboveFloor
    <3>1. x \in Ledgers /\ SeqOf[x] >= floor /\ SeqOf[x] >= s
        BY SequencesAreNumbers, <1>1, <2>1, <2>2 DEF TypeOK
    <3>2. x \notin Dropped(s)
        BY SequencesAreNumbers, <2>1, <3>1 DEF Dropped
    <3> QED
        BY <1>1, <2>2, <3>1, <3>2 DEF RetainedAboveFloor
  <2>4. Anchored'
    <3>1. CASE s > floor
      <4>1. floor' = s
          BY <2>2, <3>1
      <4>2. \A n, x : x \in Ledgers /\ n \in validations'[x] => SeqOf[x] >= s
          BY SequencesAreNumbers, <2>1, <2>2 DEF Dropped
      <4> QED
          BY <1>2, <2>1, <4>1, <4>2 DEF Anchored
    <3>2. CASE ~(s > floor)
      <4>1. floor' = floor
          BY <2>2, <3>2
      <4>2. \A n, x : x \in Ledgers /\ n \in validations'[x] => n \in validations[x]
          BY <2>2
      <4> QED
          BY <1>1, <1>2, <4>1, <4>2 DEF Anchored
    <3> QED
        BY <3>1, <3>2
  <2> QED
      BY <1>1, <1>2, <1>3, <1>4, <2>2, <2>3, <2>4 DEF AInv, TInv
<1>6. CASE ~(InMemoryLedgers > 0 /\ SeqOf[l] > InMemoryLedgers)
  <2>1. UNCHANGED <<validations, fired, floor>>
      BY <1>6 DEF Dispatch, maps
  <2>2. (RetainedAboveFloor /\ Anchored)'
      BY <1>1, <1>2, <2>1 DEF RetainedAboveFloor, Anchored
  <2> QED
      BY <1>1, <1>2, <1>3, <1>4, <2>1, <2>2 DEF AInv, TInv
<1> QED
    BY <1>5, <1>6

(* The setters touch nothing the invariant speaks of but the types.         *)
LEMMA SettersAInv ==
    ASSUME AInv, TInv',
           UNCHANGED <<validations, fired, dispatch, everFired, firedBy, calls, floor>>
    PROVE  AInv'
<1>1. (RetainedAboveFloor /\ Anchored /\ FiredByMajority)'
    BY DEF AInv, RetainedAboveFloor, Anchored, FiredByMajority
<1>2. (Agreement /\ ExactlyOnce)' /\ fired' \subseteq everFired' /\ dispatch' \subseteq everFired'
    BY DEF AInv, Agreement, ExactlyOnce
<1> QED
    BY <1>1, <1>2 DEF AInv, TInv

(* Every step of the running engine's tracker preserves the invariant.      *)
LEMMA NextAInv == AInv /\ TInv /\ [Next]_vars => AInv'
<1> SUFFICES ASSUME AInv, TInv, [Next]_vars
             PROVE  AInv'
    OBVIOUS
<1>0. TInv'
    BY NextTInv
<1>1. ASSUME NEW k \in Keys, NEW l \in Ledgers, NEW full \in BOOLEAN,
             NEW sign \in SignOffsets, NEW seen \in SeenOffsets, NEW resolved \in BOOLEAN,
             Add(k, l, full, sign, seen, resolved)
      PROVE  AInv'
    BY <1>0, <1>1, AddQuietAInv, AddFiringAInv
<1>2. ASSUME NEW l \in Ledgers, Dispatch(l)
      PROVE  AInv'
    BY <1>0, <1>2, DispatchAInv
<1>3. ASSUME NEW T \in TrustedSets, NEW known \in KnownSets, SetTrusted(T, known)
      PROVE  AInv'
    BY <1>0, <1>3, SettersAInv DEF SetTrusted, maps, history
<1>4. ASSUME NEW q \in Quorums, SetQuorum(q)
      PROVE  AInv'
    BY <1>0, <1>4, SettersAInv DEF SetQuorum, maps, history
<1>5. ASSUME NEW N \in NegUNLs, NEW known \in KnownSets, SetNegativeUNL(N, known)
      PROVE  AInv'
    BY <1>0, <1>5, SettersAInv DEF SetNegativeUNL, maps, history
<1>6. ASSUME NEW s \in MinSeqs, SetMinSeq(s)
      PROVE  AInv'
    BY <1>0, <1>6, SettersAInv DEF SetMinSeq, maps, history
<1>7. ASSUME NEW p \in BOOLEAN, NEW known \in KnownSets,
             SetLedgerAncestryProvider(p, known)
      PROVE  AInv'
    BY <1>0, <1>7, SettersAInv DEF SetLedgerAncestryProvider, maps, history
<1>8. CASE UNCHANGED vars
    BY <1>0, <1>8, SettersAInv DEF vars
<1> QED
    BY <1>1, <1>2, <1>3, <1>4, <1>5, <1>6, <1>7, <1>8 DEF Next

(* The invariant holds of the tracker the engine runs.                      *)
LEMMA SpecAInv == Spec => [](AInv /\ TInv)
<1>1. TInv /\ [Next]_vars => TInv'
    BY NextTInv
<1> QED
    BY <1>1, InitAInv, InitTInv, NextAInv, PTL DEF Spec

(* Agreement: checkFullValidationLocked never fires for two ledgers of one  *)
(* sequence, for any UNL and any interleaving of Add, the callback and the  *)
(* refresh of quorum and negative UNL.                                      *)
THEOREM AgreementHolds == Spec => []Agreement
<1>1. AInv => Agreement
    BY DEF AInv
<1> QED
    BY <1>1, SpecAInv, PTL

(* The fully validated callback runs exactly once per ledger, although      *)
(* ExpireOld deletes the ledger's fired mark.                               *)
THEOREM ExactlyOnceHolds == Spec => []ExactlyOnce
<1>1. AInv => ExactlyOnce
    BY DEF AInv
<1> QED
    BY <1>1, SpecAInv, PTL

(* No ledger below what the callback evicted is ever declared.              *)
THEOREM NothingFiresBelowFloorHolds == Spec => NothingFiresBelowFloor
<1>1. AInv /\ [Next]_vars => [\A l \in everFired' \ everFired : SeqOf[l] >= floor]_vars
  <2> SUFFICES ASSUME AInv, Next, NEW l \in everFired', l \notin everFired
               PROVE  SeqOf[l] >= floor
      OBVIOUS
  <2>1. PICK k \in Keys, x \in Ledgers, full \in BOOLEAN, sign \in SignOffsets,
             seen \in SeenOffsets, resolved \in BOOLEAN :
               Add(k, x, full, sign, seen, resolved)
      BY DEF Next, Dispatch, SetTrusted, SetQuorum, SetNegativeUNL, SetMinSeq,
             SetLedgerAncestryProvider, history
  <2>2. l = x /\ checkFullValidation(x, validations[x] \cup {Resolve[k]})
      BY <2>1 DEF Add, resolver
  <2> QED
      BY <2>1, <2>2, AddFires
<1> QED
    BY <1>1, SpecAInv, PTL DEF Spec, NothingFiresBelowFloor

(* Nothing ExpireOld drops escapes onStale.                                 *)
THEOREM StaleDeliveredHolds == Spec => StaleDelivered
<1>1. AInv /\ [Next]_vars =>
        [~Clear => \A l \in Ledgers : validations[l] \ validations'[l] \subseteq archived'[l]]_vars
  <2> SUFFICES ASSUME AInv, Next, NEW l \in Ledgers
               PROVE  validations[l] \ validations'[l] \subseteq archived'[l]
      OBVIOUS
  <2>0. TypeOK
      BY DEF AInv
  <2>1. CASE UNCHANGED validations
      BY <2>1
  <2>2. ASSUME NEW k \in Keys, NEW x \in Ledgers, NEW full, NEW sign, NEW seen,
               NEW resolved, Add(k, x, full, sign, seen, resolved)
        PROVE  validations[l] \subseteq validations'[l]
      BY <2>0, <2>2 DEF Add, resolver, TypeOK
  <2>3. ASSUME NEW x \in Ledgers, Dispatch(x)
        PROVE  validations[l] \ validations'[l] \subseteq archived'[l]
      BY <2>0, <2>3 DEF Dispatch, ExpireOld, maps, TypeOK
  <2> QED
      BY <2>1, <2>2, <2>3 DEF Next, SetTrusted, SetQuorum, SetNegativeUNL, SetMinSeq,
         SetLedgerAncestryProvider, maps
<1> QED
    BY <1>1, SpecAInv, PTL DEF Spec, StaleDelivered

(* Expiry is sound: nothing is lost unarchived, nothing old fires.          *)
THEOREM ExpirySoundHolds == Spec => ExpirySound
<1> QED
    BY StaleDeliveredHolds, NothingFiresBelowFloorHolds DEF ExpirySound

=============================================================================
