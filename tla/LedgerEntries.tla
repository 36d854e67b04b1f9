--------------------------- MODULE LedgerEntries ---------------------------
(***************************************************************************)
(* src/internal/ledger/state: the hand-written parsers and serializers of  *)
(* the ledger entries, and the metadata src/internal/tx builds from their  *)
(* bytes (apply_state_table.go, field_metadata.go).                        *)
(*                                                                         *)
(* The bytes of an entry are the fields present in it with their values; a *)
(* value is 0 (the default), 1, LongBlob, a blob of 193 bytes or more,     *)
(* whose length takes two bytes, or Garbled, 193 bytes that a parser cut   *)
(* out of the wrong place.  The fields of an entry stand in the order of   *)
(* their type code and field code.  A parser walks them in that order,     *)
(* knows some of the type codes, stops at the first it does not know and   *)
(* keeps some of the fields.  A serializer writes some fields always, some *)
(* when they are not the default, some as a constant, and drops all        *)
(* others, also some that a transactor has set.  LedgerEntryType, which    *)
(* all of them have, is left out.                                          *)
(***************************************************************************)
EXTENDS Naturals, FiniteSets, Functions, FiniteSetsExt, TLC

CONSTANTS EntryKinds,     \* the types of entries of an instance
          MaxTxs,         \* how many transactions affect the entry
          MaxRewrites     \* how often one of them rewrites it

LongBlob == 2
Garbled == 3

(* 100 times the type code of a field plus its field code                  *)
(* (src/codec/binarycodec/definitions).                                    *)
FieldCode ==
  [TransferFee |-> 104,
   Flags |-> 202, SourceTag |-> 203, Sequence |-> 204, PreviousTxnLgrSeq |-> 205,
   Expiration |-> 210, TransferRate |-> 211, OwnerCount |-> 213, DestinationTag |-> 214,
   LastUpdateTime |-> 215, HighQualityIn |-> 216, HighQualityOut |-> 217,
   LowQualityIn |-> 218, LowQualityOut |-> 219, ReferenceFeeUnits |-> 230,
   ReserveBase |-> 231, ReserveIncrement |-> 232, SignerQuorum |-> 235,
   CancelAfter |-> 236, FinishAfter |-> 237, SettleDelay |-> 239,
   TicketCount |-> 240, MintedNFTokens |-> 243,
   BurnedNFTokens |-> 244, FirstNFTokenSequence |-> 250,
   IndexNext |-> 301, IndexPrevious |-> 302, BookNode |-> 303, OwnerNode |-> 304,
   BaseFee |-> 305, ExchangeRate |-> 306, LowNode |-> 307, HighNode |-> 308,
   DestinationNode |-> 309, NFTokenOfferNode |-> 312, MaximumAmount |-> 324,
   OutstandingAmount |-> 325, MPTAmount |-> 326, IssuerNode |-> 327,
   SubjectNode |-> 328, LockedAmount |-> 329,
   EmailHash |-> 401,
   PreviousTxnID |-> 505, WalletLocator |-> 507, RootIndex |-> 508, AccountTxnID |-> 509,
   NFTokenID |-> 510, AMMID |-> 514, BookDirectory |-> 516, InvoiceID |-> 517,
   PreviousPageMin |-> 526, NextPageMin |-> 527, DomainID |-> 534,
   Amount |-> 601, Balance |-> 602, TakerPays |-> 604, TakerGets |-> 605, LowLimit |-> 606,
   HighLimit |-> 607, SendMax |-> 609, BaseFeeDrops |-> 622, ReserveBaseDrops |-> 623,
   ReserveIncrementDrops |-> 624,
   PublicKey |-> 701, MessageKey |-> 702, URI |-> 705, Domain |-> 707, Condition |-> 717,
   DIDDocument |-> 726, Data |-> 727, AssetClass |-> 728, Provider |-> 729,
   MPTokenMetadata |-> 730, CredentialType |-> 731,
   Account |-> 801, Owner |-> 802, Destination |-> 803, Issuer |-> 804, Authorize |-> 805,
   RegularKey |-> 808, NFTokenMinter |-> 809, Subject |-> 824,
   SignerEntries |-> 1504, AuthorizeCredentials |-> 1526, NFTokens |-> 1510,
   PriceDataSeries |-> 1524, AcceptedCredentials |-> 1528, Permissions |-> 1529,
   AssetScale |-> 1605, TickSize |-> 1616,
   TakerPaysCurrency |-> 1701, TakerPaysIssuer |-> 1702, TakerGetsCurrency |-> 1703,
   TakerGetsIssuer |-> 1704,
   Indexes |-> 1901, MPTokenIssuanceID |-> 2101]

TypeCode(f) == FieldCode[f] \div 100

(* The blobs a transaction may make longer than 192 bytes (Domain, URI,    *)
(* DIDDocument, Data and Provider up to 256, MPTokenMetadata up to 1024).  *)
LongFields == {"URI", "Domain", "DIDDocument", "Data", "Provider", "MPTokenMetadata"}

Threading == {"PreviousTxnID", "PreviousTxnLgrSeq"}

-----------------------------------------------------------------------------
(* A parser: the type codes it knows, the fields it keeps, whether it      *)
(* reads lengths of more than one byte.  The codec knows all of both.      *)
Parser(types, keeps, longLengths) ==
  [types |-> types, keeps |-> keeps, longLengths |-> longLengths]

AllTypes == {TypeCode(f) : f \in DOMAIN FieldCode}

CodecParser(keeps) == Parser(AllTypes, keeps, TRUE)

(* The first field of an entry that satisfies a condition.                 *)
First(bytes, P(_)) == Min({10000} \cup {FieldCode[f] : f \in {g \in DOMAIN bytes : P(g)}})

(* The first field of a type the parser does not know, where it stops.     *)
Stop(p, bytes) == First(bytes, LAMBDA g : TypeCode(g) \notin p.types)

(* The first blob whose length the parser takes for one byte: it keeps the *)
(* second byte of the length and 192 bytes of the blob, and goes on in the *)
(* middle of it.                                                           *)
Misread(p, bytes) ==
  First(bytes, LAMBDA g : bytes[g] \in {LongBlob, Garbled} /\ ~p.longLengths)

(* What the struct may hold: the default where the field was not read, and *)
(* behind a misread blob the default or whatever the blob looks like.      *)
Parse(p, bytes) ==
  LET stop   == Stop(p, bytes)
      wrong  == Misread(p, bytes)
      read   == [f \in p.keeps |-> IF f \in DOMAIN bytes /\ FieldCode[f] < stop
                                     THEN bytes[f] ELSE 0]
      at     == {f \in p.keeps : FieldCode[f] = wrong}
      behind == {f \in p.keeps : FieldCode[f] > wrong}
  IN  {[f \in at \cup garbage |-> Garbled] @@ [f \in behind |-> 0] @@ read :
         garbage \in SUBSET behind}

(* A serializer: the fields written always, when they are not the default, *)
(* and as a constant, and those a transactor sets that are not written.    *)
Serializer(always, optional, constant) ==
  [always |-> always, optional |-> optional, constant |-> constant, dropped |-> {}]

SerializeEntry(s, struct) ==
  [f \in s.always \cup {g \in s.optional : struct[g] # 0} |-> struct[f]]
    @@ [f \in s.constant |-> 0]

Kind(parser, serializer, rewritten) ==
  [parser |-> parser, serializer |-> serializer, rewritten |-> rewritten]

-----------------------------------------------------------------------------
(* One definition per ledger entry type.                                   *)
AccountOptional ==
  {"Account", "TransferRate", "RegularKey", "Domain", "EmailHash", "MessageKey",
   "NFTokenMinter", "MintedNFTokens", "BurnedNFTokens", "FirstNFTokenSequence",
   "TicketCount", "AccountTxnID", "WalletLocator", "AMMID", "TickSize"} \cup Threading

AccountAlways == {"Balance", "Sequence", "OwnerCount", "Flags"}

AccountRootParser ==
  Parser({1, 2, 4, 5, 6, 7, 8, 16}, AccountAlways \cup AccountOptional, TRUE)

AccountRootSerializer == Serializer(AccountAlways, AccountOptional, {})

CheckOptional == {"DestinationNode", "Expiration", "DestinationTag", "SourceTag", "InvoiceID"}

CheckAlways == {"Account", "Destination", "Sequence", "OwnerNode", "SendMax"}

CheckParser == Parser({1, 2, 3, 5, 6, 7, 8}, CheckAlways \cup CheckOptional \cup Threading, FALSE)

CheckSerializer == Serializer(CheckAlways, CheckOptional, {"Flags"})

EscrowAlways == {"Account", "Destination", "Amount"}

EscrowOptional ==
  {"FinishAfter", "CancelAfter", "Condition", "SourceTag", "DestinationTag", "TransferRate"}

EscrowParser ==
  Parser({1, 2, 3, 5, 6, 7, 8},
         EscrowAlways \cup EscrowOptional
           \cup {"Flags", "OwnerNode", "DestinationNode", "IssuerNode"}, FALSE)

EscrowSerializer == Serializer(EscrowAlways, EscrowOptional, {"OwnerNode", "Flags"})

PayChannelAlways == {"Account", "Destination", "Amount", "Balance", "SettleDelay", "OwnerNode"}

PayChannelOptional ==
  {"PublicKey", "CancelAfter", "Expiration", "SourceTag", "DestinationTag", "DestinationNode"}

PayChannelParser ==
  Parser({1, 2, 3, 5, 6, 7, 8}, PayChannelAlways \cup PayChannelOptional, FALSE)

PayChannelSerializer == Serializer(PayChannelAlways, PayChannelOptional, {"Flags"})

DIDOptional == {"URI", "DIDDocument", "Data"}

DIDParser == Parser({1, 2, 3, 5, 7, 8}, DIDOptional, FALSE)

(* Account is a parameter of SerializeDID: the sender of the transaction.  *)
DIDSerializer == Serializer({}, DIDOptional, {"Account", "OwnerNode", "Flags"})

MPTokenIssuanceAlways == {"Issuer", "Sequence", "OwnerNode", "OutstandingAmount", "Flags"}

MPTokenIssuanceOptional ==
  {"TransferFee", "AssetScale", "MaximumAmount", "LockedAmount", "MPTokenMetadata", "DomainID"}

MPTokenIssuanceParser ==
  Parser({1, 2, 3, 5, 7, 8, 16}, MPTokenIssuanceAlways \cup MPTokenIssuanceOptional, TRUE)

MPTokenIssuanceSerializer == Serializer(MPTokenIssuanceAlways, MPTokenIssuanceOptional, {})

MPTokenAlways == {"Account", "MPTokenIssuanceID", "OwnerNode", "MPTAmount", "Flags"}

MPTokenParser ==
  Parser({1, 2, 3, 5, 7, 8, 21}, MPTokenAlways \cup {"LockedAmount"}, TRUE)

MPTokenSerializer == Serializer(MPTokenAlways, {"LockedAmount"}, {})

OfferAlways ==
  {"Account", "Flags", "Sequence", "TakerPays", "TakerGets", "BookDirectory", "BookNode",
   "OwnerNode"} \cup Threading

OfferParser == Parser({1, 2, 3, 5, 6, 8}, OfferAlways \cup {"Expiration", "DomainID"}, FALSE)

(* The place of a hybrid offer in the open book, set by                    *)
(* applyHybridInSandbox.                                                   *)
AdditionalBook == {"AdditionalBookDirectory", "AdditionalBookNode"}

OfferSerializer ==
  [Serializer(OfferAlways, {"Expiration", "DomainID"}, {}) EXCEPT !.dropped = AdditionalBook]

OracleAlways ==
  {"Owner", "Provider", "AssetClass", "LastUpdateTime", "OwnerNode", "PriceDataSeries"}

OracleParser == Parser({1, 2, 3, 5, 7, 8, 15, 16}, OracleAlways \cup {"URI", "Flags"}, TRUE)

OracleSerializer == Serializer(OracleAlways, {"URI"}, {"Flags"})

RippleStateAlways == {"Flags", "Balance", "LowLimit", "HighLimit", "LowNode", "HighNode"}

RippleStateOptional ==
  {"LowQualityIn", "LowQualityOut", "HighQualityIn", "HighQualityOut"} \cup Threading

RippleStateParser == Parser({1, 2, 3, 5, 6}, RippleStateAlways \cup RippleStateOptional, FALSE)

RippleStateSerializer == Serializer(RippleStateAlways, RippleStateOptional, {})

FeeSettingsOptional ==
  {"BaseFeeDrops", "ReserveBaseDrops", "ReserveIncrementDrops", "BaseFee",
   "ReferenceFeeUnits", "ReserveBase", "ReserveIncrement"} \cup Threading

FeeSettingsParser == Parser({1, 2, 3, 5, 6}, FeeSettingsOptional, FALSE)

FeeSettingsSerializer == Serializer({}, FeeSettingsOptional, {})

NFTokenPageOptional == {"PreviousPageMin", "NextPageMin"}

NFTokenPageParser == Parser({1, 2, 3, 5, 7, 8, 14, 15}, {"NFTokens"} \cup NFTokenPageOptional, TRUE)

NFTokenPageSerializer == Serializer({"NFTokens"}, NFTokenPageOptional, {"Flags"})

NFTokenOfferAlways == {"Account", "Amount", "NFTokenID", "OwnerNode", "NFTokenOfferNode", "Flags"}

NFTokenOfferParser ==
  Parser({1, 2, 3, 5, 6, 7, 8}, NFTokenOfferAlways \cup {"Expiration", "Destination"}, TRUE)

NFTokenOfferSerializer == Serializer(NFTokenOfferAlways, {"Expiration", "Destination"}, {})

DirectoryOptional ==
  {"Indexes", "IndexNext", "IndexPrevious", "Owner", "ExchangeRate", "NFTokenID", "DomainID"}

BookFields ==
  {"TakerPaysCurrency", "TakerPaysIssuer", "TakerGetsCurrency", "TakerGetsIssuer"}

(* The codec returns UInt32 fields as uint32; ParseDirectoryNode asks for a *)
(* float64, and keeps no Flags.                                            *)
DirectoryParser == CodecParser({"RootIndex"} \cup DirectoryOptional \cup BookFields)

DirectorySerializer == Serializer({"RootIndex", "Flags"}, DirectoryOptional \cup BookFields, {})

SignerListOptional == {"SignerEntries", "Flags"}

SignerListParser == CodecParser({"SignerQuorum"} \cup SignerListOptional)

SignerListSerializer == Serializer({"Account", "SignerQuorum"}, SignerListOptional, {"OwnerNode"})

DepositPreauthParser == CodecParser({"Account"})

DepositPreauthSerializer ==
  Serializer({"Account"}, {"Authorize", "AuthorizeCredentials"}, {"OwnerNode", "Flags"})

DelegateAlways == {"Account", "Authorize", "Permissions", "OwnerNode"}

DelegateParser == CodecParser(DelegateAlways)

DelegateSerializer == Serializer(DelegateAlways, {}, {"Flags"})

PermissionedDomainAlways == {"Owner", "Sequence", "OwnerNode", "AcceptedCredentials"}

PermissionedDomainParser == CodecParser(PermissionedDomainAlways)

PermissionedDomainSerializer == Serializer(PermissionedDomainAlways, {}, {"Flags"})

CredentialAlways == {"Subject", "Issuer", "CredentialType", "IssuerNode"}

CredentialOptional == {"Expiration", "URI", "Flags", "SubjectNode", "PreviousTxnID"}

CredentialParser == CodecParser(CredentialAlways \cup CredentialOptional)

CredentialSerializer == Serializer(CredentialAlways, CredentialOptional, {})

Kinds ==
  [AccountRoot |-> Kind(AccountRootParser, AccountRootSerializer, TRUE),
   Check |-> Kind(CheckParser, CheckSerializer, FALSE),
   Escrow |-> Kind(EscrowParser, EscrowSerializer, FALSE),
   PayChannel |-> Kind(PayChannelParser, PayChannelSerializer, TRUE),
   DID |-> Kind(DIDParser, DIDSerializer, TRUE),
   MPTokenIssuance |-> Kind(MPTokenIssuanceParser, MPTokenIssuanceSerializer, TRUE),
   MPToken |-> Kind(MPTokenParser, MPTokenSerializer, TRUE),
   Offer |-> Kind(OfferParser, OfferSerializer, TRUE),
   Oracle |-> Kind(OracleParser, OracleSerializer, TRUE),
   RippleState |-> Kind(RippleStateParser, RippleStateSerializer, TRUE),
   FeeSettings |-> Kind(FeeSettingsParser, FeeSettingsSerializer, TRUE),
   NFTokenPage |-> Kind(NFTokenPageParser, NFTokenPageSerializer, TRUE),
   NFTokenOffer |-> Kind(NFTokenOfferParser, NFTokenOfferSerializer, FALSE),
   DirectoryNode |-> Kind(DirectoryParser, DirectorySerializer, TRUE),
   SignerList |-> Kind(SignerListParser, SignerListSerializer, FALSE),
   DepositPreauth |-> Kind(DepositPreauthParser, DepositPreauthSerializer, FALSE),
   Delegate |-> Kind(DelegateParser, DelegateSerializer, TRUE),
   PermissionedDomain |-> Kind(PermissionedDomainParser, PermissionedDomainSerializer, TRUE),
   Credential |-> Kind(CredentialParser, CredentialSerializer, TRUE)]

-----------------------------------------------------------------------------
(* field_metadata.go and the node builders of apply_state_table.go, by the *)
(* flags of a field: ChangeOrig, ChangeNew, DeleteFinal, Create by         *)
(* default.                                                                *)
ShouldMeta(f, flag) ==
  CASE f = "Indexes" -> FALSE
    [] f = "RootIndex" -> flag \in {"ChangeNew", "DeleteFinal", "Create"}
    [] f \in Threading -> flag = "DeleteFinal"
    [] OTHER -> TRUE

CreatedNode(cur) ==
  [NewFields |-> Restrict(cur, {f \in DOMAIN cur : ShouldMeta(f, "Create") /\ cur[f] # 0})]

(* A mutant: a field that was removed is not among the PreviousFields.     *)
PreviousFieldsStillThere(orig, cur) ==
  Restrict(orig, {f \in DOMAIN orig \cap DOMAIN cur :
                    ShouldMeta(f, "ChangeOrig") /\ orig[f] # cur[f]})

PreviousFields(orig, cur) ==
  Restrict(orig, {f \in DOMAIN orig :
                    /\ ShouldMeta(f, "ChangeOrig")
                    /\ f \in DOMAIN cur => orig[f] # cur[f]})

ModifiedNode(orig, cur) ==
  [PreviousFields |-> PreviousFields(orig, cur),
   FinalFields |-> Restrict(cur, {f \in DOMAIN cur : ShouldMeta(f, "ChangeNew")})]

DeletedNode(orig, cur) ==
  [PreviousFields |-> PreviousFields(orig, cur),
   FinalFields |-> Restrict(cur, {f \in DOMAIN cur : ShouldMeta(f, "DeleteFinal")})]

-----------------------------------------------------------------------------
VARIABLES kind,      \* the type of the entry followed
          bytes,     \* the entry as the view holds it; no field: no entry
          orig,      \* the entry as the ledger held it before this transaction
          asked,     \* a history variable: the value last asked for, by field
          misread,   \* a history variable: the entry was parsed wrongly once
          rewrites,  \* rewrites by this transaction
          txs        \* transactions applied

entryVars == <<kind, bytes, orig, asked, misread, rewrites, txs>>

(* What transactors set, written or not.                                   *)
EntryFields(k) ==
  LET s == Kinds[k].serializer
  IN  (s.always \cup s.optional \cup s.dropped) \ Threading

FieldValues(f) == {0, 1} \cup {b \in {LongBlob} : f \in LongFields}

NoEntry == << >>

EntryInit ==
  /\ kind \in EntryKinds
  /\ bytes = NoEntry /\ orig = NoEntry
  /\ asked = [f \in EntryFields(kind) |-> 0]
  /\ misread = FALSE
  /\ rewrites = 0
  /\ txs = 0

(* A transactor fills in a struct, at most one optional field of it, and   *)
(* serializes it.                                                          *)
CreateEntry(extra, v) ==
  /\ bytes = NoEntry
  /\ LET s == Kinds[kind].serializer
         struct == [f \in s.always \cup s.optional \cup s.dropped |->
                      IF f = extra THEN v ELSE IF f \in s.always \ Threading THEN 1 ELSE 0]
     IN  /\ bytes' = SerializeEntry(s, struct)
         /\ asked' = [f \in DOMAIN asked |-> struct[f]]
  /\ UNCHANGED <<kind, orig, misread, rewrites, txs>>

(* A transactor parses the entry, assigns one field, and serializes it; no *)
(* one assigns RootIndex, nor the fields that are dropped.                 *)
RewriteEntry(f, v) ==
  /\ bytes # NoEntry /\ Kinds[kind].rewritten /\ rewrites < MaxRewrites
  /\ f \notin {"RootIndex"} \cup Kinds[kind].serializer.dropped
  /\ LET k == Kinds[kind]
     IN  /\ \E read \in Parse(k.parser, bytes) :
              bytes' = SerializeEntry(k.serializer,
                                      (f :> v) @@ read @@ [g \in k.serializer.always |-> 0])
         /\ misread' = (misread \/ Misread(k.parser, bytes) # 10000)
  /\ asked' = [asked EXCEPT ![f] = v]
  /\ rewrites' = rewrites + 1
  /\ UNCHANGED <<kind, orig, txs>>

(* threadItem: the two threading fields are set in the bytes.              *)
ThreadedBytes == [f \in Threading |-> 1] @@ bytes

(* The transaction is applied: the metadata is built from orig and bytes.  *)
CommitEntry ==
  /\ bytes # orig /\ txs < MaxTxs
  /\ bytes' = ThreadedBytes /\ orig' = ThreadedBytes
  /\ rewrites' = 0
  /\ txs' = txs + 1
  /\ UNCHANGED <<kind, asked, misread>>

EntryNext ==
  \/ \E f \in EntryFields(kind) : \E v \in FieldValues(f) : CreateEntry(f, v) \/ RewriteEntry(f, v)
  \/ CommitEntry

EntrySpec == EntryInit /\ [][EntryNext]_entryVars

-----------------------------------------------------------------------------
ValueIn(b, f) == IF f \in DOMAIN b THEN b[f] ELSE 0

HoldsAsked(f, struct) ==
  ValueIn(bytes, f) = asked[f] /\ (f \in DOMAIN struct => struct[f] = asked[f])

(* What an entry is known to lose: every rewrite clears the Flags of a     *)
(* directory; SerializeLedgerOffer does not write where a hybrid offer     *)
(* stands in the open book; and ParseDID reads one byte of a length, so    *)
(* that a DID is lost from its first blob of more than 192 bytes on, and   *)
(* for good once a transactor has parsed it.                               *)
Losing(f) ==
  \/ kind = "DirectoryNode" /\ f = "Flags"
  \/ kind = "Offer" /\ f \in AdditionalBook
  \/ kind = "DID" /\ (misread \/ FieldCode[f] >= Misread(DIDParser, bytes))

(* Whatever its length and whichever fields stand before it, a field that  *)
(* a transactor set is in the ledger, and read back, as the last           *)
(* transaction that set it left it: no transactor that parses an entry,    *)
(* changes another field and serializes it loses or garbles it, and no     *)
(* field stops a parser before it, but for the three losses above.         *)
EntryKeepsFields ==
  bytes # NoEntry =>
    \A struct \in Parse(Kinds[kind].parser, bytes) :
      \A f \in EntryFields(kind) : HoldsAsked(f, struct) \/ Losing(f)

(* The metadata of a transaction tells what it did to an entry: a reader   *)
(* who has the entry as it is rebuilds the entry as it was from            *)
(* PreviousFields and FinalFields, removed fields included, and a          *)
(* CreatedNode that leaves out the defaults has every value.  Indexes and  *)
(* the threading fields are not in the metadata.                           *)
MetadataTellsTheChange ==
  LET told == (DOMAIN orig \cup DOMAIN bytes) \ (Threading \cup {"Indexes"})
      before(n, f) == IF f \in DOMAIN n.PreviousFields THEN n.PreviousFields[f]
                      ELSE ValueIn(n.FinalFields, f)
  IN  bytes # NoEntry =>
        IF orig = NoEntry
          THEN \A f \in told : ValueIn(CreatedNode(ThreadedBytes).NewFields, f) = bytes[f]
          ELSE \A n \in {ModifiedNode(orig, ThreadedBytes), DeletedNode(orig, bytes)} :
                 /\ \A f \in told : ValueIn(n.FinalFields, f) = ValueIn(bytes, f)
                 /\ \A f \in DOMAIN orig \cap told : before(n, f) = orig[f]

(* Nothing of an entry is lost on the way to the ledger and to those who   *)
(* read the metadata of its transactions.                                  *)
EntryFaithful == EntryKeepsFields /\ MetadataTellsTheChange
=============================================================================
