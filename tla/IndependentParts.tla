-------------------------- MODULE IndependentParts --------------------------
(***************************************************************************)
(* The parts of the library that share no state with each other, side by   *)
(* side: both rate limiters, the events a relay keeps, the reducers of     *)
(* groups, the cache of relay information, the simple client and bunker of *)
(* NIP-46, the collection of zap receipts, publishing through the Nostr    *)
(* class, the management of relays, and the conversions, which have no     *)
(* state and are given a sample.  Since no step of one can affect another, *)
(* a behaviour exercises a single part, chosen at the start, and leaves    *)
(* the rest as they begin.                                                 *)
(***************************************************************************)
EXTENDS RateLimiters, NostrFacade, RelayManagement, GroupState, RelayInfoCache, SimpleSigning,
        Nip57, UserEvents, GroupEvents, Nip66, Nip19

CONSTANT Samples  \* for each kind of conversion, what it is tried on

\* What the builders of events, of zaps and of direct messages are given.
EventSamples ==
  [make : {"note"}, content : Seq(STRING), secret : SecretKeys, tags : Seq(Seq(STRING))]
  \cup [make : {"message"}, content : Seq(STRING), to : PublicKeys, secret : SecretKeys,
        tags : Seq(Seq(STRING))]
  \cup [make : {"metadata"}, content : Seq(STRING), secret : SecretKeys]
  \cup [make : {"addressable"}, kind : Nat, d : STRING, content : Seq(STRING), secret : SecretKeys,
        tags : Seq(Seq(STRING))]
  \cup [make : {"event"}, kind : Nat, secret : SecretKeys, content : Seq(STRING),
        tags : Seq(Seq(STRING))]

ZapSamples ==
  [options : [recipientPubkey : STRING, relays : Seq(STRING), eventId : STRING, amount : Nat,
              lnurl : STRING, aTag : STRING, senderPubkey : STRING, content : Seq(STRING)],
   secret : SecretKeys, provider : SecretKeys]

RumorSamples ==
  [named : STRING, kind : Nat, secret : SecretKeys, receiver : SecretKeys, ephemeral : SecretKeys,
   sealKind : Nat, wrapKind : Nat]

\* What is encrypted, by whom and for whom, and who tries to read it.
SecretSamples ==
  [first : Seq(STRING) \ {<<>>}, second : Seq(STRING) \ {<<>>}, secret : SecretKeys,
   receiver : PublicKeys, reader : SecretKeys, writer : PublicKeys, version : Nat]

LegacySamples ==
  [text : Seq(STRING), secret : SecretKeys, receiver : PublicKeys, reader : SecretKeys,
   writer : PublicKeys, iv : [size : Nat]]

MessageSamples ==
  [message : Seq(STRING), secret : SecretKeys, receiver : PublicKeys, ephemeral : SecretKeys,
   reader : SecretKeys, offsets : [1 .. 3 -> 0 .. TwoDays]]

\* Two challenges and two spellings of relay URLs.
AuthSamples ==
  [challenge : STRING, otherChallenge : STRING, secret : SecretKeys,
   relayUrl : DOMAIN CanonicalUrl, otherUrl : DOMAIN CanonicalUrl]

SamplesOf(kind) == IF kind \in DOMAIN Samples THEN Samples[kind] ELSE {}

\* Times, and what normalizeRelayUrl promises of its results.
ASSUME ConversionAssumption ==
  /\ UnixTime \in Nat /\ Hour \in Nat /\ TenMinutes \in Nat \ {0} /\ TwoDays \in 0 .. UnixTime
  /\ \A secret \in SecretKeys : PublicKeyOf[secret] \in PublicKeys
  /\ \A url \in DOMAIN CanonicalUrl :
       /\ CanonicalUrl[url] # "" /\ CanonicalUrl[url] \in DOMAIN CanonicalUrl
       /\ CanonicalUrl[CanonicalUrl[url]] = CanonicalUrl[url]

\* Samples are typed, and what their properties are about exists.
ASSUME SamplesAssumption ==
  /\ \A s \in SamplesOf("event") :
       s \in EventSamples /\ createSignedEvent(Made(s), s.secret) # Refused
  /\ SamplesOf("zap") \subseteq ZapSamples
  /\ SamplesOf("rumor") \subseteq RumorSamples
  /\ SamplesOf("secret") \subseteq SecretSamples
  /\ SamplesOf("legacySecret") \subseteq LegacySamples
  /\ \A s \in SamplesOf("message") :
       s \in MessageSamples /\ PublicKeyOf[s.ephemeral] # PublicKeyOf[s.secret]
  /\ \A s \in SamplesOf("auth") :
       s \in AuthSamples /\ createAuthEventTemplate(s.challenge, s.relayUrl) # Refused

VARIABLES
  part,    \* which part this behaviour exercises
  sample   \* what a conversion is given

limiters == <<limiterVars, windowVars>>
groups == <<groupVars, infoVars>>
remote == <<simpleVars, zapVars>>
calls == <<facadeVars, managementVars>>

vars == <<now, limiters, storeVars, groups, remote, calls, part, sample>>

Parts == {"requestLimiter", "windowLimiter", "replaceableEvents", "addressableEvents", "groupState",
          "infoCache", "simpleSigning", "zapClient", "facade", "management"}
NoSample == "none"

Init ==
  /\ now = 0
  /\ LimiterInit /\ WindowInit /\ StoreInit /\ GroupInit /\ InfoInit /\ SimpleInit /\ ZapInit
  /\ FacadeInit /\ ManagementInit
  /\ \/ part \in Parts /\ sample = NoSample
     \/ part \in DOMAIN Samples /\ sample \in Samples[part]

Next ==
  /\ UNCHANGED <<part, sample>>
  /\ \/ /\ part = "requestLimiter"
        /\ LimiterNext
        /\ UNCHANGED <<windowVars, storeVars, groups, remote, calls>>
     \/ /\ part = "windowLimiter"
        /\ WindowNext
        /\ UNCHANGED <<limiterVars, storeVars, groups, remote, calls>>
     \/ /\ \/ part = "replaceableEvents" /\ ReplaceableNext
           \/ part = "addressableEvents" /\ AddressableNext
        /\ UNCHANGED <<limiters, groups, remote, calls>>
     \/ /\ part = "groupState"
        /\ GroupNext
        /\ UNCHANGED <<limiters, storeVars, infoVars, remote, calls>>
     \/ /\ part = "infoCache"
        /\ InfoNext
        /\ UNCHANGED <<limiters, storeVars, groupVars, remote, calls>>
     \/ /\ part = "simpleSigning"
        /\ SimpleNext
        /\ UNCHANGED <<now, limiters, storeVars, groups, zapVars, calls>>
     \/ /\ part = "zapClient"
        /\ ZapNext
        /\ UNCHANGED <<now, limiters, storeVars, groups, simpleVars, calls>>
     \/ /\ part = "facade"
        /\ FacadeNext
        /\ UNCHANGED <<now, limiters, storeVars, groups, remote, managementVars>>
     \/ /\ part = "management"
        /\ ManagementNext
        /\ UNCHANGED <<now, limiters, storeVars, groups, remote, facadeVars>>

Spec == Init /\ [][Next]_vars

-----------------------------------------------------------------------------
\* A call that is over has released what it held, succeeds only as its answers
\* warrant, and reports all of them: collecting zap receipts (nip57/client.ts),
\* publishing to every relay (nip01/nostr.ts), managing a relay (nip86/index.ts).
CallsEndCleanly == ZapsReleased /\ PublishIsAccounted /\ ManagementEnds

\* No event is accepted that differs from a signed one in a field or its signer,
\* no zap receipt counts whose parts do not belong together, and no direct
\* message is read under another author's name.
ForgeriesRefused ==
  /\ part = "event" => MadeIsUnforgeable(sample)
  /\ part = "zap" => ZapIsAttributed(sample.options, sample.secret, sample.provider)
  /\ part = "rumor" => RumorIsItsAuthors(sample.named, sample.kind, sample.secret, sample.receiver,
                                         sample.ephemeral, sample.sealKind, sample.wrapKind)

\* Each conversion followed by its inverse gives back what it was given, and
\* what a builder makes is accepted where the library validates it.
ConversionsReadBack ==
  CASE part = "reference" -> ReferenceReadsBack(sample.type, sample.data)
    [] part = "thread" -> ThreadReadsBack(sample.root, sample.reply, sample.quote, sample.plain)
    [] part = "plaintext" -> PlaintextReadsBack(sample)
    [] part = "event" -> MadeIsAccepted(sample)
    [] part = "contacts" -> ContactsReadBack(sample.tags, sample.secret)
    [] part = "relayList" -> RelayListReadsBack(sample.relays, sample.secret)
    [] part = "deletion" ->
         DeletionReadsBack(sample.ids, sample.addresses, sample.kinds, sample.secret, sample.event)
    [] part = "auth" ->
         AuthReadsBack(sample.challenge, sample.relayUrl, sample.secret,
                       sample.otherChallenge, sample.otherUrl)
    [] part = "report" -> ReportReadsBack(sample.targets, sample.content, sample.secret)
    [] part = "protection" -> ProtectionIsInherited(sample.parent, sample.tags)
    [] part = "zap" -> ZapReadsBack(sample.options, sample.secret, sample.provider)
    [] part = "split" -> SplitIsFair(sample.tags, sample.amount)
    [] part = "stats" -> StatsAddUp(sample.zaps, sample.provider)
    [] part = "invoice" ->
         InvoiceIsCovered(sample.options, sample.sender, sample.anonymous, sample.secret,
                          sample.metadata, sample.grants)
    [] part = "filter" -> FilterKeepsMeaning(sample.filter, sample.events, sample.query)
    [] part = "groupEvent" -> GroupEventReadsBack(sample)
    [] part = "discovery" -> DiscoveryReadsBack(sample.tags, sample.content, sample.secret)
    [] part = "announcement" -> AnnouncementReadsBack(sample.tags, sample.content, sample.secret)
    [] part = "bytes" -> BytesReadBack(sample.bytes, sample.other)
    [] part = "secret" ->
         SecretReadsBack(sample.first, sample.second, sample.secret, sample.receiver,
                         sample.reader, sample.writer, sample.version)
    [] part = "mac" -> ComparisonIsExact(sample.a, sample.b)
    [] part = "legacySecret" ->
         LegacyReadsBack(sample.text, sample.secret, sample.receiver, sample.reader, sample.writer,
                         sample.iv)
    [] part = "message" ->
         MessageReadsBack(sample.message, sample.secret, sample.receiver, sample.ephemeral,
                          sample.reader, sample.offsets)
    [] part = "merge" -> MergeIsNewest(sample.found, sample.addresses)
    [] part = "directMessage" ->
         DirectMessageReadsBack(sample.content, sample.recipient, sample.secret, sample.tags,
                                sample.reader)
    [] OTHER -> TRUE
=============================================================================
