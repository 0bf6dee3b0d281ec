------------------------------- MODULE Events -------------------------------
(***************************************************************************)
(* Events of NIP-01 (nip01/event.ts, validation.ts, serialization.ts and   *)
(* utils/crypto.ts): what the builders make, what signing adds, and what   *)
(* clients (validateRelayIngressEvent) and the ephemeral relay             *)
(* (validateEvent, validateNIP46Event) accept; and filters: what           *)
(* Nostr.subscribe lets through (validateFilter of the security            *)
(* validator), search (NIP-50), and how the ephemeral relay matches.       *)
(*                                                                         *)
(* A hash is the sequence that is hashed and a signature names its key and *)
(* what it signs, so two of them are equal only if their inputs are.       *)
(* Contents are sequences: <<>> is the empty text, <<t>> the text t, and   *)
(* longer ones are ciphertexts.  Tags are sequences of strings.  What the  *)
(* code decides by looking at characters is given by constants.            *)
(***************************************************************************)
EXTENDS Integers, Sequences, FiniteSets, SequencesExt

CONSTANTS
  Refused,        \* what a builder returns that throws
  HexStrings,     \* strings of 64 lowercase hexadecimal digits
  PublicKeys,     \* those of them that are points of the curve
  PublicKeyOf,    \* the public key of each valid private key
  WebSocketUrls,  \* strings isValidRelayUrl accepts
  LongTexts,      \* contents over MAX_CONTENT_SIZE, in characters or only in bytes
  LongElements,   \* strings over MAX_TAG_ELEMENT_SIZE
  JsonTexts,      \* contents that are JSON objects
  Coordinates,    \* strings <kind>:<pubkey>:<d>, as [kind, pubkey, d, parts]
  NumberOf,       \* the numbers that strings of digits denote
  LeadingNumberOf,  \* what parseInt makes of strings that begin with a number
  MAX_TAG_COUNT,
  UnixTime,       \* the time at which events are made
  Hour,           \* the default timestamp drift
  Unset,              \* the value of a field a filter does not have
  HexPrefixes,        \* hexadecimal strings of at most 64 digits, in any case
  TextsFound,         \* pairs of a text and a query it contains, in any case
  MAX_FILTER_VALUES,  \* how many ids, authors, kinds or terms a filter may have
  MAX_FILTER_COUNT,
  MaxKind,
  MIN_CREATED_AT, MAX_CREATED_AT,  \* of since and until
  MAX_LIMIT,
  LongQueries         \* strings over MAX_SEARCH_LENGTH

SecretKeys == DOMAIN PublicKeyOf

NostrKind == [Metadata |-> 0, ShortNote |-> 1, Contacts |-> 3, DirectMessage |-> 4, Deletion |-> 5]

Unsigned(pubkey, kind, tags, content, created_at) ==
  [pubkey |-> pubkey, kind |-> kind, tags |-> tags, content |-> content, created_at |-> created_at]

Decimal(number) == CHOOSE text \in DOMAIN NumberOf : NumberOf[text] = number

-----------------------------------------------------------------------------
\* Tags

\* The element at a position, "" where the tag ends before it.
Element(tag, position) == IF position <= Len(tag) THEN tag[position] ELSE ""

Array == INSTANCE Arrays

TagsNamed(tags, name) == Array!filter(tags, {tag \in Range(tags) : tag # <<>> /\ tag[1] = name})

getTagValues(event, name) ==
  FlattenSeq([i \in DOMAIN TagsNamed(event.tags, name) |-> Tail(TagsNamed(event.tags, name)[i])])

\* The first tag of that name decides, even if it has no such element.
getTagValue(event, name, index) ==
  LET found == TagsNamed(event.tags, name)
  IN  IF found # <<>> /\ index + 2 <= Len(found[1]) THEN found[1][index + 2] ELSE ""

\* validateTags of the security validator: at most so many tags, of bounded elements.
validateTags(tags) ==
  /\ Len(tags) <= MAX_TAG_COUNT
  /\ \A i \in DOMAIN tags : Range(tags[i]) \cap LongElements = {}

validateEventContent(content) == content \notin LongTexts

-----------------------------------------------------------------------------
\* Builders

createEvent(template, pubkey) ==
  IF pubkey \notin PublicKeys THEN Refused
  ELSE Unsigned(pubkey, template.kind, template.tags, template.content,
                IF template.created_at = 0 THEN UnixTime ELSE template.created_at)

createTextNote(content, secret, tags) ==
  IF \/ content = <<>> \/ ~validateEventContent(content) \/ ~validateTags(tags)
     \/ secret \notin SecretKeys
  THEN Refused
  ELSE Unsigned(PublicKeyOf[secret], NostrKind.ShortNote, tags, content, UnixTime)

\* NIP-04: only the two keys give the key of the cipher.
Cipher(scheme, secret, pubkey, content) == <<scheme, {PublicKeyOf[secret], pubkey}, content>>

createDirectMessage(content, recipient, secret, tags) ==
  IF \/ content = <<>> \/ recipient \notin PublicKeys \/ secret \notin SecretKeys
     \/ ~validateEventContent(content) \/ ~validateTags(tags)
  THEN Refused
  ELSE Unsigned(PublicKeyOf[secret], NostrKind.DirectMessage, <<<<"p", recipient>>>> \o tags,
                Cipher("nip04", secret, recipient, content), UnixTime)

createMetadataEvent(metadata, secret) ==
  IF secret \notin SecretKeys THEN Refused
  ELSE Unsigned(PublicKeyOf[secret], NostrKind.Metadata, <<>>, metadata, UnixTime)

createAddressableEvent(kind, d, content, secret, tags) ==
  IF \/ kind \notin 30000 .. 39999 \/ d \in LongElements
     \/ ~validateEventContent(content) \/ ~validateTags(tags) \/ secret \notin SecretKeys
  THEN Refused
  ELSE Unsigned(PublicKeyOf[secret], kind, <<<<"d", d>>>> \o tags, content, UnixTime)

-----------------------------------------------------------------------------
\* Hashes and signatures

calculateEventHash(event) ==
  <<0, event.pubkey, event.created_at, event.kind, event.tags, event.content>>

signEvent(id, secret) == <<PublicKeyOf[secret], id>>

verifySignature(id, sig, pubkey) == sig = <<pubkey, id>>

\* The checks of every event, signed or not.
validateNostrEventPayload(event, kindRange) ==
  /\ event.pubkey \in PublicKeys
  /\ kindRange => event.kind \in 0 .. 65535
  /\ event.created_at >= 0
  /\ \A i \in DOMAIN event.tags : event.tags[i] # <<>>

\* The signature is by the given key, whoever the event says its author is.
createSignedEvent(event, secret) ==
  IF secret \notin SecretKeys \/ event = Refused THEN Refused
  ELSE IF ~validateNostrEventPayload(event, FALSE) THEN Refused
  ELSE LET id == calculateEventHash(event)
       IN  [pubkey |-> event.pubkey, kind |-> event.kind, tags |-> event.tags,
            content |-> event.content, created_at |-> event.created_at,
            id |-> id, sig |-> signEvent(id, secret)]

-----------------------------------------------------------------------------
\* Validation

\* Mutant: the signature is checked, but not that the id is of this event.
IdAndSignatureUnhashed(event) == verifySignature(event.id, event.sig, event.pubkey)

IdAndSignature(event) ==
  /\ event.id = calculateEventHash(event)
  /\ verifySignature(event.id, event.sig, event.pubkey)

\* A drift of 0 allows any time.
\* Mutant: the limit itself is too far.
DriftedTo(value, limit) == limit > 0 /\ value >= limit

Drifted(value, limit) == limit > 0 /\ value > limit

\* A contact list: points, websocket URLs or none, at most four elements.
ContactTag(tag) ==
  /\ Len(tag) \in 2 .. 4
  /\ tag[2] \in PublicKeys
  /\ Len(tag) > 2 => tag[3] \in WebSocketUrls \cup {""}

ContentOfKind(event) ==
  CASE event.kind = NostrKind.Metadata -> event.content \in JsonTexts
    [] event.kind = NostrKind.Contacts ->
         \A i \in DOMAIN event.tags : event.tags[i][1] = "p" => ContactTag(event.tags[i])
    [] event.kind = NostrKind.DirectMessage ->
         LET receivers == TagsNamed(event.tags, "p")
         IN  Len(receivers) = 1 /\ Len(receivers[1]) > 1 /\ receivers[1][2] \in PublicKeys
    [] OTHER -> TRUE

validateEventWithin(event, at, drift) ==
  /\ validateNostrEventPayload(event, FALSE)
  /\ ~Drifted(at - event.created_at, drift) /\ ~Drifted(event.created_at - at, drift)
  /\ IdAndSignature(event)
  /\ ContentOfKind(event)

validateEvent(event, at) == validateEventWithin(event, at, Hour)

\* Tags that refer to an event, to a pubkey, or to an address of three parts.
validateRelayTagReference(tag) ==
  CASE tag[1] \in {"e", "p"} -> Len(tag) > 1 /\ tag[2] \in HexStrings
    [] tag[1] = "a" ->
         /\ Len(tag) > 1 /\ tag[2] \in DOMAIN Coordinates
         /\ Coordinates[tag[2]].parts = 3
         /\ Coordinates[tag[2]].pubkey \in HexStrings
    [] OTHER -> TRUE

REMOTE_SIGNING == 24133

validateNip46RelayIngress(event) ==
  event.kind = REMOTE_SIGNING =>
    \E i \in DOMAIN event.tags :
      event.tags[i][1] = "p" /\ Len(event.tags[i]) > 1 /\ event.tags[i][2] \in HexStrings

validateRelayIngressEvent(event, at) ==
  /\ validateNostrEventPayload(event, TRUE)
  /\ ~Drifted(event.created_at - at, Hour)
  /\ IdAndSignature(event)
  /\ \A i \in DOMAIN event.tags : validateRelayTagReference(event.tags[i])
  /\ validateNip46RelayIngress(event)

\* The ephemeral relay wants a recipient that is a point.
validateNIP46Event(event, at) ==
  /\ event.created_at # 0
  /\ \E i \in DOMAIN event.tags :
       event.tags[i][1] = "p" /\ Len(event.tags[i]) > 1 /\ event.tags[i][2] \in PublicKeys
  /\ validateEvent(event, at)

RelayAccepts(event, at) ==
  IF event.kind = REMOTE_SIGNING THEN validateNIP46Event(event, at) ELSE validateEvent(event, at)

-----------------------------------------------------------------------------
\* What was made and signed with the author's key is accepted by the relay and
\* by the clients it reaches, for an hour and at once.
Accepted(event) ==
  /\ event # Refused
  /\ \A at \in {UnixTime - Hour, UnixTime, UnixTime + Hour} :
       RelayAccepts(event, at) /\ validateRelayIngressEvent(event, at)

\* Every event that differs from a signed one in a single field.
Altered(event) ==
  {[event EXCEPT !.pubkey = p] : p \in PublicKeys \ {event.pubkey}}
  \cup {[event EXCEPT !.created_at = @ + 1], [event EXCEPT !.kind = @ + 1],
        [event EXCEPT !.tags = Append(@, <<"t", "x">>)],
        [event EXCEPT !.content = Append(@, "x")],
        [event EXCEPT !.sig = <<@[1], Append(@[2], 1)>>]}
  \cup {[event EXCEPT !.tags = RemoveAt(@, i)] : i \in DOMAIN event.tags}
  \cup {[event EXCEPT !.sig = signEvent(event.id, s)] :
          s \in {k \in SecretKeys : PublicKeyOf[k] # event.pubkey}}

Unforgeable(event) ==
  \A forged \in Altered(event) :
    ~RelayAccepts(forged, UnixTime) /\ ~validateRelayIngressEvent(forged, UnixTime)

\* A sample: what a builder is given, and the key that signs.
Made(s) ==
  CASE s.make = "note" -> createTextNote(s.content, s.secret, s.tags)
    [] s.make = "message" -> createDirectMessage(s.content, s.to, s.secret, s.tags)
    [] s.make = "metadata" -> createMetadataEvent(s.content, s.secret)
    [] s.make = "addressable" -> createAddressableEvent(s.kind, s.d, s.content, s.secret, s.tags)
    [] s.make = "event" -> createEvent([kind |-> s.kind, tags |-> s.tags, content |-> s.content,
                                        created_at |-> 0], PublicKeyOf[s.secret])

-----------------------------------------------------------------------------
\* What is made from a sample and signed by its author is accepted, and nothing
\* that differs from it in one field or in its signer is.
MadeIsAccepted(s) == Accepted(createSignedEvent(Made(s), s.secret))

MadeIsUnforgeable(s) == Unforgeable(createSignedEvent(Made(s), s.secret))

-----------------------------------------------------------------------------
\* Filters: every field Unset, or a sequence, number or text.  tags maps the names
\* after "#" to sequences of terms.

EmptyFilter == [ids |-> Unset, authors |-> Unset, kinds |-> Unset, since |-> Unset, until |-> Unset,
                limit |-> Unset, search |-> Unset, tags |-> <<>>]

\* A list of values of which each is acceptable.
ListOf(list, Ok(_)) ==
  list # Unset => Len(list) <= MAX_FILTER_VALUES /\ \A i \in DOMAIN list : Ok(list[i])

NumberIn(number, from, to) == number # Unset => number \in from .. to

\* Tag names are single letters; other keys are dropped.
TagLetters(filter) == {name \in DOMAIN filter.tags : Len(name) = 1}

ValidFilter(filter) ==
  /\ ListOf(filter.ids, LAMBDA id : id \in HexPrefixes)
  /\ ListOf(filter.authors, LAMBDA author : author \in HexPrefixes)
  /\ ListOf(filter.kinds, LAMBDA kind : kind \in 0 .. MaxKind)
  /\ NumberIn(filter.limit, 0, MAX_LIMIT)
  /\ NumberIn(filter.since, MIN_CREATED_AT, MAX_CREATED_AT)
  /\ NumberIn(filter.until, MIN_CREATED_AT, MAX_CREATED_AT)
  /\ filter.since # Unset /\ filter.until # Unset => filter.since < filter.until
  /\ filter.search # Unset => filter.search \notin LongQueries
  /\ \A name \in TagLetters(filter) :
       ListOf(filter.tags[name], LAMBDA term : term \notin LongElements)

\* Mutant: tag terms are checked but not copied.
validateFilterUntagged(filter) ==
  IF ~ValidFilter(filter) THEN Refused ELSE [filter EXCEPT !.tags = <<>>]

validateFilter(filter) ==
  IF ~ValidFilter(filter) THEN Refused
  ELSE [filter EXCEPT !.tags = [name \in TagLetters(filter) |-> filter.tags[name]]]

validateFilters(filters) ==
  IF Len(filters) > MAX_FILTER_COUNT \/ \E i \in DOMAIN filters : ~ValidFilter(filters[i])
  THEN Refused
  ELSE [i \in DOMAIN filters |-> validateFilter(filters[i])]

\* NIP-50
createSearchFilter(query, other) ==
  IF query = "" THEN Refused ELSE [other EXCEPT !.search = query]

-----------------------------------------------------------------------------
\* Matching

\* Any value of a tag counts, and no terms at all ask for nothing.
match_tags(filter, tags) ==
  \A name \in DOMAIN filter.tags :
    \/ filter.tags[name] = <<>>
    \/ \E i \in DOMAIN tags :
         /\ tags[i] # <<>> /\ tags[i][1] = name
         /\ Range(Tail(tags[i])) \cap Range(filter.tags[name]) # {}

Among(list, value) == list # Unset => value \in Range(list)

MatchesSearch(event, search) ==
  \/ search = Unset \/ search = ""
  \/ \E text \in {IF event.content = <<>> THEN "" ELSE event.content[1]}
                   \cup UNION {Range(event.tags[i]) : i \in DOMAIN event.tags} :
       <<text, search>> \in TextsFound

\* Mutant: a search that is found makes the tags irrelevant.
match_filterSearchOnly(event, filter) ==
  /\ Among(filter.ids, event.id)
  /\ filter.since # Unset => event.created_at >= filter.since
  /\ filter.until # Unset => event.created_at <= filter.until
  /\ Among(filter.authors, event.pubkey)
  /\ Among(filter.kinds, event.kind)
  /\ IF filter.search \in {Unset, ""} THEN match_tags(filter, event.tags)
     ELSE MatchesSearch(event, filter.search)

match_filter(event, filter) ==
  /\ Among(filter.ids, event.id)
  /\ filter.since # Unset => event.created_at >= filter.since
  /\ filter.until # Unset => event.created_at <= filter.until
  /\ Among(filter.authors, event.pubkey)
  /\ Among(filter.kinds, event.kind)
  /\ MatchesSearch(event, filter.search)
  /\ match_tags(filter, event.tags)

Matching(events, filter) == SelectSeq(events, LAMBDA event : match_filter(event, filter))

-----------------------------------------------------------------------------
\* What a client may ask of the relay means what it says: a filter keeps its
\* meaning through the validation, all conditions count, and adding a condition
\* never adds an event.
FilterKeepsMeaning(filter, events, query) ==
  LET validated == validateFilters(<<filter>>)
      searching == createSearchFilter(query, filter)
      dropped(condition) ==
        [filter EXCEPT ![condition] = IF condition = "tags" THEN <<>> ELSE Unset]
  IN  validated # Refused =>
        /\ DOMAIN filter.tags = TagLetters(filter) =>
             Matching(events, validated[1]) = Matching(events, filter)
        /\ \A condition \in DOMAIN EmptyFilter :
             Range(Matching(events, filter)) \subseteq Range(Matching(events, dropped(condition)))
        /\ searching # Refused =>
             Range(Matching(events, searching)) \subseteq Range(Matching(events, [filter EXCEPT !.search = Unset]))
=============================================================================
