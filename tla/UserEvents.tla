------------------------------ MODULE UserEvents ------------------------------
(*****************************************************************************)
(* What users tell relays and each other about themselves, as events:        *)
(* contact lists (NIP-02), deletion requests (NIP-09), authentication        *)
(* (NIP-42), reports (NIP-56), relay lists (NIP-65) and the protected tag    *)
(* (NIP-70), each with a builder and a parser; and the "e" tags by which a   *)
(* reply refers to its thread (NIP-10), with markers or, in old events, by   *)
(* position.  A missing column of a thread tag and an empty one are both     *)
(* "".                                                                       *)
(*****************************************************************************)
EXTENDS Events

CONSTANTS
  CanonicalUrl,  \* normalizeRelayUrl, on the ws and wss URLs it does not throw for
  BlankTexts,    \* strings of spaces
  LowercaseOf,   \* the lowercase form of keys written in uppercase
  TenMinutes     \* how old or early an AUTH event may be

Trims(text) == text \notin BlankTexts

Lowercase(key) == IF key \in DOMAIN LowercaseOf THEN LowercaseOf[key] ELSE key

TagsOf(input, Tag(_)) == [i \in DOMAIN input |-> Tag(input[i])]

-----------------------------------------------------------------------------
\* NIP-02: contacts are [pubkey, relayUrl, petname], the last two possibly "".

\* Mutant: no empty column stands for a missing relay before a petname.
ContactToTagCompact(contact) ==
  <<"p", contact.pubkey>>
    \o (IF contact.relayUrl # "" THEN <<contact.relayUrl>> ELSE <<>>)
    \o (IF contact.petname # "" THEN <<contact.petname>> ELSE <<>>)

ContactToTag(contact) ==
  <<"p", contact.pubkey>>
    \o (IF contact.relayUrl # "" \/ contact.petname # "" THEN <<contact.relayUrl>> ELSE <<>>)
    \o (IF contact.petname # "" THEN <<contact.petname>> ELSE <<>>)

createContactListEvent(contacts, existingContent) ==
  [kind |-> NostrKind.Contacts, tags |-> TagsOf(contacts, ContactToTag), content |-> existingContent,
   created_at |-> UnixTime]

RelayOfContact(text) == IF text \in DOMAIN CanonicalUrl THEN CanonicalUrl[text] ELSE ""

\* One tag after another; a tag that is no contact leaves a warning, and a
\* contact whose relay is not taken leaves one too.
ReadContact(parsed, tag) ==
  LET pubkey == Lowercase(Element(tag, 2))
      relay == Element(tag, 3)
      warned(type) == [parsed EXCEPT !.warnings = Append(@, type)]
  IN  CASE tag = <<>> -> warned("invalid_pubkey")
        [] tag # <<>> /\ tag[1] # "p" -> parsed
        [] tag # <<>> /\ tag[1] = "p" /\ pubkey \notin PublicKeys -> warned("invalid_pubkey")
        [] OTHER ->
             IF \E i \in DOMAIN parsed.contacts : parsed.contacts[i].pubkey = pubkey
             THEN warned("duplicate_pubkey")
             ELSE [contacts |-> Append(parsed.contacts,
                                       [pubkey |-> pubkey, relayUrl |-> RelayOfContact(relay),
                                        petname |-> Element(tag, 4)]),
                   warnings |-> IF Trims(relay) /\ RelayOfContact(relay) = ""
                                THEN Append(parsed.warnings, "invalid_relay_url")
                                ELSE parsed.warnings]

parseContactsFromEvent(event) ==
  FoldLeft(ReadContact, [contacts |-> <<>>, warnings |-> <<>>], event.tags)

\* A contact list that was read from any tags can be published as it was read:
\* it is accepted, and reads the same without a warning.  No tag of a contact is
\* dropped silently.
ContactsReadBack(tags, secret) ==
  LET first == parseContactsFromEvent([tags |-> tags])
      event == createContactListEvent(first.contacts, <<>>)
      signed == createSignedEvent(createEvent(event, PublicKeyOf[secret]), secret)
      skipped == SelectSeq(first.warnings, LAMBDA type : type # "invalid_relay_url")
  IN  /\ parseContactsFromEvent(signed) = [contacts |-> first.contacts, warnings |-> <<>>]
      /\ Accepted(signed)
      /\ Len(first.contacts) + Len(skipped)
           = Len(SelectSeq(tags, LAMBDA tag : tag = <<>> \/ tag[1] = "p"))

-----------------------------------------------------------------------------
\* NIP-65: entries are [url, read, write].

RELAY_LIST_KIND == 10002

\* Mutant: the markers are swapped.
RelayToTagSwapped(entry) ==
  <<"r", entry.url>> \o (CASE entry.read /\ ~entry.write -> <<"write">>
                           [] entry.write /\ ~entry.read -> <<"read">>
                           [] OTHER -> <<>>)

RelayToTag(entry) ==
  <<"r", entry.url>> \o (CASE entry.read /\ ~entry.write -> <<"read">>
                           [] entry.write /\ ~entry.read -> <<"write">>
                           [] OTHER -> <<>>)

Listed(entry) == entry.url \in WebSocketUrls /\ (entry.read \/ entry.write)

createRelayListEvent(relays) ==
  [kind |-> RELAY_LIST_KIND, tags |-> TagsOf(SelectSeq(relays, Listed), RelayToTag),
   content |-> <<>>, created_at |-> UnixTime]

\* Any other marker means both.
TagToRelay(tag) ==
  [url |-> tag[2], read |-> Element(tag, 3) # "write", write |-> Element(tag, 3) # "read"]

parseRelayList(event) ==
  TagsOf(SelectSeq(event.tags, LAMBDA tag : Len(tag) > 1 /\ tag[1] = "r" /\ Trims(tag[2])), TagToRelay)

UrlsOf(entries) == [i \in DOMAIN entries |-> entries[i].url]

getReadRelays(event) == UrlsOf(SelectSeq(parseRelayList(event), LAMBDA entry : entry.read))

getWriteRelays(event) == UrlsOf(SelectSeq(parseRelayList(event), LAMBDA entry : entry.write))

\* A published relay list names the relays its author reads from and writes to,
\* for each purpose, but those with an unusable URL.
RelayListReadsBack(relays, secret) ==
  LET signed == createSignedEvent(createEvent(createRelayListEvent(relays), PublicKeyOf[secret]), secret)
      usable == SelectSeq(relays, LAMBDA entry : entry.url \in WebSocketUrls)
  IN  /\ Accepted(signed)
      /\ getReadRelays(signed) = UrlsOf(SelectSeq(usable, LAMBDA entry : entry.read))
      /\ getWriteRelays(signed) = UrlsOf(SelectSeq(usable, LAMBDA entry : entry.write))

-----------------------------------------------------------------------------
\* NIP-09: ids, addresses and kinds to delete.

IdToTag(id) == <<"e", id>>
AddressToTag(address) == <<"a", address>>
KindToTag(kind) == <<"k", Decimal(kind)>>

createDeletionRequest(ids, addresses, kinds, pubkey) ==
  createEvent([kind |-> NostrKind.Deletion, content |-> <<>>, created_at |-> 0,
               tags |-> TagsOf(ids, IdToTag) \o TagsOf(addresses, AddressToTag)
                          \o TagsOf(kinds, KindToTag)], pubkey)

\* A tag without a value is skipped, and so is a kind that is no number.
TargetsOf(event, name) ==
  [i \in DOMAIN SelectSeq(TagsNamed(event.tags, name), LAMBDA tag : Element(tag, 2) # "") |->
     SelectSeq(TagsNamed(event.tags, name), LAMBDA tag : Element(tag, 2) # "")[i][2]]

parseDeletionTargets(event) ==
  LET numbers == SelectSeq(TargetsOf(event, "k"), LAMBDA text : text \in DOMAIN NumberOf)
  IN  [ids |-> TargetsOf(event, "e"), addresses |-> TargetsOf(event, "a"),
       kinds |-> [i \in DOMAIN numbers |-> NumberOf[numbers[i]]]]

\* An address refers to an event through its first d tag, if that has a value.
AddressRefersTo(address, event) ==
  /\ address \in DOMAIN Coordinates
  /\ Coordinates[address].kind = event.kind
  /\ Coordinates[address].pubkey = event.pubkey
  /\ Coordinates[address].d = getTagValue(event, "d", 0)
  /\ getTagValue(event, "d", 0) # ""

\* Mutant: anybody may delete.
isDeletionRequestByAnyone(deletion, event) ==
  LET targets == parseDeletionTargets(deletion)
  IN  /\ deletion.kind = NostrKind.Deletion
      /\ \/ event.id \in Range(targets.ids)
         \/ \E address \in Range(targets.addresses) : AddressRefersTo(address, event)

isDeletionRequestForEvent(deletion, event) ==
  LET targets == parseDeletionTargets(deletion)
  IN  /\ deletion.kind = NostrKind.Deletion
      /\ deletion.pubkey = event.pubkey
      /\ \/ event.id \in Range(targets.ids)
         \/ \E address \in Range(targets.addresses) : AddressRefersTo(address, event)

\* A request is accepted, names what it was made for, and is a request for an
\* event exactly if its author wrote the event and listed its id or address.
DeletionReadsBack(ids, addresses, kinds, secret, event) ==
  LET request == createDeletionRequest(ids, addresses, kinds, PublicKeyOf[secret])
      signed == createSignedEvent(request, secret)
  IN  /\ Accepted(signed)
      /\ parseDeletionTargets(signed) = [ids |-> ids, addresses |-> addresses, kinds |-> kinds]
      /\ isDeletionRequestForEvent(signed, event) <=>
           /\ event.pubkey = PublicKeyOf[secret]
           /\ \/ event.id \in Range(ids)
              \/ \E a \in Range(addresses) : AddressRefersTo(a, event)

-----------------------------------------------------------------------------
\* NIP-42: the answer to a relay's challenge.

AUTH_EVENT_KIND == 22242

createAuthEventTemplate(challenge, relayUrl) ==
  IF challenge = "" \/ challenge \in LongElements \/ relayUrl \notin DOMAIN CanonicalUrl THEN Refused
  ELSE [kind |-> AUTH_EVENT_KIND, content |-> <<>>,
        tags |-> <<<<"relay", CanonicalUrl[relayUrl]>>, <<"challenge", challenge>>>>]

createSignedAuthEvent(challenge, relayUrl, secret) ==
  LET template == createAuthEventTemplate(challenge, relayUrl)
  IN  IF template = Refused THEN Refused
      ELSE createSignedEvent(Unsigned(PublicKeyOf[secret], template.kind, template.tags,
                                      template.content, UnixTime), secret)

isAuthEvent(event) ==
  /\ event.kind = AUTH_EVENT_KIND /\ event.content = <<>>
  /\ getTagValue(event, "relay", 0) # "" /\ getTagValue(event, "challenge", 0) # ""

\* Mutant: any relay will do.
validateAuthEventAnywhere(event, challenge, relayUrl, at) ==
  /\ isAuthEvent(event)
  /\ validateEventWithin(event, at, TenMinutes)
  /\ getTagValue(event, "challenge", 0) = challenge

validateAuthEvent(event, challenge, relayUrl, at) ==
  /\ isAuthEvent(event)
  /\ validateEventWithin(event, at, TenMinutes)
  /\ {getTagValue(event, "relay", 0), relayUrl} \subseteq DOMAIN CanonicalUrl
  /\ CanonicalUrl[getTagValue(event, "relay", 0)] = CanonicalUrl[relayUrl]
  /\ getTagValue(event, "challenge", 0) = challenge

\* An answer authenticates to the relay that sent the challenge, under whatever
\* spelling of its URL, for ten minutes; to no other relay and challenge.
AuthReadsBack(challenge, relayUrl, secret, otherChallenge, otherUrl) ==
  LET event == createSignedAuthEvent(challenge, relayUrl, secret)
  IN  /\ Accepted(event)
      /\ \A at \in {UnixTime + TenMinutes, UnixTime + TenMinutes + 1} :
           validateAuthEvent(event, otherChallenge, otherUrl, at) <=>
             /\ challenge = otherChallenge
             /\ CanonicalUrl[relayUrl] = CanonicalUrl[otherUrl]
             /\ at <= UnixTime + TenMinutes

-----------------------------------------------------------------------------
\* NIP-56: targets are [type, value, reportType, pubkey, eventId, server]; the
\* pubkey belongs to an "e" target, eventId and server, possibly "", to an "x".

REPORT_KIND == 1984
REPORT_TYPES == {"nudity", "malware", "profanity", "illegal", "spam", "impersonation", "other"}

Reportable(target) ==
  /\ target.type \in {"p", "e", "x"} /\ target.reportType \in REPORT_TYPES
  /\ {target.value, target.pubkey, target.eventId, target.server} \cap LongElements = {}

ReportTags(target) ==
  <<<<target.type, target.value, target.reportType>>>>
    \o (IF target.type = "e" THEN <<<<"p", target.pubkey>>>> ELSE <<>>)
    \o (IF target.type = "x" /\ target.eventId # ""
        THEN <<<<"e", target.eventId, target.reportType>>>> ELSE <<>>)
    \o (IF target.type = "x" /\ target.server # "" THEN <<<<"server", target.server>>>> ELSE <<>>)

createReportEvent(targets, content) ==
  IF targets = <<>> \/ content \in LongTexts \/ (\E i \in DOMAIN targets : ~Reportable(targets[i]))
  THEN Refused
  ELSE [kind |-> REPORT_KIND, content |-> content, created_at |-> 0,
        tags |-> FlattenSeq([i \in DOMAIN targets |-> ReportTags(targets[i])])]

\* A "p" tag is a target only if it says what it is reported for.
\* Mutant: every "p" tag is.
IsTargetOfAnyKind(tag) == Len(tag) > 1 /\ tag[1] \in {"p", "e", "x"}

IsTarget(tag) == Len(tag) > 1 /\ tag[1] \in {"p", "e", "x"} /\ (tag[1] = "p" => Len(tag) > 2)

getReportTargets(event) ==
  LET tags == SelectSeq(event.tags, IsTarget)
  IN  [i \in DOMAIN tags |-> [type |-> tags[i][1], value |-> tags[i][2], reportType |-> Element(tags[i], 3)]]

parseReportEvent(event) ==
  [content |-> event.content, targets |-> getReportTargets(event),
   serverUrls |-> TargetsOf(event, "server")]

\* A report tells what was reported, for what, and where files are: the author
\* of a reported event is not reported, and the event a file is in is.
ReportReadsBack(targets, content, secret) ==
  LET signed == createSignedEvent(createEvent(createReportEvent(targets, content), PublicKeyOf[secret]), secret)
      reported(t) == <<[type |-> t.type, value |-> t.value, reportType |-> t.reportType]>>
      \o (IF t.type = "x" /\ t.eventId # ""
          THEN <<[type |-> "e", value |-> t.eventId, reportType |-> t.reportType]>> ELSE <<>>)
      served == SelectSeq(targets, LAMBDA t : t.type = "x" /\ t.server # "")
  IN  /\ Accepted(signed)
      /\ parseReportEvent(signed) =
           [content |-> content,
            targets |-> FlattenSeq([i \in DOMAIN targets |-> reported(targets[i])]),
            serverUrls |-> [i \in DOMAIN served |-> served[i].server]]

-----------------------------------------------------------------------------
\* NIP-70: only the tag ["-"] protects an event.

hasProtectedTag(tags) == \E i \in DOMAIN tags : tags[i] = <<"-">>

withProtectedTag(tags) == IF hasProtectedTag(tags) THEN tags ELSE Append(tags, <<"-">>)

inheritProtectedTag(parent, tags) == IF hasProtectedTag(parent) THEN withProtectedTag(tags) ELSE tags

\* What refers to a protected event is protected once, and nothing else is.
ProtectionIsInherited(parent, tags) ==
  LET inherited == inheritProtectedTag(parent, tags)
  IN  /\ hasProtectedTag(inherited) <=> hasProtectedTag(parent) \/ hasProtectedTag(tags)
      /\ inheritProtectedTag(parent, inherited) = inherited

-----------------------------------------------------------------------------
\* NIP-10: the references of a reply to its thread (src/src/nip10/index.ts).

NoPointer == [id |-> "", relay |-> "", pubkey |-> ""]

Column(tag, i) == IF i <= Len(tag) THEN tag[i] ELSE ""

\* Mutant: a pointer without a relay leaves the column out.
MarkedTagCompact(pointer, marker) ==
  <<"e", pointer.id>> \o (IF pointer.relay = "" THEN <<>> ELSE <<pointer.relay>>) \o <<marker>>
    \o (IF pointer.pubkey = "" THEN <<>> ELSE <<pointer.pubkey>>)

MarkedTag(pointer, marker) ==
  <<"e", pointer.id, pointer.relay, marker>>
    \o (IF pointer.pubkey = "" THEN <<>> ELSE <<pointer.pubkey>>)

createReplyTags(root, reply) ==
  <<MarkedTag(root, "root")>>
    \o (IF reply = NoPointer THEN <<>> ELSE <<MarkedTag(reply, "reply")>>)

createQuoteTag(pointer) == MarkedTag(pointer, "mention")

Pointer(tag) == [id |-> tag[2], relay |-> Column(tag, 3), pubkey |-> Column(tag, 5)]

\* The pointers of the tags whose marker is in the set, in order.
Marked(tags, markers) ==
  LET own == SelectSeq(tags, LAMBDA t : Column(t, 4) \in markers)
  IN [i \in DOMAIN own |-> Pointer(own[i])]

LastOf(pointers) == IF pointers = <<>> THEN NoPointer ELSE pointers[Len(pointers)]

parseThreadReferences(tags) ==
  LET eTags == SelectSeq(tags, LAMBDA t : Column(t, 1) = "e" /\ Column(t, 2) # "")
      others == {Column(eTags[i], 4) : i \in DOMAIN eTags} \ {"root", "reply", "mention"}
      unmarked == Marked(eTags, others)
      n == Len(unmarked)
      root == LastOf(Marked(eTags, {"root"}))
      reply == LastOf(Marked(eTags, {"reply"}))
      positional == root = NoPointer /\ reply = NoPointer /\ n > 0
  IN [root |-> IF positional /\ n > 1 THEN unmarked[1] ELSE root,
      reply |-> IF positional THEN unmarked[n] ELSE reply,
      mentions |-> IF positional THEN SubSeq(unmarked, 2, n - 1) ELSE unmarked,
      quotes |-> Marked(eTags, {"mention"})]

-----------------------------------------------------------------------------
\* The root, the parent and a quote that a reply is built from are found in its
\* tags, whichever columns are empty, and a plain tag beside them is a mention.
ThreadReadsBack(root, reply, quote, plain) ==
  parseThreadReferences(createReplyTags(root, reply) \o <<createQuoteTag(quote), <<"e", plain.id>>>>)
    = [root |-> root, reply |-> reply, quotes |-> <<quote>>,
       mentions |-> <<[NoPointer EXCEPT !.id = plain.id]>>]
===============================================================================
