-------------------------------- MODULE Nip66 --------------------------------
(***************************************************************************)
(* Relay discovery and monitor announcements (src/src/nip66/index.ts): the *)
(* two builders, which validate what they are given, and the two parsers,  *)
(* which read any event of their kind.                                     *)
(*                                                                         *)
(* Numbers that are given or read as text are texts here: NumberOf gives   *)
(* the numbers of digits alone, LeadingNumberOf what parseInt makes of a   *)
(* text.  Options have every field; Unset is one not given.                *)
(***************************************************************************)
EXTENDS UserEvents, TLC

CONSTANTS
  FractionTexts,    \* texts of numbers that are no integers
  Geohashes,        \* alphanumeric strings of at most 12 characters
  MAX_FREQUENCY, MAX_TIMEOUT

RELAY_DISCOVERY_KIND == 30166
RELAY_MONITOR_KIND == 10166

Optional(tag, value) == IF value = Unset THEN <<>> ELSE <<<<tag, value>>>>

Each(tag, values) == [i \in DOMAIN values |-> <<tag, values[i]>>]

\* The fields that hold one text, a list of texts and a number, by their tags.
SingleField == [d |-> "relay", n |-> "network", T |-> "relayType", g |-> "geohash"]
ListField == [N |-> "supportedNips", R |-> "requirements", t |-> "topics", k |-> "kinds"]
RttField == "rtt-open" :> "rttOpen" @@ "rtt-read" :> "rttRead" @@ "rtt-write" :> "rttWrite"

Spoken(texts) == \A i \in DOMAIN texts : Trims(texts[i])

-----------------------------------------------------------------------------
\* Relay discovery

\* Mutant: kinds are not checked.
ListsOkAnyKind(options) ==
  /\ Range(options.supportedNips) \subseteq DOMAIN NumberOf
  /\ Spoken(options.requirements) /\ Spoken(options.topics)

ListsOk(options) ==
  /\ Range(options.supportedNips) \cup Range(options.kinds) \subseteq DOMAIN NumberOf
  /\ Spoken(options.requirements) /\ Spoken(options.topics)

DiscoveryOk(options) ==
  /\ options.relay \in DOMAIN CanonicalUrl /\ CanonicalUrl[options.relay] \in WebSocketUrls
  /\ {options.rttOpen, options.rttRead, options.rttWrite} \subseteq
       {Unset} \cup FractionTexts \cup DOMAIN NumberOf
  /\ options.geohash \in {Unset} \cup Geohashes
  /\ Trims(options.network) /\ Trims(options.relayType)
  /\ ListsOk(options)

createRelayDiscoveryEvent(options, pubkey) ==
  IF ~DiscoveryOk(options) THEN Refused
  ELSE createEvent(
         [kind |-> RELAY_DISCOVERY_KIND, created_at |-> 0,
          content |-> IF options.content = <<>> THEN <<"{}">> ELSE options.content,
          tags |-> <<<<"d", CanonicalUrl[options.relay]>>>>
                     \o Optional("n", options.network) \o Optional("T", options.relayType)
                     \o Each("N", options.supportedNips) \o Each("R", options.requirements)
                     \o Each("t", options.topics) \o Each("k", options.kinds)
                     \o Optional("g", options.geohash) \o Optional("rtt-open", options.rttOpen)
                     \o Optional("rtt-read", options.rttRead) \o Optional("rtt-write", options.rttWrite)
                     \o options.additionalTags], pubkey)

\* One tag after another: a later one replaces a text or a number.
ReadDiscoveryTag(data, tag) ==
  CASE Len(tag) < 2 -> data
    [] Len(tag) > 1 /\ tag[1] \in DOMAIN SingleField -> [data EXCEPT ![SingleField[tag[1]]] = tag[2]]
    [] Len(tag) > 1 /\ tag[1] \in DOMAIN ListField -> [data EXCEPT ![ListField[tag[1]]] = Append(@, tag[2])]
    [] Len(tag) > 1 /\ tag[1] \in DOMAIN RttField ->
         [data EXCEPT ![RttField[tag[1]]] = IF tag[2] \in DOMAIN NumberOf THEN NumberOf[tag[2]] ELSE @]
    [] OTHER -> data

\* A content that is no JSON is taken as it is.
parseRelayDiscoveryEvent(event) ==
  FoldLeft(ReadDiscoveryTag,
           [relay |-> "", network |-> "", relayType |-> "", geohash |-> Unset,
            supportedNips |-> <<>>, requirements |-> <<>>, topics |-> <<>>, kinds |-> <<>>,
            rttOpen |-> Unset, rttRead |-> Unset, rttWrite |-> Unset, content |-> event.content],
           event.tags)

\* What was read, as options: numbers are written in digits.
Again(data) ==
  LET text(number) == IF number = Unset THEN Unset ELSE Decimal(number)
      given(value) == IF value = "" THEN Unset ELSE value
  IN  [data @@ [additionalTags |-> <<>>]
         EXCEPT !.network = given(@), !.relayType = given(@),
                !.rttOpen = text(@), !.rttRead = text(@), !.rttWrite = text(@)]

\* Whatever tags others publish, what is read of a relay can be published again
\* if its texts are in order, is accepted, and reads the same, but for the
\* spelling of the URL and a missing content, which reads as an empty object.
DiscoveryReadsBack(tags, content, secret) ==
  LET first == parseRelayDiscoveryEvent([tags |-> tags, content |-> content])
      event == createSignedEvent(createRelayDiscoveryEvent(Again(first), PublicKeyOf[secret]), secret)
  IN  IF \/ first.relay \notin DOMAIN CanonicalUrl \/ first.geohash \notin {Unset} \cup Geohashes
         \/ " " \in {first.network, first.relayType}
         \/ (Range(first.requirements) \cup Range(first.topics)) \cap BlankTexts # {}
         \/ ~(Range(first.supportedNips) \cup Range(first.kinds) \subseteq DOMAIN NumberOf)
      THEN event = Refused
      ELSE /\ Accepted(event)
           /\ parseRelayDiscoveryEvent(event) =
                [first EXCEPT !.relay = CanonicalUrl[@], !.content = IF @ = <<>> THEN <<"{}">> ELSE @]

-----------------------------------------------------------------------------
\* Monitor announcements

AnnouncementOk(options) ==
  /\ options.frequency > 0
  /\ \A i \in DOMAIN options.timeouts :
       options.timeouts[i].value > 0 /\ Trims(options.timeouts[i].test)
  /\ Spoken(options.checks)
  /\ options.geohash \in {Unset} \cup Geohashes

TimeoutTag(timeout) ==
  <<"timeout", Decimal(timeout.value)>> \o (IF timeout.test = Unset THEN <<>> ELSE <<timeout.test>>)

createRelayMonitorAnnouncement(options, pubkey) ==
  IF ~AnnouncementOk(options) THEN Refused
  ELSE createEvent(
         [kind |-> RELAY_MONITOR_KIND, created_at |-> 0, content |-> options.content,
          tags |-> <<<<"frequency", Decimal(options.frequency)>>>>
                     \o TagsOf(options.timeouts, TimeoutTag) \o Each("c", options.checks)
                     \o Optional("g", options.geohash) \o options.additionalTags], pubkey)

\* parseInt of a text, if within 1 .. max.
ParsedWithin(text, max) == text \in DOMAIN LeadingNumberOf /\ LeadingNumberOf[text] \in 1 .. max

\* Mutant: a test that is blank is read as none.
ReadsTimeoutBlank(tag) == ParsedWithin(tag[2], MAX_TIMEOUT)

ReadsTimeout(tag) == ParsedWithin(tag[2], MAX_TIMEOUT) /\ (Len(tag) > 2 => Trims(tag[3]))

ReadAnnouncementTag(data, tag) ==
  CASE Len(tag) < 2 -> data
    [] Len(tag) > 1 /\ tag[1] = "frequency" ->
         IF ParsedWithin(tag[2], MAX_FREQUENCY) THEN [data EXCEPT !.frequency = LeadingNumberOf[tag[2]]] ELSE data
    [] Len(tag) > 1 /\ tag[1] = "timeout" ->
         IF ~ReadsTimeout(tag) THEN data
         ELSE [data EXCEPT !.timeouts =
                 Append(@, [value |-> LeadingNumberOf[tag[2]],
                            test |-> IF Len(tag) > 2 THEN tag[3] ELSE Unset])]
    [] Len(tag) > 1 /\ tag[1] = "c" -> [data EXCEPT !.checks = Append(@, tag[2])]
    [] Len(tag) > 1 /\ tag[1] = "g" -> [data EXCEPT !.geohash = tag[2]]
    [] OTHER -> data

parseRelayMonitorAnnouncement(event) ==
  FoldLeft(ReadAnnouncementTag,
           [frequency |-> 0, timeouts |-> <<>>, checks |-> <<>>, geohash |-> Unset,
            content |-> event.content], event.tags)

\* What is read of a monitor can be announced again if it names a frequency and
\* its texts are in order, is accepted and reads the same.
AnnouncementReadsBack(tags, content, secret) ==
  LET first == parseRelayMonitorAnnouncement([tags |-> tags, content |-> content])
      options == first @@ [additionalTags |-> <<>>]
      event == createSignedEvent(createRelayMonitorAnnouncement(options, PublicKeyOf[secret]), secret)
  IN  IF first.frequency = 0 \/ first.geohash \notin {Unset} \cup Geohashes
         \/ Range(first.checks) \cap BlankTexts # {}
      THEN event = Refused
      ELSE Accepted(event) /\ parseRelayMonitorAnnouncement(event) = first
=============================================================================
