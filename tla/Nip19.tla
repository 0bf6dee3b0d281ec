-------------------------------- MODULE Nip19 --------------------------------
(***************************************************************************)
(* The entities of NIP-19 that carry lists (src/src/nip19/index.ts):       *)
(* nprofile, nevent and naddr, encoded as type-length-value entries, down  *)
(* to the bytes; bech32 itself is @scure/base's.  Strings are sequences of *)
(* bytes, what is not given is <<>>; an exception is NoBytes, which no     *)
(* entity has as its encoding, or NoReference.                             *)
(***************************************************************************)
EXTENDS Integers, Sequences, SequencesExt

CONSTANTS
  InvalidRelayUrls,      \* URLs isValidRelayUrl refuses
  MAX_TLV_ENTRIES,
  MAX_RELAY_URL_LENGTH,
  MAX_IDENTIFIER_LENGTH,
  DEFAULT_LIMIT          \* characters of a bech32 string

Special == 0
RelayType == 1
Author == 2
KindType == 3
Absent == <<>>
NoBytes == <<>>
NoReference == [error |-> TRUE]

Entry(type, value) == [type |-> type, value |-> value]
Entries(type, values) == [i \in DOMAIN values |-> Entry(type, values[i])]
Values(entries, type) ==
  LET own == SelectSeq(entries, LAMBDA e : e.type = type)
  IN [i \in DOMAIN own |-> own[i].value]

-----------------------------------------------------------------------------
\* The length is one element of a Uint8Array: it is stored modulo 256.
encodeTLV(entries) ==
  FlattenSeq([i \in DOMAIN entries |->
    <<entries[i].type, Len(entries[i].value) % 256>> \o entries[i].value])

\* Mutant: the last byte of the data is never part of a value.
endsInsideShort(data, end) == end < Len(data)

endsInside(data, end) == end <= Len(data)

\* A single byte after the last entry is ignored; unknown types are kept.
decodeTLV(data) ==
  LET from[o \in Nat] ==
        IF o >= Len(data) THEN <<>>
        ELSE LET end == o + 1 + data[o + 1]
             IN IF endsInside(data, end)
                THEN <<Entry(data[o], SubSeq(data, o + 2, end))>> \o from[end + 1]
                ELSE <<Entry(-1, <<>>)>>
      entries == from[1]
  IN IF Len(entries) > MAX_TLV_ENTRIES \/ \E i \in DOMAIN entries : entries[i].type = -1
     THEN NoBytes ELSE entries

\* Prefix, separator, five bits per character, and a checksum of six.
encodeBech32WithLimit(prefixLength, bytes) ==
  IF prefixLength + 1 + (8 * Len(bytes) + 4) \div 5 + 6 > DEFAULT_LIMIT THEN NoBytes ELSE bytes

RelaysRefused(relays, max) ==
  \/ Len(relays) > max
  \/ \E i \in DOMAIN relays :
       Len(relays[i]) > MAX_RELAY_URL_LENGTH \/ relays[i] \in InvalidRelayUrls

\* Exactly one entry is needed; of several the last one counts, but every one
\* has to have the right length.
Required(values) == IF values = <<>> THEN Absent ELSE Last(values)
WrongLength(values, n) == \E i \in DOMAIN values : Len(values[i]) # n

encodeProfile(data) ==
  IF Len(data.pubkey) # 32 \/ RelaysRefused(data.relays, MAX_TLV_ENTRIES - 1) THEN NoBytes
  ELSE encodeBech32WithLimit(8,
         encodeTLV(<<Entry(Special, data.pubkey)>> \o Entries(RelayType, data.relays)))

decodeProfile(tlv) ==
  LET entries == decodeTLV(tlv)
      pubkeys == Values(entries, Special)
  IN IF pubkeys = <<>> \/ WrongLength(pubkeys, 32) THEN NoReference
     ELSE [pubkey |-> Last(pubkeys), relays |-> Values(entries, RelayType)]

\* The kind of an event reference is not encoded.
encodeEvent(data) ==
  IF \/ Len(data.id) # 32
     \/ data.author # Absent /\ Len(data.author) # 32
     \/ RelaysRefused(data.relays, MAX_TLV_ENTRIES - 3)
  THEN NoBytes
  ELSE encodeBech32WithLimit(6,
         encodeTLV(<<Entry(Special, data.id)>> \o Entries(RelayType, data.relays)
                   \o (IF data.author = Absent THEN <<>> ELSE <<Entry(Author, data.author)>>)))

decodeEvent(tlv) ==
  LET entries == decodeTLV(tlv)
      ids == Values(entries, Special)
      authors == Values(entries, Author)
  IN IF ids = <<>> \/ WrongLength(ids, 32) \/ WrongLength(authors, 32) THEN NoReference
     ELSE [id |-> Last(ids), author |-> Required(authors), relays |-> Values(entries, RelayType)]

KindBytes(kind) ==
  <<(kind \div 16777216) % 256, (kind \div 65536) % 256, (kind \div 256) % 256, kind % 256>>

\* The shift of the first byte is signed.
KindOf(b) ==
  (IF b[1] > 127 THEN b[1] - 256 ELSE b[1]) * 16777216 + b[2] * 65536 + b[3] * 256 + b[4]

encodeAddress(data) ==
  IF \/ data.identifier = Absent \/ Len(data.identifier) > MAX_IDENTIFIER_LENGTH
     \/ Len(data.pubkey) # 32
     \/ data.kind < 0
     \/ RelaysRefused(data.relays, MAX_TLV_ENTRIES - 3)
  THEN NoBytes
  ELSE encodeBech32WithLimit(5,
         encodeTLV(<<Entry(Special, data.identifier)>> \o Entries(RelayType, data.relays)
                   \o <<Entry(Author, data.pubkey), Entry(KindType, KindBytes(data.kind))>>))

decodeAddress(tlv) ==
  LET entries == decodeTLV(tlv)
      identifiers == Values(entries, Special)
      pubkeys == Values(entries, Author)
      kinds == Values(entries, KindType)
  IN IF \/ identifiers = <<>> \/ pubkeys = <<>> \/ kinds = <<>>
        \/ WrongLength(pubkeys, 32) \/ WrongLength(kinds, 4)
     THEN NoReference
     ELSE IF Last(identifiers) = Absent THEN NoReference
     ELSE [identifier |-> Last(identifiers), pubkey |-> Last(pubkeys),
           kind |-> KindOf(Last(kinds)), relays |-> Values(entries, RelayType)]

Encode(type, data) ==
  CASE type = "nprofile" -> encodeProfile(data)
    [] type = "nevent" -> encodeEvent(data)
    [] type = "naddr" -> encodeAddress(data)

Decode(type, tlv) ==
  CASE type = "nprofile" -> decodeProfile(tlv)
    [] type = "nevent" -> decodeEvent(tlv)
    [] type = "naddr" -> decodeAddress(tlv)

-----------------------------------------------------------------------------
FitsLengthByte(type, data) ==
  /\ \A i \in DOMAIN data.relays : Len(data.relays[i]) < 256
  /\ type = "naddr" => Len(data.identifier) < 256

\* What the encoder takes, the decoder gives back, as long as every value fits
\* the length byte: for references with as many relays as are allowed, relays
\* and identifiers of up to 255 bytes and kinds below 2^31.
ReferenceReadsBack(type, data) ==
  LET tlv == Encode(type, data)
  IN FitsLengthByte(type, data) /\ tlv # NoBytes => Decode(type, tlv) = data
=============================================================================
