----------------------------- MODULE Encryption -----------------------------
(***************************************************************************)
(* Encrypted messages: NIP-44 (nip44/index.ts), NIP-04 in the builds for   *)
(* Node and for the web (nip04/index.ts, nip04/web.ts), and the direct     *)
(* messages of NIP-17 (nip17/index.ts), made of both NIP-44 and events.    *)
(*                                                                         *)
(* What a cipher or a MAC returns names all it depends on, so results are  *)
(* equal only if the inputs are.  Keys are those of Events; lengths,       *)
(* padding and base64 are those of Nip44.                                  *)
(***************************************************************************)
EXTENDS Events, Nip44

CONSTANTS
  Garbage,  \* what decryption with the wrong key may return
  TwoDays   \* the most by which the events of NIP-17 are predated

-----------------------------------------------------------------------------
\* NIP-44

isValidPublicKeyPoint(pubkey) == pubkey \in PublicKeys

isValidPrivateKey(secret) == secret \in SecretKeys

\* The x coordinate that either side computes, whichever y the public key has.
getSharedSecret(secret, pubkey) ==
  IF isValidPrivateKey(secret) /\ isValidPublicKeyPoint(pubkey)
  THEN {PublicKeyOf[secret], pubkey} ELSE Refused

getMessageKeys(conversation, nonce) ==
  [chacha |-> <<"chacha", conversation, nonce>>, hmac |-> <<"hmac", conversation, nonce>>]

hmacWithAAD(key, message, aad) == <<key, aad, message>>

\* The bits of a byte, and the bits in which two bytes differ.
Bits(byte) == {k \in 0 .. 7 : (byte \div 2^k) % 2 = 1}

xor(a, b) == (Bits(a) \ Bits(b)) \cup (Bits(b) \ Bits(a))

\* Mutant: the top bit is not folded into the lowest.
foldedBitsShort(difference) == IF difference \cap 0 .. 6 = {} THEN 0 ELSE 1

foldedBits(difference) == IF difference \cap 0 .. 7 = {} THEN 0 ELSE 1

\* The comparison of MACs, byte for byte.
constantTimeEqual(a, b) ==
  IF Len(a) # Len(b) THEN 0
  ELSE 1 - foldedBits(UNION {xor(a[i], b[i]) : i \in DOMAIN a})

encryptV2(text, secret, pubkey, nonce) ==
  LET conversation == getSharedSecret(secret, pubkey)
      keys == getMessageKeys(conversation, nonce)
      ciphertext == <<keys.chacha, text>>
  IN  IF nonce.size # 32 \/ text = <<>> THEN Refused
      ELSE [encoding |-> "base64", version |-> 2, nonce |-> nonce, ciphertext |-> ciphertext,
            mac |-> hmacWithAAD(keys.hmac, ciphertext, nonce)]

encryptNIP44(text, secret, pubkey, nonce, version) ==
  IF ~isValidPublicKeyPoint(pubkey) \/ ~isValidPrivateKey(secret) \/ version # 2 THEN Refused
  ELSE encryptV2(text, secret, pubkey, nonce)

\* A leading "#" announces an encoding that is not base64.
decodes(payload) == payload.encoding = "base64" /\ payload.version \in 0 .. 2

\* Mutant: what does not authenticate is decrypted all the same.
decryptV2Unverified(payload, secret, pubkey) == payload.ciphertext[2]

decryptV2(payload, secret, pubkey) ==
  LET keys == getMessageKeys(getSharedSecret(secret, pubkey), payload.nonce)
  IN  IF hmacWithAAD(keys.hmac, payload.ciphertext, payload.nonce) # payload.mac THEN Refused
      ELSE payload.ciphertext[2]  \* the MAC covers a ciphertext of the same keys

\* Versions 0 and 1 are decrypted as version 2.
decryptNIP44(payload, secret, pubkey) ==
  IF ~isValidPublicKeyPoint(pubkey) \/ ~isValidPrivateKey(secret) \/ ~decodes(payload) THEN Refused
  ELSE decryptV2(payload, secret, pubkey)

-----------------------------------------------------------------------------
\* NIP-04.  A message is what is left between its separators "?iv=".  A part is
\* written as base64 always is ("canonical"), with bits set that the last digit
\* leaves unused ("loose"), not as base64 ("other") or not at all ("empty").

Part(value) == [form |-> "canonical", value |-> value]

nip04Key(secret, pubkey) == {PublicKeyOf[secret], pubkey}

\* AES-256-CBC; the padding makes an empty text one block.
aes(key, iv, text) == <<key, iv, text>>

\* Both builds write the same.
nip04Encrypt(secret, pubkey, text, iv) ==
  IF ~isValidPrivateKey(secret) \/ ~isValidPublicKeyPoint(pubkey) THEN Refused
  ELSE <<Part(aes(nip04Key(secret, pubkey), iv, text)), Part(iv)>>

\* The checks of the format, given the forms a build takes for base64.
wellFormed(message, forms) ==
  /\ Len(message) = 2
  /\ message[1].form \in forms /\ message[2].form \in forms
  /\ message[2].value.size = 16

\* Node: a wrong key leaves a padding that final() mostly refuses.
decryptNode(message, secret, pubkey) ==
  LET key == nip04Key(secret, pubkey)
      text == message[1].value[3]
  IN  IF ~wellFormed(message, {"canonical"}) THEN {Refused}
      ELSE IF message[1].value = aes(key, message[2].value, text) THEN {text}
      ELSE {Refused, Garbage}

\* Mutant: the text is not encrypted again.
sameAgainAlways(message, key, text) == TRUE

\* What was decrypted is encrypted again and compared, digit by digit.
sameAgain(message, key, text) ==
  /\ message[1].form = "canonical"
  /\ text = Garbage \/ aes(key, message[2].value, text) = message[1].value

\* Web: crypto-js takes a nonsensical padding for an empty text.
decryptWeb(message, secret, pubkey) ==
  LET key == nip04Key(secret, pubkey)
      text == message[1].value[3]
      decrypted == IF message[1].value = aes(key, message[2].value, text)
                   THEN {text} ELSE {<<>>, Garbage, Refused}
  IN  IF ~wellFormed(message, {"canonical", "loose"}) THEN {Refused}
      ELSE {IF t # Refused /\ sameAgain(message, key, t) THEN t ELSE Refused : t \in decrypted}

-----------------------------------------------------------------------------
\* NIP-17.  JSON is the object it stands for, as the one element of a text.

DM_KIND == 14
FILE_KIND == 15
SEAL_KIND == 13
GIFT_WRAP_KIND == 1059
FreshNonce(n) == [size |-> 32, value |-> n]

randomTimestampInPast(offset) == UnixTime - offset

\* The rumor, sealed by its sender and wrapped with a key that is used once.
seal(rumor, secret, receiver, kind, offset) ==
  createSignedEvent(Unsigned(PublicKeyOf[secret], kind, <<>>,
                             encryptNIP44(<<rumor>>, secret, receiver, FreshNonce(1), 2),
                             randomTimestampInPast(offset)), secret)

wrap(sealed, ephemeral, receiver, kind, offset) ==
  createSignedEvent(Unsigned(PublicKeyOf[ephemeral], kind, <<<<"p", receiver>>>>,
                             encryptNIP44(<<sealed>>, ephemeral, receiver, FreshNonce(2), 2),
                             randomTimestampInPast(offset)), ephemeral)

createGiftWrap(message, secret, receiver, ephemeral, offsets) ==
  LET rumor == Unsigned(PublicKeyOf[secret], DM_KIND, <<<<"p", receiver>>>>, message,
                        randomTimestampInPast(offsets[1]))
  IN  wrap(seal(rumor, secret, receiver, SEAL_KIND, offsets[2]), ephemeral, receiver,
           GIFT_WRAP_KIND, offsets[3])

\* Mutant: the rumor may name anyone.
sameSenderUnchecked(rumor, sealed) == TRUE

sameSender(rumor, sealed) == rumor.pubkey = sealed.pubkey

\* verifySignature() returns a promise, which is not awaited and counts as true.
openSeal(sealed, secret) ==
  LET opened == decryptNIP44(sealed.content, secret, sealed.pubkey)
  IN  IF sealed.kind # SEAL_KIND \/ opened = Refused THEN Refused
      ELSE IF ~sameSender(opened[1], sealed) \/ opened[1].kind \notin {DM_KIND, FILE_KIND}
           THEN Refused ELSE opened[1]

decryptDirectMessage(giftWrap, secret) ==
  LET opened == decryptNIP44(giftWrap.content, secret, giftWrap.pubkey)
  IN  IF giftWrap.kind # GIFT_WRAP_KIND \/ opened = Refused THEN Refused
      ELSE openSeal(opened[1], secret)

-----------------------------------------------------------------------------
\* NIP-44: exactly the two parties read what one of them encrypted, under any
\* version that is not newer, and a payload put together from parts of two is
\* refused.
SecretReadsBack(first, second, secret, receiver, reader, writer, version) ==
  LET made(text, nonce) == encryptNIP44(text, secret, receiver, FreshNonce(nonce), 2)
      payload == [made(first, 1) EXCEPT !.version = version]
      read(p) == decryptNIP44(p, reader, writer)
      mixed == {[payload EXCEPT !.nonce = made(second, 2).nonce],
                [payload EXCEPT !.ciphertext = made(second, 2).ciphertext],
                [payload EXCEPT !.mac = made(second, 2).mac]}
  IN  /\ read(payload) = IF /\ {PublicKeyOf[reader], writer} = {PublicKeyOf[secret], receiver}
                            /\ version <= 2
                         THEN first ELSE Refused
      /\ \A p \in mixed : read(p) = Refused

\* The comparison of MACs tells any two apart.
ComparisonIsExact(a, b) == constantTimeEqual(a, b) = 1 <=> a = b

\* NIP-04: each build reads what either wrote, empty texts included, and never
\* takes what it cannot read for another text that was written.
LegacyReadsBack(text, secret, receiver, reader, writer, iv) ==
  LET message == nip04Encrypt(secret, receiver, text, iv)
      own == {PublicKeyOf[reader], writer} = {PublicKeyOf[secret], receiver}
      mayRead == IF iv.size # 16 THEN {Refused} ELSE IF own THEN {text} ELSE {Refused, Garbage}
  IN  /\ decryptNode(message, reader, writer) \subseteq mayRead
      /\ decryptWeb(message, reader, writer) \subseteq mayRead
      /\ \A p \in {1, 2}, form \in {"loose", "other", "empty"} :
           LET bad == [message EXCEPT ![p].form = form]
           IN  /\ decryptNode(bad, reader, writer) = {Refused}
               /\ decryptWeb(bad, reader, writer) \subseteq mayRead \cup {Refused}

\* NIP-17: the receiver, and nobody else, reads the message as its sender wrote
\* it, and no part of the wrap lies in the future.
MessageReadsBack(message, secret, receiver, ephemeral, reader, offsets) ==
  LET giftWrap == createGiftWrap(message, secret, receiver, ephemeral, offsets)
      rumor == decryptDirectMessage(giftWrap, reader)
  IN  IF PublicKeyOf[reader] = receiver
      THEN /\ rumor.content = message /\ rumor.pubkey = PublicKeyOf[secret]
           /\ {rumor.created_at, giftWrap.created_at} \subseteq UnixTime - TwoDays .. UnixTime
           /\ giftWrap.pubkey # rumor.pubkey
      ELSE rumor = Refused

\* NIP-17: a rumor is read only if it was sealed with the key of the author it
\* names, and only in events of the right kinds.
RumorIsItsAuthors(named, kind, secret, receiver, ephemeral, sealKind, wrapKind) ==
  LET rumor == Unsigned(named, kind, <<>>, <<"hi">>, UnixTime)
      made == wrap(seal(rumor, secret, PublicKeyOf[receiver], sealKind, 0), ephemeral,
                   PublicKeyOf[receiver], wrapKind, 0)
  IN  decryptDirectMessage(made, receiver) # Refused
        <=> /\ named = PublicKeyOf[secret] /\ kind \in {14, 15}
            /\ sealKind = 13 /\ wrapKind = 1059
=============================================================================
