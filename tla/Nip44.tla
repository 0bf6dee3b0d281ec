--------------------------------- MODULE Nip44 --------------------------------
(*****************************************************************************)
(* The parts of NIP-44 that are not cryptography (src/src/nip44/index.ts):   *)
(* the padding of a plaintext, the layout of a payload, and base64 as it     *)
(* and the web build of NIP-04 (nip04/web.ts) write and read it.             *)
(*                                                                           *)
(* For padding only lengths matter: a padded text is its two length bytes    *)
(* and its size, a payload is its number of bytes and of base64 digits.      *)
(*                                                                           *)
(* For base64 both files use btoa and atob, then Buffer, and where a runtime *)
(* has neither, as older React Native, loops of their own, which are the     *)
(* same in both.  A text is a sequence of digits 0 .. 63, and Padding        *)
(* for "=".                                                                  *)
(*****************************************************************************)
EXTENDS Integers, Sequences

MIN_PLAINTEXT_SIZE == 1
MAX_PLAINTEXT_SIZE == 65535
MIN_BASE64_PAYLOAD_LENGTH == 132
MAX_BASE64_PAYLOAD_LENGTH == 87472
MIN_DECODED_PAYLOAD_LENGTH == 99
MAX_DECODED_PAYLOAD_LENGTH == 65603
Overhead == 1 + 32 + 32   \* version, nonce and MAC around the ciphertext

\* floor(log2(n)), for n > 0
Log2(n) == CHOOSE k \in 0 .. 16 : 2^k <= n /\ n < 2^(k + 1)

calcPaddedLen(unpadded) ==
  IF unpadded <= 32 THEN 32
  ELSE LET nextPower == 2^(Log2(unpadded - 1) + 1)
           chunk == IF nextPower <= 256 THEN 32 ELSE nextPower \div 8
       IN chunk * ((unpadded - 1) \div chunk + 1)

pad(unpadded) ==
  [prefix |-> <<(unpadded \div 256) % 256, unpadded % 256>>, size |-> 2 + calcPaddedLen(unpadded)]

\* The length unpad returns, or -1 for one of its errors.
unpad(padded) ==
  LET claimed == padded.prefix[1] * 256 + padded.prefix[2]
  IN IF /\ claimed \in MIN_PLAINTEXT_SIZE .. MAX_PLAINTEXT_SIZE
        /\ padded.size >= 2 + claimed
        /\ padded.size = 2 + calcPaddedLen(claimed)
     THEN claimed ELSE -1

\* encrypt: the stream cipher keeps the length.
PayloadSize(unpadded) == Overhead + pad(unpadded).size

Base64Length(bytes) == 4 * ((bytes + 2) \div 3)

\* Mutant: the largest payload is refused.
decodePayloadStrict(bytes) ==
  /\ Base64Length(bytes) >= MIN_BASE64_PAYLOAD_LENGTH
  /\ Base64Length(bytes) < MAX_BASE64_PAYLOAD_LENGTH

\* Are the lengths of a payload of a supported version accepted?
decodePayload(bytes) ==
  /\ Base64Length(bytes) \in MIN_BASE64_PAYLOAD_LENGTH .. MAX_BASE64_PAYLOAD_LENGTH
  /\ bytes \in MIN_DECODED_PAYLOAD_LENGTH .. MAX_DECODED_PAYLOAD_LENGTH
  /\ bytes > Overhead

-----------------------------------------------------------------------------
\* A plaintext of any permitted length survives padding and the payload limits;
\* the padded size is never shorter and, for long texts, at most a quarter longer.
PlaintextReadsBack(unpadded) ==
  /\ unpad(pad(unpadded)) = unpadded
  /\ decodePayload(PayloadSize(unpadded))
  /\ calcPaddedLen(unpadded) >= unpadded
  /\ unpadded > 256 => 4 * (calcPaddedLen(unpadded) - unpadded) < unpadded

-----------------------------------------------------------------------------
\* Base64.

Padding == 64
InvalidText == <<-1>>  \* what reading returns that throws

ByteAt(bytes, position) == IF position <= Len(bytes) THEN bytes[position] ELSE 0

Least(a, b) == IF a <= b THEN a ELSE b

\* What three bytes, fewer at the end, become, in digits.
Digits(bytes, group) ==
  LET bitmap == ByteAt(bytes, 3 * group - 2) * 2^16 + ByteAt(bytes, 3 * group - 1) * 2^8
                + ByteAt(bytes, 3 * group)
  IN  <<bitmap \div 2^18, (bitmap \div 2^12) % 64, (bitmap \div 2^6) % 64, bitmap % 64>>

Encoded(bytes, digits(_)) ==
  [i \in 1 .. 4 * ((Len(bytes) + 2) \div 3) |-> digits((i + 3) \div 4)[((i - 1) % 4) + 1]]

\* The loop: i counts the bytes read, and does not pass the end of the input.
base64EncodeFallback(bytes) ==
  LET digits(group) ==
        LET i == Least(3 * group, Len(bytes))
            d == Digits(bytes, group)
        IN  <<d[1], d[2], IF i - 2 < Len(bytes) THEN d[3] ELSE Padding,
              IF i - 1 < Len(bytes) THEN d[4] ELSE Padding>>
  IN  Encoded(bytes, digits)

\* RFC 4648, as btoa and Buffer have it.
base64Encode(bytes) ==
  LET digits(group) ==
        LET d == Digits(bytes, group)
        IN  <<d[1], d[2], IF 3 * group - 1 <= Len(bytes) THEN d[3] ELSE Padding,
              IF 3 * group <= Len(bytes) THEN d[4] ELSE Padding>>
  IN  Encoded(bytes, digits)

\* BASE64_VALIDATION_REGEX: groups of four, "=" or "==" only at the end.
IsBase64(text) ==
  /\ Len(text) > 0 /\ Len(text) % 4 = 0
  /\ \A i \in 1 .. Len(text) - 2 : text[i] # Padding
  /\ text[Len(text) - 1] = Padding => text[Len(text)] = Padding

\* Mutant: padding is taken for data.
DecodedLengthUnpadded(text) == 3 * (Len(text) \div 4)

DecodedLength(text) ==
  3 * (Len(text) \div 4)
  - (IF text[Len(text)] # Padding THEN 0 ELSE IF text[Len(text) - 1] # Padding THEN 1 ELSE 2)

\* The manual decoder; atob and Buffer do the same with what the check lets through.
base64Decode(text) ==
  LET digit(i) == text[i] % 64   \* "=" counts as 0
      byte(i) == LET first == 4 * ((i - 1) \div 3) + 1
                 IN CASE i % 3 = 1 -> digit(first) * 4 + digit(first + 1) \div 16
                      [] i % 3 = 2 -> (digit(first + 1) % 16) * 16 + digit(first + 2) \div 4
                      [] i % 3 = 0 -> (digit(first + 2) % 4) * 64 + digit(first + 3)
  IN  IF IsBase64(text) THEN [i \in 1 .. DecodedLength(text) |-> byte(i)] ELSE InvalidText

-----------------------------------------------------------------------------
\* What was written is read back, whatever its length, and another text that is
\* read as the same differs only in its last digit, in bits that stay unused.
BytesReadBack(bytes, other) ==
  LET text == base64Encode(bytes)
  IN  /\ bytes # <<>> => base64Decode(text) = bytes
      /\ base64Decode(other) = bytes /\ other # text =>
           /\ Len(other) = Len(text)
           /\ \E i \in DOMAIN text : /\ text[i] # other[i]
                                     /\ i = Len(text) \/ text[i + 1] = Padding
                                     /\ \A j \in DOMAIN text \ {i} : text[j] = other[j]
===============================================================================
