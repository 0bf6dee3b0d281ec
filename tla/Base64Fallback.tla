--------------------------- MODULE Base64Fallback ---------------------------
(***************************************************************************)
(* Whether the encoder for runtimes without btoa and Buffer writes the     *)
(* base64 its comments name.  The bytes grow one by one.                   *)
(***************************************************************************)
EXTENDS Nip44

CONSTANTS
  ByteValues,
  MaxBytes  \* bound: 16 is the length of an initialization vector of NIP-04

VARIABLE bytes

Init == bytes = <<>>

Next == Len(bytes) < MaxBytes /\ \E b \in ByteValues : bytes' = Append(bytes, b)

Spec == Init /\ [][Next]_bytes

\* "Manual RFC 4648 compliant base64 encoding" (nip44/index.ts:81): whatever the
\* number of bytes, the manual encoder writes what RFC 4648 says.
FallbackIsCompliant == base64EncodeFallback(bytes) = base64Encode(bytes)
=============================================================================
