---------------------------- MODULE RemoteSigning ----------------------------
(***************************************************************************)
(* A client and a bunker of NIP-46 that talk through relays: the           *)
(* composition of Nip46Client and Nip46Bunker over Nip46Wire.              *)
(***************************************************************************)
EXTENDS Nip46Client, Nip46Bunker

vars == <<wireVars, clientVars, bunkerVars>>

Init == WireInit /\ ClientInit /\ BunkerInit

Next == \/ ClientNext /\ UNCHANGED bunkerVars
        \/ BunkerNext /\ UNCHANGED clientVars

Spec == Init /\ [][Next]_vars

TypeOK == WireTypeOK /\ ClientTypeOK /\ BunkerTypeOK

-----------------------------------------------------------------------------
\* A client that is connected has been accepted by the bunker: one of its own
\* connect requests, with the right secret, was answered without an error.
\* Late answers, timeouts and overlapping calls do not make it believe so
\* (client.ts 239-253).  The converse does not hold: the bunker may have
\* stopped, or may be waiting for its owner.
ConnectedIsAccepted ==
    connected => \E response \in responses :
                    /\ asked[response.id].method = "connect"
                    /\ asked[response.id].secret
                    /\ response.result \in {"ack", "auth_required"}
=============================================================================
