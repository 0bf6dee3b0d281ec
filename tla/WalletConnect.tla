---------------------------- MODULE WalletConnect ----------------------------
(***************************************************************************)
(* A wallet client and a wallet service of NIP-47 that talk through        *)
(* relays: the composition of Nip47Client and Nip47Service over Nip47Wire. *)
(***************************************************************************)
EXTENDS Nip47Client, Nip47Service

vars == <<wireVars, clientVars, serviceVars>>

Init == WireInit /\ ClientInit /\ ServiceInit

Next == \/ ClientNext /\ UNCHANGED serviceVars
        \/ ServiceNext /\ UNCHANGED clientVars
        \/ \E id \in Ids : expire(id) /\ UNCHANGED <<clientVars, serviceVars>>

Spec == Init /\ [][Next]_vars

TypeOK == WireTypeOK /\ ClientTypeOK /\ ServiceTypeOK

-----------------------------------------------------------------------------
\* Whatever an initialized client asks is encrypted in a scheme the service
\* supports: its knowledge of the service is never missing or that of an
\* earlier connection, however init(), disconnect() and get_info overlap
\* (client.ts 283-335, 735-808, 955-1035).
SchemeIsSupported ==
    \A id \in DOMAIN asked :
       asked[id].method # "get_info" => asked[id].scheme \in service.schemes
=============================================================================
