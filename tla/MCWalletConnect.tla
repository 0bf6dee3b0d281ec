--------------------------- MODULE MCWalletConnect ---------------------------
EXTENDS WalletConnect, TLC

\* A service with both schemes, one that prefers the newer, and one that does
\* not know the client.
MCServices == {[schemes |-> {"nip04", "nip44"}, authorized |-> TRUE],
               [schemes |-> {"nip44"}, authorized |-> TRUE],
               [schemes |-> {"nip04", "nip44"}, authorized |-> FALSE]}
\* The callers are interchangeable.
Symmetry == Permutations(Callers)
=============================================================================
