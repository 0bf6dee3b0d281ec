--------------------------- MODULE MCEphemeralRelay ---------------------------
(***************************************************************************)
(* Instance of EphemeralRelay for TLC: two events that tie for one key, a  *)
(* third that is invalid or replaces nothing, a filter with and one        *)
(* without a limit.                                                        *)
(***************************************************************************)
EXTENDS EphemeralRelay

CONSTANTS k1, Unlimited

MCEvents == {[key |-> k1, at |-> 1, id |-> 1], [key |-> k1, at |-> 1, id |-> 2],
             [key |-> NoKey, at |-> 0, id |-> 3],
             [key |-> k1, at |-> 2, id |-> 4]}
MCInvalid == {e \in MCEvents : e.at = 2}
MCFilters == {[want |-> MCEvents, limit |-> Unlimited], [want |-> MCEvents, limit |-> 1]}
===============================================================================
