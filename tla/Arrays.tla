-------------------------------- MODULE Arrays --------------------------------
(***************************************************************************)
(* Taking elements out of an array (filter, splice) or out of a Map in     *)
(* order of insertion (delete) leaves the others in their order.  Written  *)
(* as a recursive function, about which ComponentProofs shows just that.   *)
(* A Map whose order does not matter is a function of its keys.            *)
(***************************************************************************)
EXTENDS Naturals, Sequences

\* The elements of s that are in kept, in their order.
filter(s, kept) ==
  LET upTo[i \in 0 .. Len(s)] ==
        IF i = 0 THEN <<>>
        ELSE IF s[i] \in kept THEN Append(upTo[i - 1], s[i]) ELSE upTo[i - 1]
  IN upTo[Len(s)]

\* Map.set and Map.delete.
Put(f, k, v) == [x \in DOMAIN f \cup {k} |-> IF x = k THEN v ELSE f[x]]
Delete(f, ks) == [x \in DOMAIN f \ ks |-> f[x]]
===============================================================================
