---------------------------- MODULE ComponentProofs ----------------------------
(***************************************************************************)
(* Publishing with a Relay and the ephemeral relay, for every instance,    *)
(* and first what both rest on: what filter returns, for every array and   *)
(* every choice of elements.  The provers cannot instantiate the library's *)
(* induction theorems, which take an operator; but the library also proves *)
(* < on the naturals well-founded as a relation, and a well-founded        *)
(* relation has minimal elements in every non-empty set.  SetInduction is  *)
(* that fact put as an induction, and gives both that the recursive        *)
(* function exists and what it returns.                                    *)
(*                                                                         *)
(* For publishing, HandlersMatch is inductive once the types are known:    *)
(* whoever settles calls takes them out of all the arrays at once, and     *)
(* that a walk of the live array skips handlers only means that fewer      *)
(* calls are settled.  That the calls an OK settles are waiting calls      *)
(* about its event is what makes a success truthful.                       *)
(*                                                                         *)
(* For the ephemeral relay, the cache is the newest events, sorted, because*)
(* store() puts an event where the sorted rest of the cache lets it, and   *)
(* keeps no two of a key.  Its transport is in order because what an end   *)
(* must do last is behind everything else in one queue.                    *)
(***************************************************************************)
EXTENDS RelayPublish, EphemeralRelay, SequenceTheorems, FiniteSetTheorems, WellFoundedInduction,
        TLAPS

-----------------------------------------------------------------------------
\* Arrays.

\* A non-empty set of numbers has a least one.
LEMMA LeastNumber ==
  ASSUME NEW T, T \subseteq Nat, T # {}
  PROVE  \E n \in T : \A m \in T : n <= m
<1> DEFINE R == OpToRel(<,Nat)
<1>1. IsWellFoundedOn(R, Nat)
  BY NatLessThanWellFounded
<1>2. \A n, m \in Nat : m < n => <<m, n>> \in R
  BY DEF OpToRel
<1> HIDE DEF R
<1>3. PICK n \in T : \A m \in T : ~ (<<m, n>> \in R)
  BY <1>1, WFMin
<1>4. ASSUME NEW m \in T PROVE n <= m
  <2>1. n \in Nat /\ m \in Nat
    OBVIOUS
  <2>2. ~ (m < n)
    BY <1>2, <1>3, <2>1, Zenon
  <2>3. QED
    BY <2>1, <2>2
<1>5. QED
  BY <1>4

\* A set that holds 0 and with each number below n the next one, holds all up to n.
LEMMA SetInduction ==
  ASSUME NEW n \in Nat, NEW T, 0 \in T, \A i \in 0 .. n - 1 : i \in T => i + 1 \in T
  PROVE  0 .. n \subseteq T
<1> DEFINE F == {i \in 0 .. n : i \notin T}
<1>1. ASSUME F # {} PROVE FALSE
  <2>1. F \subseteq Nat
    OBVIOUS
  <2> HIDE DEF F
  <2>2. PICK m \in F : \A k \in F : m <= k
    BY <1>1, <2>1, LeastNumber
  <2> USE DEF F
  <2>3. m \in 1 .. n /\ m - 1 \in 0 .. n - 1 /\ m - 1 \notin F
    BY <2>2
  <2>4. QED
    BY <2>2, <2>3
<1>2. QED
  BY <1>1

-----------------------------------------------------------------------------
\* g computes, at each index up to n, what filter has kept so far.
Filtering(g, s, kept, n) ==
  g = [i \in 0 .. n |-> IF i = 0 THEN <<>>
        ELSE IF s[i] \in kept THEN Append(g[i - 1], s[i]) ELSE g[i - 1]]

\* The recursion that filter is defined by has a solution.
LEMMA FilteringExists ==
  ASSUME NEW s, NEW kept, NEW n \in Nat
  PROVE  \E g : Filtering(g, s, kept, n)
<1> DEFINE T == {m \in 0 .. n : \E g : Filtering(g, s, kept, m)}
<1>1. 0 \in T
  <2>1. Filtering([i \in 0 .. 0 |-> <<>>], s, kept, 0)
    BY DEF Filtering
  <2>2. QED
    BY <2>1
<1>2. ASSUME NEW m \in 0 .. n - 1, m \in T PROVE m + 1 \in T
  <2>1. PICK g : Filtering(g, s, kept, m)
    BY <1>2
  <2> DEFINE h == [i \in 0 .. m + 1 |-> IF i <= m THEN g[i]
                     ELSE IF s[m + 1] \in kept THEN Append(g[m], s[m + 1]) ELSE g[m]]
             body(f, i) == IF i = 0 THEN <<>>
                           ELSE IF s[i] \in kept THEN Append(f[i - 1], s[i]) ELSE f[i - 1]
  <2>2. ASSUME NEW i \in 0 .. m + 1 PROVE h[i] = body(h, i)
    <3>1. CASE i = 0
      BY <3>1, <2>1 DEF Filtering
    <3>2. CASE i \in 1 .. m
      <4>1. h[i] = g[i] /\ h[i - 1] = g[i - 1]
        BY <3>2
      <4>2. g[i] = body(g, i)
        <5>1. g = [k \in 0 .. m |-> body(g, k)]
          BY <2>1 DEF Filtering
        <5> HIDE DEF body
        <5>2. QED
          BY <3>2, <5>1
      <4>3. QED
        BY <3>2, <4>1, <4>2
    <3>3. CASE i = m + 1
      <4>1. h[m] = g[m]
        OBVIOUS
      <4>2. QED
        BY <3>3, <4>1
    <3>4. QED
      BY <3>1, <3>2, <3>3
  <2>3. h = [i \in 0 .. m + 1 |-> body(h, i)]
    BY <2>2
  <2>4. Filtering(h, s, kept, m + 1)
    BY <2>3 DEF Filtering
  <2>5. QED
    BY <2>4
<1>3. 0 .. n \subseteq T
  BY <1>1, <1>2, SetInduction
<1>4. QED
  BY <1>3

\* r holds the elements of s, up to index n, that are in kept: its k-th one is at pos[k].
Picks(pos, s, kept, n, r) ==
  /\ pos \in [1 .. Len(r) -> 1 .. n]
  /\ \A k \in 1 .. Len(r) : r[k] = s[pos[k]] /\ s[pos[k]] \in kept
  /\ \A j, k \in 1 .. Len(r) : j < k => pos[j] < pos[k]
  /\ \A i \in 1 .. n : s[i] \in kept => \E k \in 1 .. Len(r) : pos[k] = i

\* What has been kept up to each index is picked from the elements before it.
LEMMA FilteringPicks ==
  ASSUME NEW S, NEW s \in Seq(S), NEW kept, NEW g, Filtering(g, s, kept, Len(s))
  PROVE  /\ g[Len(s)] \in Seq(S)
         /\ \E pos : Picks(pos, s, kept, Len(s), g[Len(s)])
<1> DEFINE n == Len(s)
           T == {m \in 0 .. n : g[m] \in Seq(S) /\ \E pos : Picks(pos, s, kept, m, g[m])}
<1>1. n \in Nat /\ \A i \in 1 .. n : s[i] \in S
  OBVIOUS
<1>2. \A i \in 0 .. n : g[i] = IF i = 0 THEN <<>>
                               ELSE IF s[i] \in kept THEN Append(g[i - 1], s[i]) ELSE g[i - 1]
  BY <1>1 DEF Filtering
<1> HIDE DEF n
<1>3. 0 \in T
  <2>1. g[0] = <<>>
    BY <1>1, <1>2
  <2>2. g[0] \in Seq(S) /\ Len(g[0]) = 0
    BY <2>1
  <2>3. Picks(<<>>, s, kept, 0, g[0])
    BY <2>2 DEF Picks
  <2>4. 0 \in 0 .. n
    BY <1>1
  <2>5. QED
    BY <2>2, <2>3, <2>4
<1>4. ASSUME NEW m \in 0 .. n - 1, m \in T PROVE m + 1 \in T
  <2>1. m + 1 \in 1 .. n /\ m \in 0 .. n /\ s[m + 1] \in S
    BY <1>1
  <2>2. PICK pos : Picks(pos, s, kept, m, g[m])
    BY <1>4
  <2>3. g[m] \in Seq(S)
    BY <1>4
  <2>4. CASE s[m + 1] \notin kept
    <3>1. g[m + 1] = g[m]
      BY <1>1, <1>2, <2>1, <2>4
    <3>2. Picks(pos, s, kept, m + 1, g[m])
      BY <2>1, <2>2, <2>4 DEF Picks
    <3>3. QED
      BY <2>1, <2>3, <3>1, <3>2
  <2>5. CASE s[m + 1] \in kept
    <3> DEFINE r == Append(g[m], s[m + 1])
               l == Len(g[m])
               ext == [k \in 1 .. l + 1 |-> IF k <= l THEN pos[k] ELSE m + 1]
    <3>1. g[m + 1] = r
      <4>1. (m + 1) - 1 = m /\ m + 1 # 0 /\ m + 1 \in 0 .. n
        BY <1>1, <2>1
      <4>2. g[m + 1] = Append(g[(m + 1) - 1], s[m + 1])
        BY <1>2, <2>5, <4>1, Zenon
      <4>3. QED
        BY <4>1, <4>2, Zenon
    <3>2. /\ r \in Seq(S) /\ l \in Nat /\ Len(r) = l + 1
          /\ r[l + 1] = s[m + 1]
          /\ \A k \in 1 .. l : r[k] = g[m][k]
      BY <2>1, <2>3
    <3>3. Picks(ext, s, kept, m + 1, r)
      <4> HIDE DEF r, l
      <4>0. /\ pos \in [1 .. l -> 1 .. m]
            /\ \A k \in 1 .. l : g[m][k] = s[pos[k]] /\ s[pos[k]] \in kept
            /\ \A j, k \in 1 .. l : j < k => pos[j] < pos[k]
            /\ \A i \in 1 .. m : s[i] \in kept => \E k \in 1 .. l : pos[k] = i
        BY <2>2 DEF Picks, l
      <4>1. ext \in [1 .. l + 1 -> 1 .. m + 1]
        BY <2>1, <3>2, <4>0
      <4>2. \A k \in 1 .. l + 1 : r[k] = s[ext[k]] /\ s[ext[k]] \in kept
        BY <2>1, <2>5, <3>2, <4>0
      <4>3. \A j, k \in 1 .. l + 1 : j < k => ext[j] < ext[k]
        BY <2>1, <3>2, <4>0
      <4>4. \A i \in 1 .. m + 1 : s[i] \in kept => \E k \in 1 .. l + 1 : ext[k] = i
        <5>1. ext[l + 1] = m + 1 /\ l + 1 \in 1 .. l + 1
          BY <3>2
        <5>2. \A k \in 1 .. l : k \in 1 .. l + 1 /\ ext[k] = pos[k]
          BY <3>2
        <5>3. \A i \in 1 .. m + 1 : i = m + 1 \/ i \in 1 .. m
          BY <2>1
        <5> HIDE DEF ext
        <5>4. QED
          BY <4>0, <5>1, <5>2, <5>3
      <4>5. QED
        BY <3>2, <4>1, <4>2, <4>3, <4>4 DEF Picks
    <3> HIDE DEF r, ext
    <3>4. g[m + 1] \in Seq(S) /\ Picks(ext, s, kept, m + 1, g[m + 1])
      BY <3>1, <3>2, <3>3, Zenon
    <3>5. m + 1 \in 0 .. n
      BY <1>1, <2>1
    <3>6. QED
      BY <3>4, <3>5
  <2>6. QED
    BY <2>4, <2>5
<1>5. 0 .. n \subseteq T
  BY <1>1, <1>3, <1>4, SetInduction
<1>6. QED
  BY <1>1, <1>5 DEF n

\* filter keeps the chosen elements, all of them and no other, in their order
\* (splice and delete in relay.ts 653, 1378-1380, 1429-1430; filter in rate-limiter.ts 54-90).
LEMMA FilterPicks ==
  ASSUME NEW S, NEW s \in Seq(S), NEW kept
  PROVE  /\ filter(s, kept) \in Seq(S)
         /\ \E pos : Picks(pos, s, kept, Len(s), filter(s, kept))
<1> DEFINE g == CHOOSE f : Filtering(f, s, kept, Len(s))
<1>1. Filtering(g, s, kept, Len(s))
  BY FilteringExists
<1>2. filter(s, kept) = g[Len(s)]
  BY DEF filter, Filtering
<1> HIDE DEF g
<1>3. QED
  BY <1>1, <1>2, FilteringPicks

ValuesOf(s) == {s[i] : i \in DOMAIN s}

Distinct(s) == \A i, j \in DOMAIN s : s[i] = s[j] => i = j

\* The values that are left are those that were chosen.
LEMMA FilterValues ==
  ASSUME NEW S, NEW s \in Seq(S), NEW kept
  PROVE  ValuesOf(filter(s, kept)) = ValuesOf(s) \cap kept
<1> DEFINE r == filter(s, kept)
<1>1. r \in Seq(S) /\ \E pos : Picks(pos, s, kept, Len(s), r)
  BY FilterPicks
<1> HIDE DEF r
<1>2. PICK pos : Picks(pos, s, kept, Len(s), r)
  BY <1>1
<1>3. DOMAIN r = 1 .. Len(r) /\ DOMAIN s = 1 .. Len(s)
  BY <1>1
<1>4. ValuesOf(r) = ValuesOf(s) \cap kept
  BY <1>2, <1>3 DEF Picks, ValuesOf
<1>5. QED
  BY <1>4 DEF r

\* An array without duplicates has none after filter either.
LEMMA FilterDistinct ==
  ASSUME NEW S, NEW s \in Seq(S), NEW kept, Distinct(s)
  PROVE  Distinct(filter(s, kept))
<1> DEFINE r == filter(s, kept)
<1>1. r \in Seq(S) /\ \E pos : Picks(pos, s, kept, Len(s), r)
  BY FilterPicks
<1> HIDE DEF r
<1>2. PICK pos : Picks(pos, s, kept, Len(s), r)
  BY <1>1
<1>3. DOMAIN r = 1 .. Len(r) /\ DOMAIN s = 1 .. Len(s) /\ Len(r) \in Nat /\ Len(s) \in Nat
  BY <1>1
<1>4. \A i, j \in 1 .. Len(r) : r[i] = r[j] => i = j
  <2> SUFFICES ASSUME NEW i \in 1 .. Len(r), NEW j \in 1 .. Len(r), r[i] = r[j] PROVE i = j
    OBVIOUS
  <2>1. pos[i] \in 1 .. Len(s) /\ pos[j] \in 1 .. Len(s) /\ s[pos[i]] = s[pos[j]]
    BY <1>2 DEF Picks
  <2>2. pos[i] = pos[j]
    BY <1>3, <2>1 DEF Distinct
  <2>3. ~ (i < j) /\ ~ (j < i)
    BY <1>2, <2>1, <2>2 DEF Picks
  <2>4. QED
    BY <1>3, <2>3
<1>5. QED
  BY <1>3, <1>4 DEF r, Distinct

-----------------------------------------------------------------------------
\* Arrays that agree up to n are filtered alike up to n.
LEMMA FilteringAgrees ==
  ASSUME NEW n \in Nat, NEW s, NEW t, NEW kept, \A i \in 1 .. n : s[i] = t[i],
         NEW l \in Nat, NEW m \in Nat, n <= l, n <= m,
         NEW g, Filtering(g, s, kept, l), NEW h, Filtering(h, t, kept, m)
  PROVE  g[n] = h[n]
<1> DEFINE T == {i \in 0 .. n : g[i] = h[i]}
<1>1. /\ \A i \in 0 .. l : g[i] = IF i = 0 THEN <<>>
                               ELSE IF s[i] \in kept THEN Append(g[i - 1], s[i]) ELSE g[i - 1]
      /\ \A i \in 0 .. m : h[i] = IF i = 0 THEN <<>>
                               ELSE IF t[i] \in kept THEN Append(h[i - 1], t[i]) ELSE h[i - 1]
  BY DEF Filtering
<1>2. 0 \in T
  BY <1>1
<1>3. ASSUME NEW i \in 0 .. n - 1, i \in T PROVE i + 1 \in T
  <2>1. i + 1 \in 0 .. l /\ i + 1 \in 0 .. m /\ i + 1 # 0 /\ (i + 1) - 1 = i
        /\ i + 1 \in 1 .. n /\ s[i + 1] = t[i + 1] /\ g[i] = h[i]
    BY <1>3
  <2>2. /\ g[i + 1] = IF s[i + 1] \in kept THEN Append(g[i], s[i + 1]) ELSE g[i]
        /\ h[i + 1] = IF t[i + 1] \in kept THEN Append(h[i], t[i + 1]) ELSE h[i]
    BY <1>1, <2>1, Zenon
  <2>3. g[i + 1] = h[i + 1]
    <3> DEFINE x == s[i + 1]
               y == g[i]
    <3>1. /\ g[i + 1] = IF x \in kept THEN Append(y, x) ELSE y
          /\ h[i + 1] = IF x \in kept THEN Append(y, x) ELSE y
      BY <2>1, <2>2
    <3> HIDE DEF x, y
    <3>2. QED
      BY <3>1
  <2>4. QED
    BY <2>1, <2>3
<1>4. 0 .. n \subseteq T
  BY <1>2, <1>3, SetInduction
<1>5. QED
  BY <1>4

\* Any solution of filter's recursion gives what filter returns.
LEMMA FilterByFiltering ==
  ASSUME NEW S, NEW s \in Seq(S), NEW kept, NEW g, Filtering(g, s, kept, Len(s))
  PROVE  filter(s, kept) = g[Len(s)]
<1> DEFINE h == CHOOSE f : Filtering(f, s, kept, Len(s))
<1>1. Filtering(h, s, kept, Len(s))
  BY FilteringExists
<1>2. filter(s, kept) = h[Len(s)]
  BY DEF filter, Filtering
<1> HIDE DEF h
<1>3. h[Len(s)] = g[Len(s)]
  BY <1>1, FilteringAgrees
<1>4. QED
  BY <1>2, <1>3

\* Nothing is left of an empty array.
LEMMA FilterEmpty ==
  ASSUME NEW kept
  PROVE  filter(<<>>, kept) = <<>>
<1>1. <<>> \in Seq({})
  OBVIOUS
<1>2. filter(<<>>, kept) \in Seq({})
  BY <1>1, FilterPicks
<1> DEFINE r == filter(<<>>, kept)
<1> HIDE DEF r
<1>3. ASSUME r \in Seq({}) PROVE r = <<>>
  <2>1. \A i \in 1 .. Len(r) : r[i] \in {}
    BY <1>3
  <2>2. Len(r) = 0
    BY <1>3, <2>1
  <2>3. QED
    BY <1>3, <2>2
<1>4. QED
  BY <1>2, <1>3 DEF r

\* The last element is looked at last.
LEMMA FilterAppend ==
  ASSUME NEW S, NEW s \in Seq(S), NEW x \in S, NEW kept
  PROVE  filter(Append(s, x), kept) = IF x \in kept THEN Append(filter(s, kept), x) ELSE filter(s, kept)
<1> DEFINE t == Append(s, x)
           n == Len(s)
<1>1. n \in Nat /\ t \in Seq(S) /\ Len(t) = n + 1 /\ t[n + 1] = x /\ \A i \in 1 .. n : s[i] = t[i]
  OBVIOUS
<1> HIDE DEF t
<1>a. n + 1 \in Nat
  BY <1>1
<1>2. PICK g : Filtering(g, t, kept, n + 1)
  BY <1>a, FilteringExists
<1>3. PICK h : Filtering(h, s, kept, n)
  BY <1>1, FilteringExists
<1>4. filter(t, kept) = g[n + 1] /\ filter(s, kept) = h[n]
  <2>1. Filtering(g, t, kept, Len(t))
    BY <1>1, <1>2
  <2>2. filter(t, kept) = g[Len(t)]
    BY <1>1, <2>1, FilterByFiltering
  <2>3. filter(s, kept) = h[Len(s)]
    BY <1>3, FilterByFiltering
  <2>4. QED
    BY <1>1, <2>2, <2>3
<1> HIDE DEF n
<1>5. h[n] = g[n]
  BY <1>1, <1>2, <1>3, FilteringAgrees
<1>6. g[n + 1] = IF t[n + 1] \in kept THEN Append(g[n], t[n + 1]) ELSE g[n]
  <2>1. n + 1 \in 0 .. n + 1 /\ n + 1 # 0 /\ (n + 1) - 1 = n
    BY <1>1
  <2>2. \A i \in 0 .. n + 1 : g[i] = IF i = 0 THEN <<>>
                               ELSE IF t[i] \in kept THEN Append(g[i - 1], t[i]) ELSE g[i - 1]
    BY <1>2 DEF Filtering
  <2>3. QED
    BY <2>1, <2>2, Zenon
<1>7. QED
  BY <1>1, <1>4, <1>5, <1>6 DEF t

\* Filtering what was filtered keeps what both choices keep.
LEMMA FilterTwice ==
  ASSUME NEW S, NEW s \in Seq(S), NEW first, NEW second
  PROVE  filter(filter(s, first), second) = filter(s, first \cap second)
<1> DEFINE n == Len(s)
<1>1. n \in Nat /\ \A i \in 1 .. n : s[i] \in S
  OBVIOUS
<1>2. PICK g : Filtering(g, s, first, n)
  BY <1>1, FilteringExists
<1>3. PICK h : Filtering(h, s, first \cap second, n)
  BY <1>1, FilteringExists
<1>4. filter(s, first) = g[n] /\ filter(s, first \cap second) = h[n]
  BY <1>2, <1>3, FilterByFiltering
<1> DEFINE T == {m \in 0 .. n : g[m] \in Seq(S) /\ filter(g[m], second) = h[m]}
<1> HIDE DEF n
<1>5. /\ \A i \in 0 .. n : g[i] = IF i = 0 THEN <<>>
                               ELSE IF s[i] \in first THEN Append(g[i - 1], s[i]) ELSE g[i - 1]
      /\ \A i \in 0 .. n : h[i] = IF i = 0 THEN <<>>
                               ELSE IF s[i] \in first \cap second THEN Append(h[i - 1], s[i]) ELSE h[i - 1]
  BY <1>2, <1>3 DEF Filtering
<1>6. 0 \in T
  <2>0. 0 \in 0 .. n
    BY <1>1
  <2>1. g[0] = <<>> /\ h[0] = <<>>
    BY <1>5, <2>0, Zenon
  <2>2. filter(g[0], second) = h[0]
    BY <2>1, FilterEmpty, Zenon
  <2>3. g[0] \in Seq(S)
    BY <2>1
  <2>4. QED
    BY <2>0, <2>2, <2>3
<1>7. ASSUME NEW m \in 0 .. n - 1, m \in T PROVE m + 1 \in T
  <2>1. /\ m + 1 \in 0 .. n /\ m + 1 # 0 /\ (m + 1) - 1 = m /\ s[m + 1] \in S
        /\ g[m] \in Seq(S) /\ filter(g[m], second) = h[m]
    BY <1>1, <1>7
  <2>2. /\ g[m + 1] = IF s[m + 1] \in first THEN Append(g[m], s[m + 1]) ELSE g[m]
        /\ h[m + 1] = IF s[m + 1] \in first \cap second THEN Append(h[m], s[m + 1]) ELSE h[m]
    BY <1>5, <2>1, Zenon
  <2>3. CASE s[m + 1] \in first
    <3>1. filter(Append(g[m], s[m + 1]), second)
            = IF s[m + 1] \in second THEN Append(filter(g[m], second), s[m + 1]) ELSE filter(g[m], second)
      <4> HIDE DEF T
      <4>1. g[m] \in Seq(S) /\ s[m + 1] \in S
        BY <2>1
      <4>2. QED
        BY ONLY <4>1, FilterAppend
    <3>2. g[m + 1] = Append(g[m], s[m + 1]) /\ Append(g[m], s[m + 1]) \in Seq(S)
      BY <2>1, <2>2, <2>3
    <3>3. filter(g[m + 1], second) = h[m + 1]
      BY <2>1, <2>2, <2>3, <3>1, <3>2, Zenon
    <3>4. QED
      BY <2>1, <3>2, <3>3
  <2>4. CASE s[m + 1] \notin first
    <3>1. g[m + 1] = g[m] /\ h[m + 1] = h[m]
      BY <2>2, <2>4, Zenon
    <3>2. QED
      BY <2>1, <3>1
  <2>5. QED
    BY <2>3, <2>4
<1>8. 0 .. n \subseteq T
  BY <1>1, <1>6, <1>7, SetInduction
<1>9. QED
  BY <1>1, <1>4, <1>8

\* As many elements are left as there are indices of chosen ones.
LEMMA FilterLength ==
  ASSUME NEW S, NEW s \in Seq(S), NEW kept
  PROVE  Len(filter(s, kept)) = Cardinality({i \in DOMAIN s : s[i] \in kept})
<1> DEFINE n == Len(s)
           chosen(m) == {i \in 1 .. m : s[i] \in kept}
<1>1. n \in Nat /\ (\A i \in 1 .. n : s[i] \in S) /\ DOMAIN s = 1 .. n
  OBVIOUS
<1>2. PICK g : Filtering(g, s, kept, n)
  BY <1>1, FilteringExists
<1>3. filter(s, kept) = g[n]
  BY <1>2, FilterByFiltering
<1> DEFINE T == {m \in 0 .. n : g[m] \in Seq(S) /\ Len(g[m]) = Cardinality(chosen(m))}
<1> HIDE DEF n
<1>4. \A i \in 0 .. n : g[i] = IF i = 0 THEN <<>>
                               ELSE IF s[i] \in kept THEN Append(g[i - 1], s[i]) ELSE g[i - 1]
  BY <1>2 DEF Filtering
<1>5. 0 \in T
  <2>1. 0 \in 0 .. n /\ g[0] = <<>> /\ <<>> \in Seq(S) /\ Len(<<>>) = 0
    BY <1>1, <1>4
  <2>2. chosen(0) = {} /\ Cardinality({}) = 0
    BY FS_EmptySet
  <2> HIDE DEF chosen
  <2>3. g[0] \in Seq(S) /\ Len(g[0]) = Cardinality(chosen(0))
    BY <2>1, <2>2, Zenon
  <2>4. QED
    BY <2>1, <2>3
<1>6. ASSUME NEW m \in 0 .. n - 1, m \in T PROVE m + 1 \in T
  <2>1. /\ m + 1 \in 0 .. n /\ m + 1 # 0 /\ (m + 1) - 1 = m /\ s[m + 1] \in S
        /\ g[m] \in Seq(S) /\ Len(g[m]) = Cardinality(chosen(m))
    BY <1>1, <1>6
  <2>2. g[m + 1] = IF s[m + 1] \in kept THEN Append(g[m], s[m + 1]) ELSE g[m]
    BY <1>4, <2>1, Zenon
  <2>3. IsFiniteSet(chosen(m))
    <3>1. IsFiniteSet(1 .. m) /\ chosen(m) \subseteq 1 .. m
      BY FS_Interval
    <3>2. QED
      BY <3>1, FS_Subset
  <2>4. CASE s[m + 1] \in kept
    <3>1. chosen(m + 1) = chosen(m) \cup {m + 1} /\ m + 1 \notin chosen(m)
      BY <2>4
    <3> HIDE DEF chosen
    <3>2. Cardinality(chosen(m + 1)) = Cardinality(chosen(m)) + 1
      BY <2>3, <3>1, FS_AddElement
    <3>3. g[m + 1] \in Seq(S) /\ Len(g[m + 1]) = Len(g[m]) + 1
      BY <2>1, <2>2, <2>4
    <3>4. QED
      BY <2>1, <3>2, <3>3
  <2>5. CASE s[m + 1] \notin kept
    <3>1. chosen(m + 1) = chosen(m) /\ g[m + 1] = g[m]
      BY <2>2, <2>5
    <3> HIDE DEF chosen
    <3>2. QED
      BY <2>1, <3>1
  <2>6. QED
    BY <2>4, <2>5
<1>7. 0 .. n \subseteq T
  <2> HIDE DEF chosen
  <2>1. QED
    BY <1>1, <1>5, <1>6, SetInduction
<1>8. QED
  BY <1>1, <1>3, <1>7
-----------------------------------------------------------------------------
\* Publishing: the calls that wait, and those that their handlers stand for.
PublishInv == PublishTypeOK /\ HandlersMatch /\ SuccessIsAcknowledged

-----------------------------------------------------------------------------
\* Walking an array only reaches calls that are in it and that match.
LEMMA VisitedMatch ==
  ASSUME NEW h, NEW matching
  PROVE  Visited(h, matching) \subseteq ValuesOf(h) \cap matching
BY DEF Visited, ValuesOf

\* Taking calls off an array leaves the others, each as often as before.
LEMMA OffLeaves ==
  ASSUME NEW h \in Seq(Publishes), NEW ps
  PROVE  /\ off(h, ps) \in Seq(Publishes)
         /\ ValuesOf(off(h, ps)) = ValuesOf(h) \ ps
         /\ Distinct(h) => Distinct(off(h, ps))
<1>1. filter(h, Publishes \ ps) \in Seq(Publishes)
  BY FilterPicks
<1>2. ValuesOf(filter(h, Publishes \ ps)) = ValuesOf(h) \cap (Publishes \ ps)
  BY FilterValues
<1>3. Distinct(h) => Distinct(filter(h, Publishes \ ps))
  BY FilterDistinct
<1>4. ValuesOf(h) \subseteq Publishes
  BY DEF ValuesOf
<1>5. QED
  BY <1>1, <1>2, <1>3, <1>4 DEF off

\* A new handler goes to the end.
LEMMA OnAdds ==
  ASSUME NEW h \in Seq(Publishes), NEW p \in Publishes
  PROVE  /\ h \o <<p>> \in Seq(Publishes)
         /\ ValuesOf(h \o <<p>>) = ValuesOf(h) \cup {p}
         /\ Distinct(h) /\ p \notin ValuesOf(h) => Distinct(h \o <<p>>)
<1> DEFINE k == h \o <<p>>
<1>1. /\ k \in Seq(Publishes)
      /\ Len(h) \in Nat
      /\ DOMAIN h = 1 .. Len(h) /\ DOMAIN k = 1 .. Len(h) + 1
      /\ \A i \in 1 .. Len(h) : k[i] = h[i]
      /\ k[Len(h) + 1] = p
  OBVIOUS
<1>2. \A i \in 1 .. Len(h) + 1 : i \in 1 .. Len(h) \/ i = Len(h) + 1
  BY <1>1
<1> HIDE DEF k
<1>3. ValuesOf(k) = ValuesOf(h) \cup {p}
  BY <1>1, <1>2 DEF ValuesOf
<1>4. Distinct(h) /\ p \notin ValuesOf(h) => Distinct(k)
  BY <1>1, <1>2 DEF ValuesOf, Distinct
<1>5. QED
  BY <1>1, <1>3, <1>4 DEF k

\* Calls leave the arrays, the timers and the waiting calls together.
LEMMA LeavingKeepsMatch ==
  ASSUME PublishTypeOK, HandlersMatch, NEW ps,
         handlers' = [e \in RelayEvents |-> off(handlers[e], ps)],
         timers' = timers \ ps,
         phase' \in [Publishes -> Phases],
         Waiting' = Waiting \ ps
  PROVE  /\ handlers' \in [RelayEvents -> Seq(Publishes)]
         /\ timers' \subseteq Publishes
         /\ HandlersMatch'
<1>1. ASSUME NEW e \in RelayEvents
      PROVE  /\ handlers'[e] \in Seq(Publishes)
             /\ ValuesOf(handlers'[e]) = Waiting'
             /\ Distinct(handlers'[e])
  <2>1. /\ handlers[e] \in Seq(Publishes)
        /\ ValuesOf(handlers[e]) = Waiting
        /\ Distinct(handlers[e])
    BY DEF PublishTypeOK, HandlersMatch, ValuesOf, Distinct
  <2>2. handlers'[e] = off(handlers[e], ps)
    OBVIOUS
  <2>3. QED
    BY <2>1, <2>2, OffLeaves
<1>2. timers' = Waiting'
  BY DEF HandlersMatch
<1>3. HandlersMatch'
  BY <1>1, <1>2 DEF HandlersMatch, ValuesOf, Distinct
<1>4. QED
  BY <1>1, <1>3 DEF PublishTypeOK

\* Settle keeps the types and the match; it gives its outcome to ps alone.
LEMMA SettleKeeps ==
  ASSUME PublishTypeOK, HandlersMatch, NEW ps, NEW outcome \in Results, Settle(ps, outcome)
  PROVE  /\ phase' \in [Publishes -> Phases]
         /\ result' \in [Publishes -> Results \cup {NoResult}]
         /\ handlers' \in [RelayEvents -> Seq(Publishes)]
         /\ timers' \subseteq Publishes
         /\ HandlersMatch'
         /\ \A p \in Publishes : result'[p] = result[p] \/ (p \in ps /\ result'[p] = outcome)
<1>1. phase' \in [Publishes -> Phases] /\ result' \in [Publishes -> Results \cup {NoResult}]
  BY DEF Settle, PublishTypeOK, Phases
<1>2. Waiting' = Waiting \ ps
  BY DEF Settle, Waiting
<1>3. QED
  BY <1>1, <1>2, LeavingKeepsMatch DEF Settle, PublishTypeOK

\* The outcome of connect() does not reach the calls that wait for an OK.
LEMMA ConnectResultKeeps ==
  ASSUME NEW ph \in [Publishes -> Phases], NEW ok \in BOOLEAN
  PROVE  /\ ConnectResult(ph, ok) \in [Publishes -> Phases]
         /\ \A p \in Publishes : ConnectResult(ph, ok)[p] = "waiting" <=> ph[p] = "waiting"
BY DEF ConnectResult, Phases

-----------------------------------------------------------------------------
\* No call has been made.
LEMMA PublishInitially == PublishInit => PublishInv
<1> SUFFICES ASSUME PublishInit PROVE PublishInv
  OBVIOUS
<1>1. PublishTypeOK
  BY DEF PublishInit, PublishTypeOK, Phases
<1>2. HandlersMatch
  BY DEF PublishInit, HandlersMatch, Waiting
<1>3. SuccessIsAcknowledged
  <2>1. \A p \in Publishes : result[p] = NoResult
    BY DEF PublishInit
  <2>2. QED
    BY <2>1, PublishAssumption DEF SuccessIsAcknowledged, Results
<1>4. QED
  BY <1>1, <1>2, <1>3 DEF PublishInv

\* sendClientMessage after its connection check: the call settles, or it goes
\* to the end of every array with its timer running.
LEMMA SendKeeps ==
  ASSUME PublishInv, NEW p \in Publishes, NEW waitForAck \in BOOLEAN,
         phase[p] \in {"idle", "connected"}, Send(p, waitForAck)
  PROVE  PublishInv'
<1>1. PublishTypeOK /\ HandlersMatch /\ SuccessIsAcknowledged /\ UNCHANGED <<link, accepted>>
  BY DEF PublishInv, Send
<1>2. ASSUME NEW outcome \in {"not_connected", "error", "sent"}, Settle({p}, outcome)
      PROVE  PublishInv'
  <2>1. outcome \in Results
    BY DEF Results
  <2>2. /\ phase' \in [Publishes -> Phases]
        /\ result' \in [Publishes -> Results \cup {NoResult}]
        /\ handlers' \in [RelayEvents -> Seq(Publishes)]
        /\ timers' \subseteq Publishes
        /\ HandlersMatch'
        /\ \A q \in Publishes : result'[q] = result[q] \/ result'[q] = outcome
    BY <1>1, <1>2, <2>1, SettleKeeps
  <2>3. QED
    BY <1>1, <2>2 DEF PublishInv, PublishTypeOK, SuccessIsAcknowledged
<1>3. ASSUME onEach(<<p>>), timers' = timers \cup {p}, phase' = [phase EXCEPT ![p] = "waiting"],
             UNCHANGED result
      PROVE  PublishInv'
  <2>1. Waiting' = Waiting \cup {p} /\ p \notin Waiting
    BY <1>1, <1>3 DEF Waiting, PublishTypeOK
  <2>2. ASSUME NEW e \in RelayEvents
        PROVE  /\ handlers'[e] \in Seq(Publishes)
               /\ ValuesOf(handlers'[e]) = Waiting'
               /\ Distinct(handlers'[e])
    <3>1. /\ handlers[e] \in Seq(Publishes)
          /\ ValuesOf(handlers[e]) = Waiting
          /\ Distinct(handlers[e])
      BY <1>1 DEF PublishTypeOK, HandlersMatch, ValuesOf, Distinct
    <3>2. handlers'[e] = handlers[e] \o <<p>>
      BY <1>3 DEF onEach
    <3>3. QED
      BY <2>1, <3>1, <3>2, OnAdds
  <2>3. HandlersMatch'
    BY <1>1, <1>3, <2>1, <2>2 DEF HandlersMatch, ValuesOf, Distinct
  <2>4. PublishTypeOK'
    BY <1>1, <1>3, <2>2 DEF PublishTypeOK, onEach, Phases
  <2>5. QED
    BY <1>1, <1>3, <2>3, <2>4 DEF PublishInv, SuccessIsAcknowledged
<1>4. QED
  BY <1>2, <1>3 DEF Send

\* An OK settles waiting calls about its event, all of which it accepts if it succeeds.
LEMMA ReceiveOkKeeps ==
  ASSUME PublishInv, NEW e \in EventIds, NEW success \in BOOLEAN, ReceiveOk(e, success)
  PROVE  PublishInv'
<1> DEFINE ps == Visited(handlers["OK"], About(e))
           outcome == IF success THEN "ok" ELSE "rejected"
<1>1. PublishTypeOK /\ HandlersMatch /\ SuccessIsAcknowledged
  BY DEF PublishInv
<1>2. ps \subseteq {p \in Waiting : EventOf[p] = e}
  <2>1. ValuesOf(handlers["OK"]) = Waiting
    BY <1>1 DEF HandlersMatch, RelayEvents, ValuesOf
  <2>2. QED
    BY <2>1, VisitedMatch DEF About
<1>3. /\ phase' \in [Publishes -> Phases]
      /\ result' \in [Publishes -> Results \cup {NoResult}]
      /\ handlers' \in [RelayEvents -> Seq(Publishes)]
      /\ timers' \subseteq Publishes
      /\ HandlersMatch'
      /\ \A p \in Publishes : result'[p] = result[p] \/ (p \in ps /\ result'[p] = outcome)
  <2>1. outcome \in Results /\ Settle(ps, outcome)
    BY DEF ReceiveOk, Results
  <2> HIDE DEF ps, outcome
  <2>2. QED
    BY <1>1, <2>1, SettleKeeps
<1> HIDE DEF ps
<1>4. PublishTypeOK'
  BY <1>1, <1>3 DEF PublishTypeOK, ReceiveOk, Waiting
<1>5. SuccessIsAcknowledged'
  <2> SUFFICES ASSUME NEW p \in Publishes, result'[p] = "ok" PROVE p \in accepted'
    BY DEF SuccessIsAcknowledged
  <2>1. CASE result'[p] = result[p]
    BY <1>1, <2>1 DEF SuccessIsAcknowledged, ReceiveOk
  <2>2. CASE p \in ps /\ success
    BY <1>2, <2>2 DEF ReceiveOk
  <2>3. QED
    BY <1>3, <2>1, <2>2
<1>6. QED
  BY <1>3, <1>4, <1>5 DEF PublishInv

\* Any other outcome but success needs no acknowledgement.
LEMMA FailureKeeps ==
  ASSUME PublishInv, NEW ps, NEW outcome \in Results, outcome # "ok", Settle(ps, outcome),
         UNCHANGED <<link, accepted>>
  PROVE  PublishInv'
<1>1. PublishTypeOK /\ HandlersMatch /\ SuccessIsAcknowledged
  BY DEF PublishInv
<1>2. /\ phase' \in [Publishes -> Phases]
      /\ result' \in [Publishes -> Results \cup {NoResult}]
      /\ handlers' \in [RelayEvents -> Seq(Publishes)]
      /\ timers' \subseteq Publishes
      /\ HandlersMatch'
      /\ \A p \in Publishes : result'[p] = result[p] \/ result'[p] = outcome
  BY <1>1, SettleKeeps
<1>3. QED
  BY <1>1, <1>2 DEF PublishInv, PublishTypeOK, SuccessIsAcknowledged

\* A disconnection settles the calls it reaches and refuses those that connect.
LEMMA DisconnectedKeeps ==
  ASSUME PublishInv, Disconnected
  PROVE  PublishInv'
<1> DEFINE ps == Visited(handlers["Disconnect"], Publishes)
           ph == [p \in Publishes |-> IF p \in ps THEN "done" ELSE phase[p]]
<1>1. PublishTypeOK /\ HandlersMatch /\ SuccessIsAcknowledged
  BY DEF PublishInv
<1>2. /\ handlers' = [e \in RelayEvents |-> off(handlers[e], ps)]
      /\ timers' = timers \ ps
      /\ result' = [p \in Publishes |-> IF p \in ps /\ result[p] = NoResult THEN "disconnected"
                                        ELSE result[p]]
      /\ phase' = ConnectResult(ph, FALSE)
      /\ link' = "down" /\ UNCHANGED accepted
  BY DEF Disconnected, TriggerDisconnect
<1> HIDE DEF ps
<1>3. ph \in [Publishes -> Phases]
  BY <1>1 DEF PublishTypeOK, Phases
<1>4. phase' \in [Publishes -> Phases] /\ Waiting' = Waiting \ ps
  BY <1>2, <1>3, ConnectResultKeeps DEF Waiting
<1>5. /\ handlers' \in [RelayEvents -> Seq(Publishes)]
      /\ timers' \subseteq Publishes
      /\ HandlersMatch'
  BY <1>1, <1>2, <1>4, LeavingKeepsMatch
<1>6. PublishTypeOK' /\ SuccessIsAcknowledged'
  BY <1>1, <1>2, <1>4, <1>5 DEF PublishTypeOK, SuccessIsAcknowledged, Results
<1>7. QED
  BY <1>5, <1>6 DEF PublishInv

\* Steps that touch no handler, timer or result leave the waiting calls alone.
LEMMA PhaseKeeps ==
  ASSUME PublishInv, UNCHANGED <<result, handlers, timers, accepted>>,
         link' \in {"down", "connecting", "open", "closing"},
         phase' \in [Publishes -> Phases],
         \A p \in Publishes : phase'[p] = "waiting" <=> phase[p] = "waiting"
  PROVE  PublishInv'
<1>1. Waiting' = Waiting
  BY DEF Waiting
<1>2. QED
  BY <1>1 DEF PublishInv, PublishTypeOK, HandlersMatch, SuccessIsAcknowledged

\* Every step keeps the invariant.
LEMMA PublishStep == PublishInv /\ [PublishNext]_publishVars => PublishInv'
<1> SUFFICES ASSUME PublishInv, [PublishNext]_publishVars PROVE PublishInv'
  OBVIOUS
<1>0. phase \in [Publishes -> Phases] /\ link \in {"down", "connecting", "open", "closing"}
  BY DEF PublishInv, PublishTypeOK
<1>1. CASE StartConnecting \/ Closing
  <2>1. CASE StartConnecting
    BY <1>0, <2>1, PhaseKeeps DEF StartConnecting
  <2>2. CASE Closing
    BY <1>0, <2>2, PhaseKeeps DEF Closing
  <2>3. QED
    BY <1>1, <2>1, <2>2
<1>2. CASE Connected \/ ConnectFailed
  BY <1>0, <1>2, PhaseKeeps, ConnectResultKeeps DEF Connected, ConnectFailed
<1>3. CASE Disconnected
  BY <1>3, DisconnectedKeeps
<1>4. ASSUME NEW e \in EventIds, ErrorAbout(e) PROVE PublishInv'
  BY <1>4, FailureKeeps DEF ErrorAbout, Results
<1>5. ASSUME NEW e \in EventIds, NEW success \in BOOLEAN, ReceiveOk(e, success) PROVE PublishInv'
  BY <1>5, ReceiveOkKeeps
<1>6. ASSUME NEW p \in Publishes, PublishOffline(p) PROVE PublishInv'
  BY <1>0, <1>6, PhaseKeeps DEF PublishOffline, Phases
<1>7. ASSUME NEW p \in Publishes, AckTimeout(p) PROVE PublishInv'
  BY <1>7, FailureKeeps DEF AckTimeout, Results
<1>8. ASSUME NEW p \in Publishes, NEW waitForAck \in BOOLEAN, Publish(p, waitForAck)
      PROVE  PublishInv'
  BY <1>8, SendKeeps DEF Publish
<1>9. ASSUME NEW p \in Publishes, NEW waitForAck \in BOOLEAN, ConnectAwaited(p, waitForAck)
      PROVE  PublishInv'
  BY <1>9, SendKeeps, FailureKeeps DEF ConnectAwaited, Results
<1>10. CASE UNCHANGED publishVars
  BY <1>0, <1>10, PhaseKeeps DEF publishVars
<1>11. QED
  BY <1>1, <1>2, <1>3, <1>4, <1>5, <1>6, <1>7, <1>8, <1>9, <1>10 DEF PublishNext

\* Whatever the calls and events: types, matching handlers and truthful successes.
THEOREM PublishInvariant == PublishSpec => []PublishInv
  BY PublishInitially, PublishStep, PTL DEF PublishSpec

\* No handler or timer of publish() outlives its call, and none that waits has
\* lost one, although walks of the live arrays skip handlers (relay.ts 1085-1101).
THEOREM HandlersAlwaysMatch == PublishSpec => []HandlersMatch
<1>1. PublishInv => HandlersMatch
  BY DEF PublishInv
<1>2. QED
  BY <1>1, PublishInvariant, PTL

\* A publish() that resolves with success was accepted by the relay after it
\* was sent, even if several calls publish one event (relay.ts 729-768).
THEOREM SuccessAcknowledged == PublishSpec => []SuccessIsAcknowledged
<1>1. PublishInv => SuccessIsAcknowledged
  BY DEF PublishInv
<1>2. QED
  BY <1>1, PublishInvariant, PTL

-----------------------------------------------------------------------------
\* Only the continuation of publish() sends, and it checks the connection.
LEMMA SendsWhenOpen == [PublishNext]_publishVars => (\A p \in Publishes : Sends(p) => link = "open")
<1> SUFFICES ASSUME [PublishNext]_publishVars, NEW p \in Publishes, Sends(p) PROVE link = "open"
  OBVIOUS
<1>1. ASSUME NEW ps, NEW outcome, outcome # "sent", Settle(ps, outcome) PROVE FALSE
  BY <1>1 DEF Settle, Sends
<1>2. ASSUME NEW q \in Publishes, NEW waitForAck \in BOOLEAN, Send(q, waitForAck)
      PROVE  link = "open"
  BY <1>1, <1>2 DEF Send, CanSend
<1>3. CASE StartConnecting \/ Closing
  BY <1>3 DEF StartConnecting, Closing, Sends
<1>4. CASE Connected \/ ConnectFailed
  BY <1>4 DEF Connected, ConnectFailed, ConnectResult, Sends
<1>5. CASE Disconnected
  BY <1>5 DEF Disconnected, TriggerDisconnect, ConnectResult, Sends
<1>6. ASSUME NEW e \in EventIds, ErrorAbout(e) PROVE FALSE
  BY <1>1, <1>6 DEF ErrorAbout
<1>7. ASSUME NEW e \in EventIds, NEW success \in BOOLEAN, ReceiveOk(e, success) PROVE FALSE
  BY <1>1, <1>7 DEF ReceiveOk
<1>8. ASSUME NEW q \in Publishes, PublishOffline(q) PROVE FALSE
  BY <1>8 DEF PublishOffline, Sends
<1>9. ASSUME NEW q \in Publishes, AckTimeout(q) PROVE FALSE
  BY <1>1, <1>9 DEF AckTimeout
<1>10. ASSUME NEW q \in Publishes, NEW waitForAck \in BOOLEAN,
              Publish(q, waitForAck) \/ ConnectAwaited(q, waitForAck)
       PROVE  link = "open"
  BY <1>1, <1>2, <1>10 DEF Publish, ConnectAwaited
<1>11. CASE UNCHANGED publishVars
  BY <1>11 DEF publishVars, Sends
<1>12. QED
  BY <1>3, <1>4, <1>5, <1>6, <1>7, <1>8, <1>9, <1>10, <1>11 DEF PublishNext

\* An event goes out on an open socket only, whatever happened to the connection
\* while its call awaited connect() (relay.ts 711-717).
THEOREM SendsOnlyWhenOpen == PublishSpec => SentWhenOpen
  BY SendsWhenOpen, PTL DEF PublishSpec, SentWhenOpen

-----------------------------------------------------------------------------
\* The ephemeral relay: what its cache holds, and what its subscribers were told.

Sorted(s) == \A i, j \in DOMAIN s : i < j => ~Above(s[j], s[i])

\* The cache is sorted, has one event of each key, and for each event that came it
\* has one at least as new.
CacheInv ==
  /\ cache \in Seq(Events) /\ arrived \subseteq Events
  /\ Range(cache) \subseteq arrived
  /\ Sorted(cache)
  /\ \A i, j \in DOMAIN cache : cache[i].key = cache[j].key /\ cache[i].key # NoKey => i = j
  /\ \A e \in arrived : IF e.key = NoKey THEN e \in Range(cache)
                      ELSE \E d \in Range(cache) : d.key = e.key /\ ~Above(e, d)

\* Subscriptions are those of sessions, whose sockets were connected, once.
SessionsInv ==
  /\ client \in [Sockets -> {"none", "CONNECTING", "OPEN", "CLOSING", "CLOSED"}]
  /\ server \in [Sockets -> {"none", "OPEN", "CLOSING", "CLOSED"}]
  /\ told \in [Sockets -> SUBSET (SubIds \X Events)]
  /\ validating \subseteq Sockets \X Events
  /\ sessions \subseteq Sockets /\ clients \subseteq Sockets
  /\ \A s \in sessions \cup clients : client[s] # "none"
  /\ subs \subseteq [socket : sessions, id : SubIds, filter : Filters]

EphemeralInv == CacheInv /\ SessionsInv /\ ViewCoversCache

-----------------------------------------------------------------------------
\* Which of two events precedes the other is settled by their dates and ids.
LEMMA AboveOrders ==
  /\ \A d, e \in Events : d # e => Above(d, e) \/ Above(e, d)
  /\ \A d, e \in Events : ~ (Above(d, e) /\ Above(e, d))
  /\ \A c, d, e \in Events : ~Above(d, c) /\ ~Above(e, d) => ~Above(e, c)
  /\ \A d, e \in Events : Newer(d, e) <=> Above(d, e)
  BY RelayAssumption DEF Above, Newer

\* A set of indices that has with each index all before it is counted by its last.
LEMMA InitialSegment ==
  ASSUME NEW n \in Nat, NEW A, A \subseteq 1 .. n, \A i \in A : \A j \in 1 .. i : j \in A
  PROVE  A = 1 .. Cardinality(A) /\ Cardinality(A) \in 0 .. n
<1> DEFINE T == {i \in 0 .. n : i + 1 \notin A}
<1>1. n \in T /\ T \subseteq Nat
  OBVIOUS
<1>2. PICK m \in T : \A i \in T : m <= i
  BY <1>1, LeastNumber
<1>3. m \in 0 .. n /\ m + 1 \notin A /\ \A i \in 0 .. m - 1 : i + 1 \in A
  BY <1>2
<1>4. A = 1 .. m
  <2>1. ASSUME NEW j \in 1 .. m PROVE j \in A
    <3>1. j - 1 \in 0 .. m - 1 /\ (j - 1) + 1 = j
      BY <1>3
    <3>2. QED
      BY <1>3, <3>1
  <2>2. ASSUME NEW j \in A PROVE j \in 1 .. m
    <3>1. j > m => m + 1 \in 1 .. j
      BY <1>3
    <3>2. QED
      BY <1>3, <3>1
  <2>3. QED
    BY <2>1, <2>2
<1>5. Cardinality(1 .. m) = m
  BY <1>3, FS_Interval
<1>6. QED
  BY <1>3, <1>4, <1>5

\* An element put between two parts of an array.
LEMMA Inserted ==
  ASSUME NEW S, NEW s \in Seq(S), NEW e \in S, NEW k \in 0 .. Len(s)
  PROVE  /\ InsertAt(s, k + 1, e) \in Seq(S)
         /\ Len(InsertAt(s, k + 1, e)) = Len(s) + 1
         /\ \A i \in 1 .. k : InsertAt(s, k + 1, e)[i] = s[i]
         /\ InsertAt(s, k + 1, e)[k + 1] = e
         /\ \A i \in k + 2 .. Len(s) + 1 : InsertAt(s, k + 1, e)[i] = s[i - 1]
<1> DEFINE a == SubSeq(s, 1, k)
           b == SubSeq(s, k + 1, Len(s))
           t == InsertAt(s, k + 1, e)
<1>1. a \in Seq(S) /\ Len(a) = k /\ \A i \in 1 .. k : a[i] = s[i]
  OBVIOUS
<1>2. b \in Seq(S) /\ Len(b) = Len(s) - k /\ \A i \in 1 .. Len(s) - k : b[i] = s[k + i]
  OBVIOUS
<1> HIDE DEF a, b
<1> DEFINE c == a \o <<e>>
<1>3. c \in Seq(S) /\ Len(c) = k + 1 /\ (\A i \in 1 .. k : c[i] = s[i]) /\ c[k + 1] = e
  BY <1>1
<1>4. t = c \o b
  <2>1. (k + 1) - 1 = k
    OBVIOUS
  <2>2. t = (SubSeq(s, 1, (k + 1) - 1) \o <<e>>) \o SubSeq(s, k + 1, Len(s))
    BY DEF InsertAt
  <2>3. QED
    BY <2>1, <2>2 DEF a, b
<1> HIDE DEF c, t
<1>5. /\ t \in Seq(S) /\ Len(t) = Len(s) + 1
      /\ \A i \in 1 .. k + 1 : t[i] = c[i]
      /\ \A i \in k + 2 .. Len(s) + 1 : t[i] = b[i - (k + 1)]
  <2>1. Len(s) \in Nat /\ k \in Nat /\ k <= Len(s)
    OBVIOUS
  <2>2. t \in Seq(S) /\ Len(t) = Len(c) + Len(b)
    BY ONLY <1>2, <1>3, <1>4, ConcatProperties
  <2>3. \A i \in 1 .. Len(c) + Len(b) : t[i] = IF i <= Len(c) THEN c[i] ELSE b[i - Len(c)]
    BY ONLY <1>2, <1>3, <1>4, ConcatProperties
  <2>4. Len(c) = k + 1 /\ Len(c) + Len(b) = Len(s) + 1
    BY ONLY <1>2, <1>3, <2>1
  <2>5. \A i \in 1 .. k + 1 : t[i] = c[i]
    BY ONLY <2>1, <2>3, <2>4
  <2>6. \A i \in k + 2 .. Len(s) + 1 : t[i] = b[i - (k + 1)]
    BY ONLY <2>1, <2>3, <2>4
  <2>7. QED
    BY ONLY <2>2, <2>4, <2>5, <2>6
<1>6. \A i \in k + 2 .. Len(s) + 1 : b[i - (k + 1)] = s[i - 1]
  <2>1. ASSUME NEW i \in k + 2 .. Len(s) + 1
        PROVE  i - (k + 1) \in 1 .. Len(s) - k /\ k + (i - (k + 1)) = i - 1
    OBVIOUS
  <2>2. QED
    BY <1>2, <2>1
<1>7. QED
  BY <1>3, <1>5, <1>6 DEF t

\* Taking elements out leaves a sorted array sorted, and at most one of a key.
LEMMA FilterSorted ==
  ASSUME NEW s \in Seq(Events), NEW kept, Sorted(s),
         \A i, j \in DOMAIN s : s[i].key = s[j].key /\ s[i].key # NoKey => i = j
  PROVE  LET r == filter(s, kept) IN
         /\ r \in Seq(Events) /\ Sorted(r) /\ Range(r) = Range(s) \cap kept
         /\ \A i, j \in DOMAIN r : r[i].key = r[j].key /\ r[i].key # NoKey => i = j
<1> DEFINE r == filter(s, kept)
<1>1. r \in Seq(Events) /\ ValuesOf(r) = ValuesOf(s) \cap kept
  BY FilterPicks, FilterValues
<1>2. PICK pos : Picks(pos, s, kept, Len(s), r)
  BY FilterPicks
<1> HIDE DEF r
<1>3. /\ \A i \in DOMAIN r : pos[i] \in DOMAIN s /\ r[i] = s[pos[i]]
      /\ \A i, j \in DOMAIN r : i < j => pos[i] < pos[j]
  BY <1>1, <1>2 DEF Picks
<1>4. Sorted(r)
  BY <1>3 DEF Sorted
<1>5. \A i, j \in DOMAIN r : r[i].key = r[j].key /\ r[i].key # NoKey => i = j
  <2>1. ASSUME NEW i \in DOMAIN r, NEW j \in DOMAIN r, r[i].key = r[j].key, r[i].key # NoKey, i # j
        PROVE  FALSE
    <3>1. pos[i] = pos[j]
      BY <1>3, <2>1
    <3>2. i \in Nat /\ j \in Nat /\ pos[i] \in Nat /\ pos[j] \in Nat
      BY <1>1, <1>3
    <3>3. i < j \/ j < i
      BY <2>1, <3>2
    <3>4. QED
      BY <1>3, <3>1, <3>2, <3>3
  <2>2. QED
    BY <2>1
<1>6. QED
  BY <1>1, <1>4, <1>5 DEF ValuesOf, Range, r

\* Without the events of one key at most one is missing.
LEMMA FilterLosesOne ==
  ASSUME NEW s \in Seq(Events), NEW kept,
         \A i, j \in DOMAIN s : s[i] \notin kept /\ s[j] \notin kept => i = j
  PROVE  Len(filter(s, kept)) + 1 >= Len(s)
<1> DEFINE K == {i \in DOMAIN s : s[i] \in kept}
<1>1. Len(filter(s, kept)) = Cardinality(K)
  BY FilterLength
<1> HIDE DEF K
<1>2. IsFiniteSet(1 .. Len(s)) /\ Cardinality(1 .. Len(s)) = Len(s) /\ DOMAIN s = 1 .. Len(s)
  <2>1. Len(s) \in Nat /\ DOMAIN s = 1 .. Len(s)
    OBVIOUS
  <2>2. IsFiniteSet(1 .. Len(s)) /\ Cardinality(1 .. Len(s)) = Len(s)
    BY <2>1, FS_Interval
  <2>3. QED
    BY <2>1, <2>2
<1>3. IsFiniteSet(K) /\ Cardinality(K) \in Nat
  <2>1. K \subseteq 1 .. Len(s)
    BY <1>2 DEF K
  <2>2. QED
    BY <1>2, <2>1, FS_Subset, FS_CardinalityType
<1>4. CASE K = DOMAIN s
  BY <1>1, <1>2, <1>4
<1>5. CASE K # DOMAIN s
  <2>1. PICK j \in DOMAIN s : s[j] \notin kept
    BY <1>5 DEF K
  <2>2. DOMAIN s = K \cup {j} /\ j \notin K
    BY <2>1 DEF K
  <2>3. Cardinality(DOMAIN s) = Cardinality(K) + 1
    BY <1>3, <2>2, FS_AddElement
  <2>4. QED
    BY <1>1, <1>2, <1>3, <2>3
<1>6. QED
  BY <1>4, <1>5

-----------------------------------------------------------------------------
\* store(): an event that is not outdated takes the place of the one it replaces.
LEMMA StoreKeeps ==
  ASSUME CacheInv, NEW e \in Events, cache' = Store(e), arrived' = arrived \cup {e}
  PROVE  /\ CacheInv'
         /\ Len(cache') >= Len(cache)
         /\ Range(cache') \subseteq Range(cache) \cup {e}
<1> USE DEF CacheInv
<1> DEFINE kept == {d \in Events : e.key = NoKey \/ d.key # e.key}
           rest == filter(cache, kept)
           over == {i \in DOMAIN rest : ~Newer(e, rest[i])}
<1>0. Len(cache) \in Nat /\ \A d \in Range(cache) : d \in Events /\ d \in arrived
  BY DEF Range
<1>1. CASE Outdated(e)
  <2>1. cache' = cache
    BY <1>1 DEF Store
  <2>2. PICK i \in DOMAIN cache : cache[i].key = e.key /\ Above(cache[i], e)
    BY <1>1, AboveOrders DEF Outdated
  <2>3. e.key # NoKey /\ cache[i] \in Range(cache) /\ ~Above(e, cache[i])
    BY <1>0, <1>1, <2>2, AboveOrders DEF Outdated, Range
  <2>4. QED
    BY <1>0, <2>1, <2>2, <2>3 DEF Sorted
<1>2. CASE ~Outdated(e)
  <2>1. /\ rest \in Seq(Events) /\ Sorted(rest) /\ Range(rest) = Range(cache) \cap kept
        /\ \A i, j \in DOMAIN rest : rest[i].key = rest[j].key /\ rest[i].key # NoKey => i = j
    BY FilterSorted
  <2>2. Len(rest) + 1 >= Len(cache)
    <3>1. \A i, j \in DOMAIN cache : cache[i] \notin kept /\ cache[j] \notin kept => i = j
      BY <1>0 DEF Range
    <3>2. QED
      BY <3>1, FilterLosesOne
  <2>3. cache' = InsertAt(rest, Cardinality(over) + 1, e)
    BY <1>2 DEF Store
  <2>4. Len(rest) \in Nat /\ DOMAIN rest = 1 .. Len(rest) /\ \A i \in DOMAIN rest : rest[i] \in Events /\ rest[i] \in kept
    <3>1. \A i \in DOMAIN rest : rest[i] \in Range(rest)
      BY DEF Range
    <3>2. QED
      BY <2>1, <3>1
  <2> HIDE DEF rest
  <2>5. over = 1 .. Cardinality(over) /\ Cardinality(over) \in 0 .. Len(rest)
    <3>1. over \subseteq 1 .. Len(rest)
      BY <2>4
    <3>2. ASSUME NEW i \in over, NEW j \in 1 .. i PROVE j \in over
      <4>1. i \in DOMAIN rest /\ j \in DOMAIN rest /\ (j = i \/ j < i)
        BY <2>4
      <4>2. ~Above(rest[i], rest[j]) \/ i = j
        BY <2>1, <4>1 DEF Sorted
      <4>3. QED
        BY <2>4, <4>1, <4>2, AboveOrders
    <3>3. QED
      BY <2>4, <3>1, <3>2, InitialSegment
  <2> DEFINE k == Cardinality(over)
  <2>6. /\ cache' \in Seq(Events) /\ Len(cache') = Len(rest) + 1
        /\ \A i \in 1 .. k : cache'[i] = rest[i]
        /\ cache'[k + 1] = e
        /\ \A i \in k + 2 .. Len(rest) + 1 : cache'[i] = rest[i - 1]
    <3>1. k \in 0 .. Len(rest) /\ cache' = InsertAt(rest, k + 1, e)
      BY <2>3, <2>5
    <3> HIDE DEF k
    <3>2. rest \in Seq(Events)
      BY <2>1
    <3>3. cache' \in Seq(Events) /\ Len(cache') = Len(rest) + 1
      BY ONLY <3>1, <3>2, e \in Events, Inserted
    <3>4. cache'[k + 1] = e
      BY ONLY <3>1, <3>2, e \in Events, Inserted
    <3>5. \A i \in 1 .. k : cache'[i] = rest[i]
      BY ONLY <3>1, <3>2, e \in Events, Inserted
    <3>6. \A i \in k + 2 .. Len(rest) + 1 : cache'[i] = rest[i - 1]
      BY ONLY <3>1, <3>2, e \in Events, Inserted
    <3>7. QED
      BY <3>3, <3>4, <3>5, <3>6
  <2>7. /\ \A i \in 1 .. k : ~Above(e, rest[i])
        /\ \A i \in k + 1 .. Len(rest) : Above(e, rest[i])
    <3>1. \A i \in 1 .. Len(rest) : i \in over <=> ~Above(e, rest[i])
      BY <2>4, AboveOrders
    <3>2. over = 1 .. k /\ k \in 0 .. Len(rest)
      BY <2>5
    <3> HIDE DEF over, k
    <3>3. QED
      BY <2>4, <3>1, <3>2
  <2> HIDE DEF over
  <2> HIDE DEF k
  <2>8. k \in 0 .. Len(rest)
    BY <2>5 DEF k
  \* where an event of the new array comes from
  <2>9. \A i \in DOMAIN cache' :
          \/ i \in 1 .. k /\ i \in DOMAIN rest /\ cache'[i] = rest[i]
          \/ i = k + 1 /\ cache'[i] = e
          \/ i \in k + 2 .. Len(rest) + 1 /\ i - 1 \in DOMAIN rest /\ cache'[i] = rest[i - 1]
    <3>1. DOMAIN cache' = 1 .. Len(rest) + 1
      BY <2>4, <2>6
    <3>2. QED
      BY <2>4, <2>6, <2>8, <3>1
  <2>10. Range(cache') = Range(rest) \cup {e}
    <3>1. Range(cache') \subseteq Range(rest) \cup {e}
      BY <2>9 DEF Range
    <3>2. e \in Range(cache')
      <4>1. k + 1 \in DOMAIN cache'
        BY <2>4, <2>6, <2>8
      <4>2. QED
        BY <2>6, <4>1 DEF Range
    <3>3. ASSUME NEW i \in DOMAIN rest PROVE rest[i] \in Range(cache')
      <4>1. CASE i <= k
        BY <2>4, <2>6, <2>8, <4>1 DEF Range
      <4>2. CASE i > k
        <5>1. i + 1 \in k + 2 .. Len(rest) + 1 /\ i + 1 \in DOMAIN cache' /\ (i + 1) - 1 = i
          BY <2>4, <2>6, <2>8, <4>2
        <5>2. QED
          BY <2>6, <5>1 DEF Range
      <4>3. QED
        BY <2>4, <2>8, <4>1, <4>2
    <3>4. QED
      BY <3>1, <3>2, <3>3 DEF Range
  <2>11. Sorted(cache')
    <3>1. ASSUME NEW i \in DOMAIN cache', NEW j \in DOMAIN cache', i < j
          PROVE  ~Above(cache'[j], cache'[i])
      <4>1. \A x, y \in DOMAIN rest : x < y => ~Above(rest[y], rest[x])
        BY <2>1 DEF Sorted
      <4>2. \A x \in DOMAIN rest : x \in Nat /\ rest[x] \in Events
        BY <2>4
      <4>0. i \in Nat /\ j \in Nat /\ k \in Nat
        BY <2>6, <2>8
      <4>3. CASE cache'[i] = e
        <5>1. CASE cache'[j] = e
          BY <4>3, <5>1, AboveOrders
        <5>2. CASE cache'[j] # e
          <6>1. PICK y \in DOMAIN rest : cache'[j] = rest[y] /\ ((y = j /\ j <= k) \/ (y = j - 1 /\ j > k + 1))
            BY <2>8, <2>9, <5>2
          <6>2. CASE Above(e, rest[y])
            BY <4>2, <4>3, <6>1, <6>2, AboveOrders
          <6>3. CASE ~Above(e, rest[y])
            <7>1. y \in 1 .. k
              BY <2>4, <2>7, <4>0, <6>3
            <7>2. j <= k /\ i <= k /\ i # k + 1
              BY <3>1, <4>0, <6>1, <7>1
            <7>3. i \in DOMAIN rest /\ cache'[i] = rest[i] /\ j \in DOMAIN rest /\ cache'[j] = rest[j]
              BY <2>9, <4>0, <7>2
            <7>4. QED
              BY <3>1, <4>1, <7>3
          <6>4. QED
            BY <6>2, <6>3
        <5>3. QED
          BY <5>1, <5>2
      <4>4. CASE cache'[j] = e /\ cache'[i] # e
        <5>1. PICK x \in DOMAIN rest : cache'[i] = rest[x] /\ ((x = i /\ i <= k) \/ (x = i - 1 /\ i > k + 1))
          BY <2>8, <2>9, <4>4
        <5>2. CASE x \in 1 .. k
          BY <2>7, <4>4, <5>1, <5>2
        <5>3. CASE x \notin 1 .. k
          <6>1. i > k + 1 /\ j > k + 1
            BY <2>4, <3>1, <4>0, <5>1, <5>3
          <6>2. i - 1 \in DOMAIN rest /\ cache'[i] = rest[i - 1] /\ j - 1 \in DOMAIN rest /\ cache'[j] = rest[j - 1]
            BY <2>9, <4>0, <6>1
          <6>3. QED
            BY <3>1, <4>0, <4>1, <6>2
        <5>4. QED
          BY <5>2, <5>3
      <4>5. CASE cache'[i] # e /\ cache'[j] # e
        <5>1. i \in Nat /\ j \in Nat /\ k \in Nat
          BY <2>6, <2>8
        <5>2. PICK x \in DOMAIN rest : cache'[i] = rest[x] /\ ((x = i /\ i <= k) \/ (x = i - 1 /\ i > k + 1))
          BY <2>8, <2>9, <4>5
        <5>3. PICK y \in DOMAIN rest : cache'[j] = rest[y] /\ ((y = j /\ j <= k) \/ (y = j - 1 /\ j > k + 1))
          BY <2>8, <2>9, <4>5
        <5>4. x < y
          BY <3>1, <4>2, <5>1, <5>2, <5>3
        <5>5. QED
          BY <4>1, <5>2, <5>3, <5>4
      <4>6. QED
        BY <4>3, <4>4, <4>5
    <3>2. QED
      BY <3>1 DEF Sorted
  <2>12. \A i, j \in DOMAIN cache' : cache'[i].key = cache'[j].key /\ cache'[i].key # NoKey => i = j
    <3>1. \A x \in DOMAIN rest : e.key # NoKey => rest[x].key # e.key
      BY <2>4
    <3>2. \A x \in DOMAIN rest : x \in Nat
      BY <2>4
    <3>3. ASSUME NEW i \in DOMAIN cache', NEW j \in DOMAIN cache',
                 cache'[i].key = cache'[j].key, cache'[i].key # NoKey
          PROVE  i = j
      <4>1. \A n \in DOMAIN cache' : n # k + 1 =>
              \E x \in DOMAIN rest : cache'[n] = rest[x] /\ ((x = n /\ n <= k) \/ (x = n - 1 /\ n > k + 1))
        BY <2>8, <2>9
      <4>2. i \in Nat /\ j \in Nat /\ k \in Nat
        BY <2>6, <2>8
      <4>3. CASE i = k + 1
        <5>1. cache'[j].key = e.key /\ e.key # NoKey
          BY <2>6, <3>3, <4>3
        <5>2. QED
          BY <3>1, <4>1, <4>3, <5>1
      <4>4. CASE j = k + 1
        <5>1. cache'[i].key = e.key /\ e.key # NoKey
          BY <2>6, <3>3, <4>4
        <5>2. QED
          BY <3>1, <4>1, <4>4, <5>1
      <4>5. CASE i # k + 1 /\ j # k + 1
        <5>1. PICK x \in DOMAIN rest : cache'[i] = rest[x] /\ ((x = i /\ i <= k) \/ (x = i - 1 /\ i > k + 1))
          BY <4>1, <4>5
        <5>2. PICK y \in DOMAIN rest : cache'[j] = rest[y] /\ ((y = j /\ j <= k) \/ (y = j - 1 /\ j > k + 1))
          BY <4>1, <4>5
        <5>3. x = y
          BY <2>1, <3>3, <5>1, <5>2
        <5>4. QED
          BY <3>2, <4>2, <5>1, <5>2, <5>3
      <4>6. QED
        BY <4>3, <4>4, <4>5
    <3>4. QED
      BY <3>3
  <2>13. \A f \in arrived' : IF f.key = NoKey THEN f \in Range(cache')
                           ELSE \E d \in Range(cache') : d.key = f.key /\ ~Above(f, d)
    <3>1. ASSUME NEW f \in arrived
          PROVE  IF f.key = NoKey THEN f \in Range(cache')
                 ELSE \E d \in Range(cache') : d.key = f.key /\ ~Above(f, d)
      <4>1. CASE f.key = NoKey
        BY <1>0, <2>1, <2>10, <4>1
      <4>2. CASE f.key # NoKey
        <5>1. PICK d \in Range(cache) : d.key = f.key /\ ~Above(f, d)
          BY <4>2
        <5>2. CASE d \in kept
          BY <2>1, <2>10, <4>2, <5>1, <5>2
        <5>3. CASE d \notin kept
          <6>1. d.key = e.key /\ e.key # NoKey
            BY <1>0, <5>3
          <6>2. ~Above(d, e)
            BY <1>0, <1>2, <6>1, AboveOrders DEF Outdated, Range
          <6>3. ~Above(f, e)
            BY <1>0, <5>1, <6>2, AboveOrders
          <6>4. QED
            BY <2>10, <4>2, <5>1, <6>1, <6>3
        <5>4. QED
          BY <5>2, <5>3
      <4>3. QED
        BY <4>1, <4>2
    <3>2. IF e.key = NoKey THEN e \in Range(cache')
          ELSE \E d \in Range(cache') : d.key = e.key /\ ~Above(e, d)
      BY <2>10, AboveOrders
    <3>3. QED
      BY <3>1, <3>2
  <2>14. Range(cache') \subseteq Range(cache) \cup {e}
    BY <2>1, <2>10
  <2>15. Range(cache') \subseteq arrived'
    BY <1>0, <2>14
  <2>16. Len(cache') >= Len(cache)
    BY <1>0, <2>2, <2>4, <2>6
  <2>17. arrived' \subseteq Events
    OBVIOUS
  <2>18. QED
    BY <2>6, <2>11, <2>12, <2>13, <2>14, <2>15, <2>16, <2>17
<1>3. QED
  BY <1>1, <1>2

\* The type of the events of the cache is part of what is stored.
LEMMA CacheUnchanged ==
  ASSUME CacheInv, UNCHANGED stored
  PROVE  CacheInv'
  BY DEF CacheInv, Sorted, stored

LEMMA CacheEmptied ==
  ASSUME cache' = <<>>, arrived' = {}
  PROVE  CacheInv'
<1>1. cache' \in Seq(Events) /\ DOMAIN cache' = {} /\ Range(cache') = {}
  BY DEF Range
<1>2. QED
  BY <1>1 DEF CacheInv, Sorted

\* Every step keeps the cache as it must be.
LEMMA CacheStep ==
  ASSUME CacheInv, SessionsInv, [EphemeralNext]_ephemeralVars
  PROVE  CacheInv'
<1>1. CASE UNCHANGED stored
  BY <1>1, CacheUnchanged
<1>2. CASE Purge \/ Close
  BY <1>2, CacheEmptied DEF Purge, Close
<1>3. ASSUME NEW s \in Sockets, NEW e \in Events, Validated(s, e)
      PROVE  CacheInv'
  <2>1. CASE e \in Invalid
    BY <1>1, <1>3, <2>1 DEF Validated
  <2>2. CASE e \notin Invalid
    <3>1. cache' = Store(e) /\ arrived' = arrived \cup {e}
      BY <1>3, <2>2 DEF Validated
    <3>2. QED
      BY <3>1, StoreKeeps
  <2>3. QED
    BY <2>1, <2>2
<1>4. CASE Start \/ CloseFinished
  BY <1>1, <1>4 DEF Start, CloseFinished
<1>5. CASE RunMicrotask
  BY <1>1, <1>5 DEF RunMicrotask, ClientOpen, ReceiveFromServer, SocketClosed, HandleConnection
<1>6. ASSUME NEW s \in Sockets, Connect(s) \/ ClientClose(s)
      PROVE  CacheInv'
  BY <1>1, <1>6 DEF Connect, ClientClose
<1>7. ASSUME NEW s \in Sockets, NEW id \in SubIds, OnClose(s, id) \/ \E f \in Filters : OnReq(s, id, f)
      PROVE  CacheInv'
  BY <1>1, <1>7 DEF OnClose, OnReq
<1>8. ASSUME NEW s \in Sockets, NEW e \in Events, OnEvent(s, e)
      PROVE  CacheInv'
  BY <1>1, <1>8 DEF OnEvent
<1>9. CASE UNCHANGED ephemeralVars
  BY <1>1, <1>9 DEF ephemeralVars
<1>10. QED
  BY <1>2, <1>3, <1>4, <1>5, <1>6, <1>7, <1>8, <1>9 DEF EphemeralNext

\* What the invariant says of the cache is what the property says.
LEMMA CacheInvConverges ==
  ASSUME CacheInv
  PROVE  CacheConverges
<1> USE DEF CacheInv
<1> DEFINE best == {e \in arrived : e.key = NoKey \/ ~\E d \in arrived : d.key = e.key /\ Above(d, e)}
<1>1. ASSUME NEW c \in Range(cache) PROVE c \in best
  <2>1. c \in arrived /\ c \in Events
    OBVIOUS
  <2>2. ASSUME c.key # NoKey, NEW d \in arrived, d.key = c.key, Above(d, c) PROVE FALSE
    <3>1. PICK b \in Range(cache) : b.key = d.key /\ ~Above(d, b)
      BY <2>2
    <3>2. b = c
      BY <2>2, <3>1 DEF Range
    <3>3. QED
      BY <2>2, <3>1, <3>2
  <2>3. QED
    BY <2>1, <2>2
<1>2. ASSUME NEW e \in best PROVE e \in Range(cache)
  <2>1. CASE e.key = NoKey
    BY <2>1
  <2>2. CASE e.key # NoKey
    <3>1. PICK d \in Range(cache) : d.key = e.key /\ ~Above(e, d)
      BY <2>2
    <3>2. d \in arrived /\ d \in Events /\ e \in Events /\ ~Above(d, e)
      BY <2>2, <3>1
    <3>3. d = e
      BY <3>1, <3>2, AboveOrders
    <3>4. QED
      BY <3>1, <3>3
  <2>3. QED
    BY <2>1, <2>2
<1>3. QED
  BY <1>1, <1>2 DEF CacheConverges, Sorted

-----------------------------------------------------------------------------
\* What the answer to a REQ and the forwarding of an event put on the wire.
LEMMA SendEachTells ==
  ASSUME SessionsInv, NEW events, NEW S, SendEach(events, S),
         \A s \in S : events[s] \subseteq SubIds \X Events
  PROVE  /\ told' \in [Sockets -> SUBSET (SubIds \X Events)]
         /\ \A s \in Sockets : told[s] \subseteq told'[s]
         /\ \A s \in S \cap Sockets : server[s] = "OPEN" => events[s] \subseteq told'[s]
  BY DEF SessionsInv, SendEach

\* The stored events that match are events of the cache, all of them unless a limit
\* is smaller than the cache.
LEMMA StoredMatches ==
  ASSUME cache \in Seq(Events), NEW f \in Filters
  PROVE  /\ Range(Stored(f)) \subseteq Events
         /\ f.limit >= Len(cache) => Range(Stored(f)) = Range(cache) \cap f.want
<1> DEFINE all == filter(cache, f.want)
           m == IF f.limit < Len(all) THEN f.limit ELSE Len(all)
<1>1. all \in Seq(Events) /\ ValuesOf(all) = ValuesOf(cache) \cap f.want /\ Len(all) <= Len(cache)
  <2>1. all \in Seq(Events) /\ ValuesOf(all) = ValuesOf(cache) \cap f.want
    BY FilterPicks, FilterValues
  <2>2. Len(all) <= Len(cache)
    <3> DEFINE chosen == {i \in DOMAIN cache : cache[i] \in f.want}
    <3>1. Len(all) = Cardinality(chosen)
      BY FilterLength
    <3>2. Len(cache) \in Nat /\ DOMAIN cache = 1 .. Len(cache)
      OBVIOUS
    <3>3. IsFiniteSet(DOMAIN cache) /\ Cardinality(DOMAIN cache) = Len(cache)
      BY <3>2, FS_Interval
    <3>4. Cardinality(chosen) <= Cardinality(DOMAIN cache)
      <4>1. chosen \subseteq DOMAIN cache
        OBVIOUS
      <4> HIDE DEF chosen
      <4>2. QED
        BY <3>3, <4>1, FS_Subset
    <3>5. QED
      BY <3>1, <3>3, <3>4
  <2>3. QED
    BY <2>1, <2>2
<1>2. Stored(f) = SubSeq(all, 1, m)
  BY DEF Stored
<1>3. f.limit \in Nat
  BY RelayAssumption
<1> HIDE DEF all
<1>4. m \in 0 .. Len(all)
  BY <1>1, <1>3
<1>5. f.limit >= Len(cache) => m = Len(all)
  <2>1. Len(all) \in Nat /\ Len(cache) \in Nat
    BY <1>1
  <2>2. QED
    BY <1>1, <1>3, <2>1
<1> HIDE DEF m
<1>6. Stored(f) \in Seq(Events) /\ Len(Stored(f)) = m /\ \A i \in 1 .. m : Stored(f)[i] = all[i]
  BY <1>1, <1>2, <1>4
<1>7. Range(Stored(f)) \subseteq Events
  BY <1>6 DEF Range
<1>8. m = Len(all) => Range(Stored(f)) = Range(all)
  BY <1>1, <1>6 DEF Range
<1>9. QED
  BY <1>1, <1>5, <1>7, <1>8 DEF ValuesOf, Range

-----------------------------------------------------------------------------
\* A connection that is being closed does not open again.
LEMMA ClosingEndsTypes ==
  ASSUME SessionsInv, NEW S
  PROVE  /\ ClosingEnds(S) \in [Sockets -> {"none", "OPEN", "CLOSING", "CLOSED"}]
         /\ \A s \in Sockets : ClosingEnds(S)[s] = "OPEN" => server[s] = "OPEN"
  BY DEF SessionsInv, ClosingEnds

\* Every step keeps the sessions as they must be.
LEMMA SessionsStep ==
  ASSUME CacheInv, SessionsInv, [EphemeralNext]_ephemeralVars
  PROVE  SessionsInv'
<1> USE DEF SessionsInv
<1>1. CASE UNCHANGED <<client, server, clients, session, validating, out>>
  BY <1>1 DEF session, out
<1>2. CASE Start \/ Purge
  BY <1>1, <1>2 DEF Start, Purge, transport
<1>3. CASE Close
  BY <1>3, ClosingEndsTypes DEF Close, out
<1>4. CASE CloseFinished
  BY <1>4 DEF CloseFinished, out
<1>5. CASE RunMicrotask
  <2> DEFINE s == Head(microtasks).socket
  <2> HIDE DEF s
  <2>1. validating' = validating
    BY <1>5 DEF RunMicrotask
  <2>2. CASE ClientOpen(s)
    BY <2>1, <2>2 DEF ClientOpen, session, out
  <2>3. CASE ReceiveFromServer(s)
    BY <1>1, <2>1, <2>3 DEF ReceiveFromServer, session
  <2>4. CASE SocketClosed(s)
    BY <2>1, <2>4 DEF SocketClosed, Cleanup
  <2>5. CASE HandleConnection(s)
    <3>1. UNCHANGED <<client, clients, subs, told>>
      BY <2>5 DEF HandleConnection, out
    <3>2. server' \in [Sockets -> {"none", "OPEN", "CLOSING", "CLOSED"}]
      <4>1. server' = server \/ server' = ClosingEnds({s})
        BY <2>5 DEF HandleConnection
      <4>2. ClosingEnds({s}) \in [Sockets -> {"none", "OPEN", "CLOSING", "CLOSED"}]
        BY ClosingEndsTypes
      <4>3. QED
        BY <4>1, <4>2
    <3>3. sessions' = sessions \/ (s \in clients /\ sessions' = sessions \cup {s})
      BY <2>5 DEF HandleConnection
    <3>4. subs' \subseteq [socket : sessions', id : SubIds, filter : Filters]
      <4>1. [socket : sessions, id : SubIds, filter : Filters] \subseteq [socket : sessions', id : SubIds, filter : Filters]
        BY <3>3
      <4>2. QED
        BY <3>1, <4>1
    <3>5. sessions' \subseteq Sockets /\ \A t \in sessions' \cup clients' : client'[t] # "none"
      BY <3>1, <3>3
    <3>6. QED
      BY <2>1, <3>1, <3>2, <3>4, <3>5
  <2>6. CASE UNCHANGED <<accepting, client, server, clients, session, stored, out>>
    BY <1>1, <2>1, <2>6
  <2>7. QED
    BY <1>5, <2>2, <2>3, <2>4, <2>5, <2>6 DEF RunMicrotask, s
<1>6. ASSUME NEW s \in Sockets, Connect(s) PROVE SessionsInv'
  BY <1>6 DEF Connect, session, out
<1>7. ASSUME NEW s \in Sockets, ClientClose(s) PROVE SessionsInv'
  BY <1>7, ClosingEndsTypes DEF ClientClose, session, out
<1>8. ASSUME NEW s \in Sockets, NEW id \in SubIds, OnClose(s, id) PROVE SessionsInv'
  BY <1>8 DEF OnClose, transport, out
<1>9. ASSUME NEW s \in Sockets, NEW id \in SubIds, NEW f \in Filters, OnReq(s, id, f)
      PROVE  SessionsInv'
  <2>1. told' \in [Sockets -> SUBSET (SubIds \X Events)]
    <3> DEFINE events == [t \in {s} |-> {id} \X Range(Stored(f))]
    <3>1. SendEach(events, {s})
      BY <1>9 DEF OnReq
    <3>2. \A t \in {s} : events[t] \subseteq SubIds \X Events
      BY StoredMatches DEF CacheInv
    <3> HIDE DEF events
    <3>3. QED
      BY <3>1, <3>2, SendEachTells
  <2>2. subs' \subseteq [socket : sessions', id : SubIds, filter : Filters]
    <3>1. s \in sessions /\ sessions' = sessions
      BY <1>9 DEF OnReq, Hears
    <3>2. [socket |-> s, id |-> id, filter |-> f] \in [socket : sessions, id : SubIds, filter : Filters]
      BY <3>1
    <3>3. subs' \subseteq subs \cup {[socket |-> s, id |-> id, filter |-> f]}
      BY <1>9 DEF OnReq
    <3>4. QED
      BY <3>1, <3>2, <3>3
  <2>3. QED
    BY <1>9, <2>1, <2>2 DEF OnReq
<1>10. ASSUME NEW s \in Sockets, NEW e \in Events, OnEvent(s, e) PROVE SessionsInv'
  BY <1>10 DEF OnEvent, transport, session, out
<1>11. ASSUME NEW s \in Sockets, NEW e \in Events, Validated(s, e) PROVE SessionsInv'
  <2> DEFINE wanted(t) == {u.id : u \in {v \in subs : v.socket = t /\ Live(s, v, e)}}
             hearers == {s} \cup {t \in Sockets : wanted(t) # {}}
             none == [t \in {s} |-> {}]
             events == [t \in hearers |-> wanted(t) \X {e}]
  <2>0. SendEach(none, {s}) \/ SendEach(events, hearers)
    BY <1>11 DEF Validated
  <2>1. told' \in [Sockets -> SUBSET (SubIds \X Events)]
    <3>1. \A t \in {s} : none[t] \subseteq SubIds \X Events
      OBVIOUS
    <3>2. \A t \in hearers : events[t] \subseteq SubIds \X Events
      OBVIOUS
    <3> HIDE DEF none, events, hearers
    <3>3. QED
      BY <2>0, <3>1, <3>2, SendEachTells
  <2>2. QED
    BY <1>11, <2>1 DEF Validated, session
<1>12. CASE UNCHANGED ephemeralVars
  BY <1>1, <1>12 DEF ephemeralVars, transport
<1>13. QED
  BY <1>2, <1>3, <1>4, <1>5, <1>6, <1>7, <1>8, <1>9, <1>10, <1>11, <1>12 DEF EphemeralNext

\* A step that neither stores an event nor adds a subscription, and takes back
\* what was told only from a connection that it closes, keeps the view.
LEMMA ViewKept ==
  ASSUME ViewCoversCache, SessionsInv, cache' = cache, subs' \subseteq subs,
         \A s \in sessions : server'[s] = "OPEN" => server[s] = "OPEN" /\ told[s] \subseteq told'[s]
  PROVE  ViewCoversCache'
<1>1. ASSUME NEW u \in subs', u.filter.limit >= Len(cache'), NEW e \in Range(cache') \cap u.filter.want,
             server'[u.socket] = "OPEN"
      PROVE  <<u.id, e>> \in told'[u.socket]
  <2>1. u \in subs /\ u.socket \in sessions /\ u.filter.limit >= Len(cache) /\ e \in Range(cache) \cap u.filter.want
    BY <1>1 DEF SessionsInv
  <2>2. server[u.socket] = "OPEN" /\ told[u.socket] \subseteq told'[u.socket]
    BY <1>1, <2>1
  <2>3. QED
    BY <2>1, <2>2 DEF ViewCoversCache
<1>2. QED
  BY <1>1 DEF ViewCoversCache

\* A REQ is answered with everything in the cache that it wants.
LEMMA ViewAfterReq ==
  ASSUME ViewCoversCache, CacheInv, SessionsInv,
         NEW s \in Sockets, NEW id \in SubIds, NEW f \in Filters, OnReq(s, id, f)
  PROVE  ViewCoversCache'
<1> DEFINE events == [t \in {s} |-> {id} \X Range(Stored(f))]
           new == [socket |-> s, id |-> id, filter |-> f]
<1>1. /\ \A t \in Sockets : told[t] \subseteq told'[t]
      /\ server[s] = "OPEN" => events[s] \subseteq told'[s]
  <2>1. SendEach(events, {s})
    BY DEF OnReq
  <2>2. \A t \in {s} : events[t] \subseteq SubIds \X Events
    BY StoredMatches DEF CacheInv
  <2> HIDE DEF events
  <2>3. QED
    BY <2>1, <2>2, SendEachTells
<1>2. /\ cache' = cache /\ server' = server /\ server[s] = "OPEN"
      /\ subs' \subseteq subs \cup {new}
  BY DEF OnReq, Hears, stored
<1>3. ASSUME NEW u \in subs', u.filter.limit >= Len(cache'), NEW e \in Range(cache') \cap u.filter.want,
             server'[u.socket] = "OPEN"
      PROVE  <<u.id, e>> \in told'[u.socket]
  <2>1. CASE u \in subs
    <3>1. u.socket \in Sockets /\ server[u.socket] = "OPEN"
      BY <1>2, <1>3, <2>1 DEF SessionsInv
    <3>2. <<u.id, e>> \in told[u.socket]
      BY <1>2, <1>3, <2>1, <3>1 DEF ViewCoversCache
    <3>3. QED
      BY <1>1, <3>1, <3>2
  <2>2. CASE u = new
    <3>1. u.socket = s /\ u.id = id /\ u.filter = f
      BY <2>2
    <3>2. e \in Range(Stored(f))
      BY <1>2, <1>3, <3>1, StoredMatches DEF CacheInv
    <3>3. <<id, e>> \in events[s]
      BY <3>2
    <3> HIDE DEF events
    <3>4. QED
      BY <1>1, <1>2, <3>1, <3>3
  <2>3. QED
    BY <1>2, <1>3, <2>1, <2>2
<1>4. QED
  BY <1>3 DEF ViewCoversCache

\* A new event goes to every subscription that wants it.
LEMMA ViewAfterEvent ==
  ASSUME ViewCoversCache, CacheInv, SessionsInv,
         NEW s \in Sockets, NEW e \in Events, Validated(s, e), e \notin Invalid
  PROVE  ViewCoversCache'
<1> DEFINE wanted(t) == {u.id : u \in {v \in subs : v.socket = t /\ Live(s, v, e)}}
           hearers == {s} \cup {t \in Sockets : wanted(t) # {}}
           events == [t \in hearers |-> wanted(t) \X {e}]
<1>1. /\ \A t \in Sockets : told[t] \subseteq told'[t]
      /\ \A t \in hearers \cap Sockets : server[t] = "OPEN" => events[t] \subseteq told'[t]
  <2>1. SendEach(events, hearers)
    BY DEF Validated
  <2>2. \A t \in hearers : events[t] \subseteq SubIds \X Events
    BY DEF SessionsInv
  <2> HIDE DEF events, hearers
  <2>3. QED
    BY <2>1, <2>2, SendEachTells
<1>2. server' = server /\ subs' = subs
  BY DEF Validated, session
<1>3. Len(cache') >= Len(cache) /\ Range(cache') \subseteq Range(cache) \cup {e}
  <2>1. cache' = Store(e) /\ arrived' = arrived \cup {e}
    BY DEF Validated
  <2>2. QED
    BY <2>1, StoreKeeps
<1>4. Len(cache) \in Nat /\ Len(cache') \in Nat
  <2>1. CacheInv'
    BY CacheStep, Validated(s, e) DEF EphemeralNext
  <2>2. QED
    BY <2>1 DEF CacheInv
<1>5. ASSUME NEW u \in subs', u.filter.limit >= Len(cache'), NEW d \in Range(cache') \cap u.filter.want,
             server'[u.socket] = "OPEN"
      PROVE  <<u.id, d>> \in told'[u.socket]
  <2>1. u \in subs /\ u.socket \in Sockets /\ u.filter \in Filters /\ server[u.socket] = "OPEN"
    BY <1>2, <1>5 DEF SessionsInv
  <2>2. CASE d = e
    <3>1. u.id \in wanted(u.socket)
      BY <1>5, <2>1, <2>2 DEF Live
    <3>2. u.socket \in hearers /\ <<u.id, e>> \in events[u.socket]
      BY <2>1, <3>1
    <3> HIDE DEF events, hearers
    <3>3. QED
      BY <1>1, <2>1, <2>2, <3>2
  <2>3. CASE d # e
    <3>1. u.filter.limit \in Nat
      BY <2>1, RelayAssumption
    <3>2. d \in Range(cache) \cap u.filter.want /\ u.filter.limit >= Len(cache)
      BY <1>3, <1>4, <1>5, <2>3, <3>1
    <3>3. <<u.id, d>> \in told[u.socket]
      BY <2>1, <3>2 DEF ViewCoversCache
    <3>4. QED
      BY <1>1, <2>1, <3>3
  <2>4. QED
    BY <2>2, <2>3
<1>6. QED
  BY <1>5 DEF ViewCoversCache

\* Every step keeps the view.
LEMMA ViewStep ==
  ASSUME ViewCoversCache, CacheInv, SessionsInv, [EphemeralNext]_ephemeralVars
  PROVE  ViewCoversCache'
<1>1. CASE UNCHANGED <<server, session, stored, out>>
  BY <1>1, ViewKept DEF session, stored, out
<1>2. CASE Purge \/ Close
  <2>1. Range(cache') = {}
    BY <1>2 DEF Purge, Close, Range
  <2>2. QED
    BY <2>1 DEF ViewCoversCache
<1>3. CASE Start \/ CloseFinished
  BY <1>3, ViewKept DEF Start, CloseFinished, transport, session, stored, out
<1>4. CASE RunMicrotask
  <2> DEFINE s == Head(microtasks).socket
  <2> HIDE DEF s
  <2>1. CASE ClientOpen(s) \/ UNCHANGED <<accepting, client, server, clients, session, stored, out>>
    BY <1>1, <2>1 DEF ClientOpen
  <2>2. CASE ReceiveFromServer(s)
    BY <2>2, ViewKept DEF ReceiveFromServer, session, stored
  <2>3. CASE SocketClosed(s)
    <3>1. \A t \in sessions : server'[t] = "OPEN" => server[t] = "OPEN" /\ told[t] \subseteq told'[t]
      BY <2>3 DEF SocketClosed, SessionsInv
    <3>2. QED
      BY <2>3, <3>1, ViewKept DEF SocketClosed, Cleanup, stored
  <2>4. CASE HandleConnection(s)
    <3>1. \A t \in sessions : server'[t] = "OPEN" => server[t] = "OPEN"
      BY <2>4, ClosingEndsTypes DEF HandleConnection, SessionsInv
    <3>2. QED
      BY <2>4, <3>1, ViewKept DEF HandleConnection, stored, out
  <2>5. QED
    BY <1>4, <2>1, <2>2, <2>3, <2>4 DEF RunMicrotask, s
<1>5. ASSUME NEW s \in Sockets, Connect(s) PROVE ViewCoversCache'
  <2>1. \A t \in sessions : server'[t] = server[t]
    BY <1>5 DEF Connect, SessionsInv
  <2>2. QED
    BY <1>5, <2>1, ViewKept DEF Connect, session, stored, out
<1>6. ASSUME NEW s \in Sockets, ClientClose(s) PROVE ViewCoversCache'
  <2>1. \A t \in sessions : server'[t] = "OPEN" => server[t] = "OPEN"
    BY <1>6, ClosingEndsTypes DEF ClientClose, SessionsInv
  <2>2. QED
    BY <1>6, <2>1, ViewKept DEF ClientClose, session, stored, out
<1>7. ASSUME NEW s \in Sockets, NEW id \in SubIds, OnClose(s, id) PROVE ViewCoversCache'
  BY <1>7, ViewKept DEF OnClose, transport, stored, out
<1>8. ASSUME NEW s \in Sockets, NEW e \in Events, OnEvent(s, e) PROVE ViewCoversCache'
  BY <1>1, <1>8 DEF OnEvent, transport
<1>9. ASSUME NEW s \in Sockets, NEW e \in Events, Validated(s, e) PROVE ViewCoversCache'
  <2>1. CASE e \in Invalid
    <3>1. \A t \in Sockets : told[t] \subseteq told'[t]
      BY <1>9, <2>1 DEF Validated, SendEach, SessionsInv
    <3>2. QED
      BY <1>9, <2>1, <3>1, ViewKept DEF Validated, session, stored, SessionsInv
  <2>2. CASE e \notin Invalid
    BY <1>9, <2>2, ViewAfterEvent
  <2>3. QED
    BY <2>1, <2>2
<1>10. CASE UNCHANGED ephemeralVars
  BY <1>1, <1>10 DEF ephemeralVars, transport
<1>11. QED
  BY <1>2, <1>3, <1>4, <1>5, <1>6, <1>7, <1>8, <1>9, <1>10, ViewAfterReq DEF EphemeralNext

-----------------------------------------------------------------------------
\* The invariant holds at first, and every step keeps it.
THEOREM EphemeralInvariant == EphemeralSpec => []EphemeralInv
<1>1. EphemeralInit => EphemeralInv
  <2>1. SUFFICES ASSUME EphemeralInit PROVE EphemeralInv
    OBVIOUS
  <2>2. cache = <<>> /\ arrived = {} /\ Range(cache) = {}
    BY <2>1 DEF EphemeralInit, Range
  <2>3. CacheInv
    BY <2>2 DEF CacheInv, Sorted
  <2>4. SessionsInv
    BY <2>1 DEF EphemeralInit, SessionsInv
  <2>5. QED
    BY <2>2, <2>3, <2>4 DEF EphemeralInv, ViewCoversCache
<1>2. EphemeralInv /\ [EphemeralNext]_ephemeralVars => EphemeralInv'
  BY CacheStep, SessionsStep, ViewStep DEF EphemeralInv
<1>3. QED
  BY <1>1, <1>2, PTL DEF EphemeralSpec

\* Whatever is published, in whatever order and validated whenever, the cache
\* converges to the newest events.
THEOREM CacheConvergesAlways == EphemeralSpec => []CacheConverges
<1>1. EphemeralInv => CacheConverges
  BY CacheInvConverges DEF EphemeralInv
<1>2. QED
  BY <1>1, EphemeralInvariant, PTL

\* No event falls between the stored ones and the live ones.
THEOREM ViewCoversCacheAlways == EphemeralSpec => []ViewCoversCache
<1>1. EphemeralInv => ViewCoversCache
  BY DEF EphemeralInv
<1>2. QED
  BY <1>1, EphemeralInvariant, PTL

-----------------------------------------------------------------------------
\* The queue of microtasks, and the ends of the connections.

Tasks == [do : {"open", "connection", "message", "closed"}, socket : Sockets] \cup [do : {"await"}]

\* Is the task in the queue q, or in it before index i?
InQueue(q, do, s) == \E i \in DOMAIN q : q[i] = Task(do, s)
Before(q, do, s, i) == \E j \in DOMAIN q : j < i /\ q[j] = Task(do, s)

\* The server knows the connections that are not closed, at both ends.
EndsInv ==
  /\ closePromise \in {"none", "closing", "awaiting"}
  /\ closePromise # "none" => ~accepting
  /\ closePromise = "awaiting" => clients = {}
  /\ \A s \in Sockets : s \notin clients => client[s] \in {"none", "CLOSED"} /\ server[s] = client[s]
  /\ \A s \in clients : client[s] \in {"CONNECTING", "OPEN", "CLOSING"} /\ server[s] \in {"OPEN", "CLOSING"}
  /\ \A s \in clients : server[s] = "OPEN" => client[s] # "CLOSING"

\* In the queue q an end opens before a message reaches it and closes after, and
\* close() goes on when every connection has been closed.
QueueOk(q, cl, sv, cs, cp) ==
  /\ q \in Seq(Tasks)
  /\ \A s \in Sockets : cl[s] = "CONNECTING" => InQueue(q, "open", s)
  /\ \A s \in Sockets : InQueue(q, "closed", s) => sv[s] \in {"CLOSING", "CLOSED"}
  /\ \A s \in Sockets, i \in DOMAIN q : q[i] = Task("message", s) =>
       /\ cl[s] \in {"OPEN", "CLOSING"} \/ (cl[s] = "CONNECTING" /\ Before(q, "open", s, i))
       /\ ~Before(q, "closed", s, i)
  /\ \A i, j \in DOMAIN q : q[i].do = "await" /\ q[j].do = "await" => i = j
  /\ \A i \in DOMAIN q : q[i].do = "await" => cp = "closing" /\ \A s \in cs : Before(q, "closed", s, i)

QueueInv == QueueOk(microtasks, client, server, clients, closePromise) /\ lost = {}

-----------------------------------------------------------------------------
\* A finite set as a sequence has the set's elements.
LEMMA SequenceOfSet ==
  ASSUME NEW S, IsFiniteSet(S)
  PROVE  /\ SetToSeq(S) \in Seq(S)
         /\ \A x \in S : \E i \in DOMAIN SetToSeq(S) : SetToSeq(S)[i] = x
<1> DEFINE n == Cardinality(S)
<1>1. n \in Nat
  BY FS_CardinalityType
<1>2. IsFiniteSet(1 .. n) /\ Cardinality(1 .. n) = n
  BY <1>1, FS_Interval
<1>3. PICK m \in Nat : ExistsBijection(1 .. m, S)
  BY FS_NatBijection
<1>4. m = n
  BY <1>3, FS_CountingElements
<1> HIDE DEF n
<1>5. PICK g : g \in Bijection(1 .. n, S)
  BY <1>3, <1>4 DEF ExistsBijection
<1>6. g \in [1 .. n -> S] /\ IsInjective(g)
  BY <1>5 DEF Bijection, Injection
<1> DEFINE f == SetToSeq(S)
<1>7. f \in [1 .. n -> S] /\ IsInjective(f)
  BY <1>6 DEF SetToSeq, n
<1> HIDE DEF f
<1>8. f \in Surjection(1 .. n, S)
  <2>1. f \in Injection(1 .. n, S)
    BY <1>7 DEF Injection
  <2>2. Cardinality(1 .. n) = Cardinality(S)
    BY <1>2 DEF n
  <2>3. QED
    BY <2>1, <2>2, FS_Injection
<1>9. f \in Seq(S) /\ DOMAIN f = 1 .. n
  BY <1>1, <1>7
<1>10. \A x \in S : \E i \in DOMAIN f : f[i] = x
  BY <1>8, <1>9 DEF Surjection
<1>11. QED
  BY <1>9, <1>10 DEF f

\* The tasks of a finite set of sockets, as they are put in the queue.
TasksOf(c, do, S) ==
  /\ c \in Seq(Tasks)
  /\ \A i \in DOMAIN c : \E s \in S : c[i] = Task(do, s)
  /\ \A s \in S : InQueue(c, do, s)

LEMMA TasksQueued ==
  ASSUME NEW do \in {"open", "connection", "message", "closed"}, NEW S, S \subseteq Sockets
  PROVE  TasksOf(EachOf(do, S), do, S)
<1> DEFINE T == {Task(do, s) : s \in S}
           c == EachOf(do, S)
<1>1. IsFiniteSet(T)
  <2>1. IsFiniteSet(S)
    BY FS_Subset, RelayAssumption
  <2> DEFINE f == [s \in S |-> Task(do, s)]
  <2>2. f \in Surjection(S, T)
    <3>1. f \in [S -> T] /\ \A t \in T : \E s \in S : f[s] = t
      OBVIOUS
    <3> HIDE DEF f, T
    <3>2. QED
      BY <3>1 DEF Surjection
  <2>3. QED
    BY <2>1, <2>2, FS_Surjection
<1>2. T \subseteq Tasks
  BY DEF Tasks, Task
<1>3. c \in Seq(T) /\ \A x \in T : \E i \in DOMAIN c : c[i] = x
  <2>1. c = SetToSeq(T)
    BY DEF EachOf
  <2> HIDE DEF T, c
  <2>2. QED
    BY <1>1, <2>1, SequenceOfSet
<1> HIDE DEF c
<1>4. \A i \in DOMAIN c : c[i] \in T
  BY ONLY <1>3
<1>5. c \in Seq(Tasks)
  BY <1>2, <1>3
<1>6. \A s \in S : InQueue(c, do, s)
  BY <1>3 DEF InQueue
<1>7. QED
  BY <1>4, <1>5, <1>6 DEF TasksOf, c

\* What is put at the end of a queue comes after everything in it.
Longer(q, c, r) ==
  /\ r \in Seq(Tasks)
  /\ \A do, s : InQueue(r, do, s) <=> InQueue(q, do, s) \/ InQueue(c, do, s)
  /\ \A i \in DOMAIN r :
       \/ /\ i \in DOMAIN q /\ r[i] = q[i]
          /\ \A do, s : Before(r, do, s, i) <=> Before(q, do, s, i)
       \/ /\ i - Len(q) \in DOMAIN c /\ r[i] = c[i - Len(q)]
          /\ i \notin DOMAIN q
          /\ \A do, s : Before(r, do, s, i) <=> InQueue(q, do, s) \/ Before(c, do, s, i - Len(q))

\* What is taken from the front of a queue came before everything in it.
Shorter(q, r) ==
  /\ r \in Seq(Tasks) /\ Head(q) \in Tasks /\ 1 \in DOMAIN q /\ q[1] = Head(q)
  /\ \A do, s : InQueue(q, do, s) <=> InQueue(r, do, s) \/ Head(q) = Task(do, s)
  /\ \A do, s : ~Before(q, do, s, 1)
  /\ \A i \in DOMAIN r :
       /\ i \in Nat /\ i + 1 \in DOMAIN q /\ r[i] = q[i + 1]
       /\ \A do, s : Before(q, do, s, i + 1) <=> Before(r, do, s, i) \/ Head(q) = Task(do, s)

LEMMA Enqueued ==
  ASSUME NEW q \in Seq(Tasks), NEW c \in Seq(Tasks), NEW r, r = q \o c
  PROVE  Longer(q, c, r)
<1>1. /\ r \in Seq(Tasks) /\ DOMAIN q = 1 .. Len(q) /\ DOMAIN c = 1 .. Len(c)
      /\ Len(q) \in Nat /\ Len(c) \in Nat
      /\ DOMAIN r = 1 .. Len(q) + Len(c)
      /\ \A i \in 1 .. Len(q) : r[i] = q[i]
      /\ \A i \in 1 .. Len(c) : r[Len(q) + i] = c[i]
  OBVIOUS
<1>2. \A i \in DOMAIN r : (i \in DOMAIN q /\ r[i] = q[i]) \/ (i > Len(q) /\ i - Len(q) \in DOMAIN c /\ r[i] = c[i - Len(q)])
  <2>1. ASSUME NEW i \in DOMAIN r, i > Len(q)
        PROVE  i - Len(q) \in DOMAIN c /\ r[i] = c[i - Len(q)]
    <3>1. i - Len(q) \in 1 .. Len(c) /\ Len(q) + (i - Len(q)) = i
      BY <1>1, <2>1
    <3>2. QED
      BY <1>1, <3>1
  <2>2. QED
    BY <1>1, <2>1
<1>3. \A i \in DOMAIN q : i \in DOMAIN r /\ r[i] = q[i] /\ i <= Len(q)
  BY <1>1
<1>4. \A i \in DOMAIN c : Len(q) + i \in DOMAIN r /\ r[Len(q) + i] = c[i]
  BY <1>1
<1>5. ASSUME NEW do, NEW s
      PROVE  InQueue(r, do, s) <=> InQueue(q, do, s) \/ InQueue(c, do, s)
  <2>1. InQueue(r, do, s) => InQueue(q, do, s) \/ InQueue(c, do, s)
    BY <1>2 DEF InQueue
  <2>2. InQueue(q, do, s) => InQueue(r, do, s)
    BY <1>3 DEF InQueue
  <2>3. InQueue(c, do, s) => InQueue(r, do, s)
    BY <1>4 DEF InQueue
  <2>4. QED
    BY <2>1, <2>2, <2>3
<1>6. ASSUME NEW i \in DOMAIN q, NEW do, NEW s
      PROVE  Before(r, do, s, i) <=> Before(q, do, s, i)
  <2>1. \A j \in DOMAIN r : j < i => j \in DOMAIN q
    BY <1>1
  <2>2. QED
    BY <1>3, <2>1 DEF Before
<1>7. ASSUME NEW i \in DOMAIN r, i > Len(q), NEW do, NEW s
      PROVE  Before(r, do, s, i) <=> InQueue(q, do, s) \/ Before(c, do, s, i - Len(q))
  <2>1. \A j \in DOMAIN q : j < i
    BY <1>1, <1>7
  <2>2. \A j \in DOMAIN c : j < i - Len(q) <=> Len(q) + j < i
    BY <1>1, <1>7
  <2>3. \A j \in DOMAIN r : j > Len(q) => (j < i <=> j - Len(q) < i - Len(q))
    BY <1>1, <1>7
  <2>4. QED
    BY <1>2, <1>3, <1>4, <2>1, <2>2, <2>3 DEF Before, InQueue
<1>8. QED
  BY <1>1, <1>2, <1>5, <1>6, <1>7 DEF Longer

LEMMA Dequeued ==
  ASSUME NEW q \in Seq(Tasks), q # <<>>, NEW r, r = Tail(q)
  PROVE  Shorter(q, r)
<1>1. /\ r \in Seq(Tasks) /\ Head(q) \in Tasks /\ q[1] = Head(q)
      /\ Len(q) \in Nat \ {0} /\ DOMAIN q = 1 .. Len(q) /\ DOMAIN r = 1 .. Len(q) - 1
      /\ \A i \in 1 .. Len(q) - 1 : r[i] = q[i + 1]
  OBVIOUS
<1>2. \A i \in DOMAIN r : i \in Nat /\ i + 1 \in DOMAIN q /\ r[i] = q[i + 1] /\ 1 <= i
  BY <1>1
<1>3. \A i \in DOMAIN q : i = 1 \/ (i - 1 \in DOMAIN r /\ r[i - 1] = q[i])
  <2>1. ASSUME NEW i \in DOMAIN q, i # 1 PROVE i - 1 \in DOMAIN r /\ r[i - 1] = q[i]
    <3>1. i - 1 \in 1 .. Len(q) - 1 /\ (i - 1) + 1 = i
      BY <1>1, <2>1
    <3>2. QED
      BY <1>1, <3>1
  <2>2. QED
    BY <2>1
<1>4. \A do, s : InQueue(q, do, s) <=> InQueue(r, do, s) \/ Head(q) = Task(do, s)
  <2>1. 1 \in DOMAIN q
    BY <1>1
  <2>2. QED
    BY <1>1, <1>2, <1>3, <2>1 DEF InQueue
<1>5. ASSUME NEW i \in DOMAIN r, NEW do, NEW s
      PROVE  Before(q, do, s, i + 1) <=> Before(r, do, s, i) \/ Head(q) = Task(do, s)
  <2>1. 1 \in DOMAIN q /\ 1 < i + 1
    BY <1>1
  <2>2. \A j \in DOMAIN r : j < i <=> j + 1 < i + 1
    BY <1>2
  <2>3. \A j \in DOMAIN q : j # 1 => (j < i + 1 <=> j - 1 < i)
    BY <1>1, <1>2
  <2>4. QED
    BY <1>1, <1>2, <1>3, <2>1, <2>2, <2>3 DEF Before
<1>6. \A do, s : ~Before(q, do, s, 1)
  BY <1>1 DEF Before
<1>7. QED
  BY <1>1, <1>2, <1>4, <1>5, <1>6 DEF Shorter

-----------------------------------------------------------------------------
\* Messages and openings are put behind what must come before them.
Grows(q, cl, cs, c, cl2, sv2, cs2) ==
  /\ c \in Seq(Tasks)
  /\ \A i \in DOMAIN q : q[i].do = "await" => cs2 \subseteq cs
  /\ \A i \in DOMAIN c : c[i].do # "await"
  /\ \A s \in Sockets : InQueue(q, "message", s) => cl2[s] = cl[s] \/ cl2[s] = "CLOSING"
  /\ \A s \in Sockets : cl2[s] = "CONNECTING" => cl[s] = "CONNECTING" \/ InQueue(c, "open", s)
  /\ \A s \in Sockets : InQueue(q, "closed", s) \/ InQueue(c, "closed", s) => sv2[s] \in {"CLOSING", "CLOSED"}
  /\ \A s \in Sockets : InQueue(c, "message", s) =>
       /\ cl2[s] \in {"OPEN", "CLOSING"} \/ (cl2[s] = "CONNECTING" /\ cl[s] = "CONNECTING")
       /\ ~InQueue(q, "closed", s) /\ ~InQueue(c, "closed", s)

LEMMA QueueGrows ==
  ASSUME NEW q, NEW cl, NEW sv, NEW cs, NEW cp, NEW cl2, NEW sv2, NEW cs2, NEW c,
         QueueOk(q, cl, sv, cs, cp), Grows(q, cl, cs, c, cl2, sv2, cs2)
  PROVE  QueueOk(q \o c, cl2, sv2, cs2, cp)
<1> DEFINE r == q \o c
<1> HIDE DEF r
<1> USE DEF QueueOk, Grows
<1>0. q \in Seq(Tasks) /\ c \in Seq(Tasks) /\ r = q \o c
  BY DEF r
<1>1. Longer(q, c, r)
  BY ONLY <1>0, Enqueued
<1> USE DEF Longer
<1>2. \A do, s, i : Before(c, do, s, i) => InQueue(c, do, s)
  BY DEF Before, InQueue
<1>3. \A s \in Sockets : cl2[s] = "CONNECTING" => InQueue(r, "open", s)
  BY <1>1
<1>4. \A s \in Sockets : InQueue(r, "closed", s) => sv2[s] \in {"CLOSING", "CLOSED"}
  BY <1>1
<1>5. ASSUME NEW s \in Sockets, NEW i \in DOMAIN r, r[i] = Task("message", s)
      PROVE  /\ cl2[s] \in {"OPEN", "CLOSING"} \/ (cl2[s] = "CONNECTING" /\ Before(r, "open", s, i))
             /\ ~Before(r, "closed", s, i)
  <2>1. CASE i \in DOMAIN q
    <3>1. q[i] = Task("message", s) /\ \A do : Before(r, do, s, i) <=> Before(q, do, s, i)
      BY <1>1, <1>5, <2>1
    <3>2. InQueue(q, "message", s)
      BY <2>1, <3>1 DEF InQueue
    <3>3. QED
      BY <2>1, <3>1, <3>2
  <2>2. CASE i \notin DOMAIN q
    <3>1. /\ i - Len(q) \in DOMAIN c /\ c[i - Len(q)] = Task("message", s)
          /\ \A do : Before(r, do, s, i) <=> InQueue(q, do, s) \/ Before(c, do, s, i - Len(q))
      BY <1>1, <1>5, <2>2
    <3>2. InQueue(c, "message", s)
      BY <3>1 DEF InQueue
    <3>3. QED
      BY <1>2, <3>1, <3>2
  <2>3. QED
    BY <2>1, <2>2
<1>6. \A i \in DOMAIN r : r[i].do = "await" => i \in DOMAIN q /\ q[i] = r[i] /\ \A s : Before(r, "closed", s, i) <=> Before(q, "closed", s, i)
  BY <1>1
<1>7. QED
  BY <1>1, <1>3, <1>4, <1>5, <1>6 DEF r

\* A task that something waits for leaves the queue only when that has happened.
Shrinks(q, cl, sv, cs, cp, cl2, sv2, cs2, cp2) ==
  /\ q # <<>>
  /\ Head(q).do # "await" => cp2 = cp
  /\ cs2 \subseteq cs
  /\ \A s \in cs2 : Head(q) # Task("closed", s)
  /\ \A s \in Sockets : Head(q) # Task("closed", s) =>
       \/ cl2[s] = cl[s] /\ Head(q) # Task("open", s)
       \/ cl[s] = "CONNECTING" /\ cl2[s] = "OPEN"
       \/ cl2[s] = cl[s] /\ cl[s] # "CONNECTING"
  /\ \A s \in Sockets : Head(q) = Task("closed", s) => cl2[s] # "CONNECTING"
  /\ \A s \in Sockets : sv[s] \in {"CLOSING", "CLOSED"} => sv2[s] \in {"CLOSING", "CLOSED"}

LEMMA QueueShrinks ==
  ASSUME NEW q, NEW cl, NEW sv, NEW cs, NEW cp, NEW cl2, NEW sv2, NEW cs2, NEW cp2,
         QueueOk(q, cl, sv, cs, cp), Shrinks(q, cl, sv, cs, cp, cl2, sv2, cs2, cp2)
  PROVE  QueueOk(Tail(q), cl2, sv2, cs2, cp2)
<1> DEFINE r == Tail(q)
<1> HIDE DEF r
<1> USE DEF QueueOk, Shrinks
<1>0. q \in Seq(Tasks) /\ q # <<>> /\ r = Tail(q)
  BY DEF r
<1>1. Shorter(q, r)
  BY ONLY <1>0, Dequeued
<1> USE DEF Shorter
<1>2. \A s, t \in Sockets : Task("open", s) # Task("closed", t)
  BY DEF Task
<1>3. \A s \in Sockets : cl2[s] = "CONNECTING" => InQueue(r, "open", s)
  BY <1>1
<1>4. \A s \in Sockets : InQueue(r, "closed", s) => sv2[s] \in {"CLOSING", "CLOSED"}
  BY <1>1
<1>5. ASSUME NEW s \in Sockets, NEW i \in DOMAIN r, r[i] = Task("message", s)
      PROVE  /\ cl2[s] \in {"OPEN", "CLOSING"} \/ (cl2[s] = "CONNECTING" /\ Before(r, "open", s, i))
             /\ ~Before(r, "closed", s, i)
  <2>1. /\ i + 1 \in DOMAIN q /\ q[i + 1] = Task("message", s)
        /\ \A do : Before(q, do, s, i + 1) <=> Before(r, do, s, i) \/ Head(q) = Task(do, s)
    BY <1>1, <1>5
  <2>2. /\ cl[s] \in {"OPEN", "CLOSING"} \/ (cl[s] = "CONNECTING" /\ Before(q, "open", s, i + 1))
        /\ ~Before(q, "closed", s, i + 1)
    BY <2>1
  <2>3. QED
    BY <2>1, <2>2
<1>6. ASSUME NEW i \in DOMAIN r, NEW j \in DOMAIN r, r[i].do = "await", r[j].do = "await"
      PROVE  i = j
  <2>1. i + 1 = j + 1 /\ i \in Nat /\ j \in Nat
    BY <1>1, <1>6
  <2>2. QED
    BY <2>1
<1>7. ASSUME NEW i \in DOMAIN r, r[i].do = "await"
      PROVE  cp2 = "closing" /\ \A s \in cs2 : Before(r, "closed", s, i)
  <2>1. i + 1 \in DOMAIN q /\ q[i + 1].do = "await" /\ i + 1 # 1
    BY <1>1, <1>7
  <2>2. cp = "closing" /\ \A s \in cs : Before(q, "closed", s, i + 1)
    BY <2>1
  <2>3. Head(q).do # "await"
    BY <1>1, <2>1
  <2>4. QED
    BY <1>1, <2>2, <2>3
<1>8. QED
  BY <1>1, <1>3, <1>4, <1>5, <1>6, <1>7 DEF r

-----------------------------------------------------------------------------
\* No step leaves a connection that the server does not know of.
LEMMA EndsStep ==
  ASSUME EndsInv, SessionsInv, QueueInv, [EphemeralNext]_ephemeralVars
  PROVE  EndsInv'
<1> USE DEF EndsInv, SessionsInv
<1>1. CASE UNCHANGED <<lifeCycle, client, server, clients>>
  BY <1>1 DEF lifeCycle
<1>2. CASE Start
  BY <1>2 DEF Start, transport
<1>3. CASE Purge
  BY <1>1, <1>3 DEF Purge, transport
<1>4. CASE Close
  BY <1>4 DEF Close, ClosingEnds, ToClose
<1>5. CASE CloseFinished
  BY <1>5 DEF CloseFinished
<1>6. CASE RunMicrotask
  <2> DEFINE s == Head(microtasks).socket
  <2> HIDE DEF s
  <2>1. CASE ClientOpen(s)
    BY <2>1 DEF ClientOpen, lifeCycle
  <2>2. CASE ReceiveFromServer(s)
    BY <1>1, <2>2 DEF ReceiveFromServer
  <2>3. CASE SocketClosed(s)
    BY <2>3 DEF SocketClosed, lifeCycle
  <2>4. CASE HandleConnection(s)
    BY <2>4 DEF HandleConnection, ClosingEnds, lifeCycle
  <2>5. CASE /\ Head(microtasks).do = "await" /\ microtasks # <<>> /\ closePromise' = "awaiting"
             /\ UNCHANGED <<accepting, client, server, clients, session, stored, out>>
    <3>1. microtasks \in Seq(Tasks)
      BY DEF QueueInv, QueueOk
    <3>2. Shorter(microtasks, Tail(microtasks))
      BY <2>5, <3>1, Dequeued
    <3>3. closePromise = "closing" /\ clients = {}
      <4>1. closePromise = "closing" /\ \A t \in clients : Before(microtasks, "closed", t, 1)
        BY <2>5, <3>2 DEF QueueInv, QueueOk, Shorter
      <4>2. QED
        BY <3>2, <4>1 DEF Shorter
    <3>4. QED
      BY <2>5, <3>3
  <2>6. QED
    BY <1>6, <2>1, <2>2, <2>3, <2>4, <2>5 DEF RunMicrotask, s
<1>7. ASSUME NEW s \in Sockets, Connect(s) PROVE EndsInv'
  BY <1>7 DEF Connect, lifeCycle
<1>8. ASSUME NEW s \in Sockets, ClientClose(s) PROVE EndsInv'
  BY <1>8 DEF ClientClose, ClosingEnds, lifeCycle
<1>9. ASSUME NEW s \in Sockets, NEW id \in SubIds, OnClose(s, id) \/ \E f \in Filters : OnReq(s, id, f)
      PROVE  EndsInv'
  BY <1>1, <1>9 DEF OnClose, OnReq, transport
<1>10. ASSUME NEW s \in Sockets, NEW e \in Events, OnEvent(s, e) \/ Validated(s, e)
       PROVE  EndsInv'
  BY <1>1, <1>10 DEF OnEvent, Validated, transport
<1>11. CASE UNCHANGED ephemeralVars
  BY <1>1, <1>11 DEF ephemeralVars, transport
<1>12. QED
  BY <1>2, <1>3, <1>4, <1>5, <1>6, <1>7, <1>8, <1>9, <1>10, <1>11 DEF EphemeralNext

-----------------------------------------------------------------------------
\* Nothing is sent to a connection that is being closed.
LEMMA SendEachQueues ==
  ASSUME EndsInv, SessionsInv, QueueInv, NEW events, NEW S, S \subseteq Sockets, SendEach(events, S),
         UNCHANGED <<lifeCycle, client, server, clients>>
  PROVE  QueueInv'
<1> DEFINE open == {s \in S : server[s] = "OPEN"}
           c == EachOf("message", open)
<1>1. /\ c \in Seq(Tasks)
      /\ \A i \in DOMAIN c : \E s \in open : c[i] = Task("message", s)
  <2>1. open \subseteq Sockets
    OBVIOUS
  <2> HIDE DEF open
  <2>2. QED
    BY <2>1, TasksQueued DEF TasksOf
<1>2. microtasks' = microtasks \o c /\ lost' = lost
  BY DEF SendEach
<1> HIDE DEF c
<1>3. /\ \A i \in DOMAIN c : c[i].do # "await"
      /\ \A s : ~InQueue(c, "closed", s)
      /\ \A s \in Sockets : InQueue(c, "message", s) => s \in open
  BY <1>1 DEF InQueue, Task
<1>4. QueueOk(microtasks, client, server, clients, closePromise)
  BY DEF QueueInv
<1>5. \A s \in open : s \in clients /\ client[s] \in {"CONNECTING", "OPEN"} /\ ~InQueue(microtasks, "closed", s)
  BY <1>4 DEF EndsInv, SessionsInv, QueueOk
<1>6. \A s \in Sockets : InQueue(microtasks, "closed", s) => server[s] \in {"CLOSING", "CLOSED"}
  BY <1>4 DEF QueueOk
<1>7. QueueOk(microtasks', client, server, clients, closePromise)
  <2>1. Grows(microtasks, client, clients, c, client, server, clients)
    BY <1>1, <1>3, <1>5, <1>6 DEF Grows
  <2>2. QED
    BY ONLY <1>2, <1>4, <2>1, QueueGrows
<1>8. QED
  BY <1>2, <1>7 DEF QueueInv, lifeCycle

\* The closings of sockets that are being closed, as they are put in the queue.
LEMMA ClosuresQueued ==
  ASSUME NEW S, S \subseteq Sockets
  PROVE  /\ Closures(S) \in Seq(Tasks)
         /\ \A i \in DOMAIN Closures(S) : \E s \in S : server[s] # "CLOSED" /\ Closures(S)[i] = Task("closed", s)
         /\ \A s \in S : server[s] # "CLOSED" => InQueue(Closures(S), "closed", s)
<1> DEFINE T == {t \in S : server[t] # "CLOSED"}
<1>1. T \subseteq Sockets
  OBVIOUS
<1>2. Closures(S) = EachOf("closed", T)
  BY DEF Closures
<1> HIDE DEF T
<1>3. /\ Closures(S) \in Seq(Tasks)
      /\ \A i \in DOMAIN Closures(S) : \E s \in T : Closures(S)[i] = Task("closed", s)
      /\ \A s \in T : InQueue(Closures(S), "closed", s)
  BY <1>1, <1>2, TasksQueued DEF TasksOf
<1>4. QED
  BY <1>3 DEF T

\* A queue to which closings have been added.
LEMMA ClosuresGrow ==
  ASSUME EndsInv, SessionsInv, NEW q, NEW c, NEW S, NEW cl, NEW sv,
         QueueOk(q, client, server, clients, closePromise),
         S \subseteq clients, c \in Seq(Tasks),
         \A i \in DOMAIN c : \E s \in S : c[i] = Task("closed", s),
         \A s \in Sockets : sv[s] = IF s \in S THEN "CLOSING" ELSE server[s],
         \A s \in Sockets : cl[s] = client[s] \/ cl[s] = "CLOSING"
  PROVE  QueueOk(q \o c, cl, sv, clients, closePromise)
<1>1. /\ \A i \in DOMAIN c : c[i].do # "await"
      /\ \A s \in Sockets : InQueue(c, "closed", s) => s \in S
      /\ \A s \in Sockets : ~InQueue(c, "message", s)
  BY DEF InQueue, Task
<1>2. \A s \in Sockets : InQueue(q, "closed", s) => sv[s] \in {"CLOSING", "CLOSED"}
  BY DEF QueueOk
<1>3. \A s \in Sockets : InQueue(c, "closed", s) => sv[s] \in {"CLOSING", "CLOSED"}
  BY <1>1
<1>4. Grows(q, client, clients, c, cl, sv, clients)
  BY <1>1, <1>2, <1>3 DEF Grows
<1>5. QueueOk(q, client, server, clients, closePromise)
  OBVIOUS
<1>6. QED
  BY ONLY <1>4, <1>5, QueueGrows

\* close() waits behind the closings of all connections.
LEMMA QueueAwaits ==
  ASSUME NEW q, NEW cl, NEW sv, NEW cs, QueueOk(q, cl, sv, cs, "none"), cs \subseteq Sockets,
         \A s \in cs : InQueue(q, "closed", s)
  PROVE  QueueOk(q \o <<[do |-> "await"]>>, cl, sv, cs, "closing")
<1> DEFINE c == <<[do |-> "await"]>>
           r == q \o c
<1>1. q \in Seq(Tasks) /\ \A i \in DOMAIN q : q[i].do # "await"
  BY DEF QueueOk
<1>2. c \in Seq(Tasks) /\ DOMAIN c = {1} /\ c[1] = [do |-> "await"]
  BY DEF Tasks
<1>3. \A s : [do |-> "await"] # Task("open", s) /\ [do |-> "await"] # Task("closed", s) /\ [do |-> "await"] # Task("message", s)
  <2>1. ASSUME NEW s, NEW do \in {"open", "closed", "message"} PROVE [do |-> "await"] # Task(do, s)
    <3>1. [do |-> "await"].do = "await" /\ Task(do, s).do = do
      BY DEF Task
    <3>2. QED
      BY <3>1
  <2>2. QED
    BY <2>1
<1> HIDE DEF c
<1>4. r = q \o c
  OBVIOUS
<1> HIDE DEF r
<1>5. Longer(q, c, r)
  BY ONLY <1>1, <1>2, <1>4, Enqueued
<1>6. \A i \in DOMAIN r :
        \/ i \in DOMAIN q /\ r[i] = q[i] /\ \A do, s : Before(r, do, s, i) <=> Before(q, do, s, i)
        \/ /\ i - Len(q) = 1 /\ r[i] = [do |-> "await"]
           /\ \A s : InQueue(q, "closed", s) => Before(r, "closed", s, i)
  BY <1>2, <1>5 DEF Longer
<1>7. \A s : ~InQueue(c, "closed", s) /\ ~InQueue(c, "open", s)
  BY <1>2, <1>3 DEF InQueue
<1>8. /\ \A s \in Sockets : cl[s] = "CONNECTING" => InQueue(r, "open", s)
      /\ \A s \in Sockets : InQueue(r, "closed", s) => sv[s] \in {"CLOSING", "CLOSED"}
  BY <1>5, <1>7 DEF QueueOk, Longer
<1>9. \A s \in Sockets, i \in DOMAIN r : r[i] = Task("message", s) =>
        /\ cl[s] \in {"OPEN", "CLOSING"} \/ (cl[s] = "CONNECTING" /\ Before(r, "open", s, i))
        /\ ~Before(r, "closed", s, i)
  BY <1>3, <1>6 DEF QueueOk
<1>10. \A i \in DOMAIN r : r[i].do = "await" => i - Len(q) = 1 /\ \A s \in cs : Before(r, "closed", s, i)
  BY <1>1, <1>6
<1>11. \A i, j \in DOMAIN r : r[i].do = "await" /\ r[j].do = "await" => i = j
  <2>1. \A i \in DOMAIN r : i \in Nat
    BY <1>5 DEF Longer
  <2>2. Len(q) \in Nat
    BY <1>1
  <2>3. QED
    BY <1>10, <2>1, <2>2
<1>12. QueueOk(r, cl, sv, cs, "closing")
  BY <1>5, <1>8, <1>9, <1>10, <1>11 DEF QueueOk, Longer
<1>13. QED
  BY <1>12 DEF r, c

\* The task in front of the queue is carried out.
LEMMA QueueAfterMicrotask ==
  ASSUME EndsInv, SessionsInv, QueueInv, RunMicrotask
  PROVE  QueueInv'
<1> DEFINE s == Head(microtasks).socket
<1> HIDE DEF s
<1>1. QueueOk(microtasks, client, server, clients, closePromise) /\ microtasks \in Seq(Tasks) /\ microtasks # <<>> /\ lost = {}
  BY DEF QueueInv, QueueOk, RunMicrotask
<1>2. Shorter(microtasks, Tail(microtasks))
  BY <1>1, Dequeued
<1>3. Head(microtasks).do # "await" => s \in Sockets /\ Head(microtasks) = Task(Head(microtasks).do, s)
  BY <1>2 DEF Shorter, Tasks, Task, s
<1>4. \A do, t : Task(do, t).do = do /\ Task(do, t).socket = t
  BY DEF Task
<1>5. CASE Head(microtasks).do = "open" /\ ClientOpen(s) /\ microtasks' = Tail(microtasks)
  <2>1. \A t \in Sockets : Head(microtasks) # Task("closed", t) /\ (Head(microtasks) = Task("open", t) <=> t = s)
    BY <1>3, <1>4, <1>5
  <2>2. Shrinks(microtasks, client, server, clients, closePromise, client', server, clients, closePromise)
    BY <1>1, <1>5, <2>1 DEF Shrinks, ClientOpen, SessionsInv
  <2>3. QueueOk(Tail(microtasks), client', server, clients, closePromise)
    BY ONLY <1>1, <2>2, QueueShrinks
  <2>4. QED
    BY <1>1, <1>5, <2>3 DEF ClientOpen, QueueInv, lifeCycle, out
<1>6. CASE Head(microtasks).do = "message" /\ ReceiveFromServer(s) /\ microtasks' = Tail(microtasks)
  <2>1. \A t \in Sockets : Head(microtasks) # Task("closed", t) /\ Head(microtasks) # Task("open", t)
    BY <1>4, <1>6
  <2>2. Shrinks(microtasks, client, server, clients, closePromise, client, server, clients, closePromise)
    BY <1>1, <1>6, <2>1 DEF Shrinks, SessionsInv
  <2>3. QueueOk(Tail(microtasks), client, server, clients, closePromise)
    BY ONLY <1>1, <2>2, QueueShrinks
  <2>4. client[s] \in {"OPEN", "CLOSING"}
    <3>1. 1 \in DOMAIN microtasks /\ microtasks[1] = Task("message", s) /\ s \in Sockets
      BY <1>2, <1>3, <1>6 DEF Shorter
    <3>2. ~Before(microtasks, "open", s, 1)
      BY <1>2 DEF Shorter
    <3>3. QED
      BY <1>1, <3>1, <3>2 DEF QueueOk
  <2>5. QED
    BY <1>1, <1>6, <2>3, <2>4 DEF ReceiveFromServer, QueueInv, lifeCycle
<1>7. CASE Head(microtasks).do = "closed" /\ SocketClosed(s) /\ microtasks' = Tail(microtasks)
  <2>1. \A t \in Sockets : Head(microtasks) # Task("open", t) /\ (Head(microtasks) = Task("closed", t) <=> t = s)
    BY <1>3, <1>4, <1>7
  <2>2. clients' = clients \ {s} /\ clients \subseteq Sockets
    BY <1>7 DEF SocketClosed, SessionsInv
  <2>3. \A t \in Sockets : IF t = s THEN client'[t] = "CLOSED" /\ server'[t] = "CLOSED"
                           ELSE client'[t] = client[t] /\ server'[t] = server[t]
    BY <1>7 DEF SocketClosed, SessionsInv
  <2>4. Shrinks(microtasks, client, server, clients, closePromise, client', server', clients', closePromise)
    BY <1>1, <1>7, <2>1, <2>2, <2>3 DEF Shrinks
  <2>5. QueueOk(Tail(microtasks), client', server', clients', closePromise)
    BY ONLY <1>1, <2>4, QueueShrinks
  <2>6. QED
    BY <1>1, <1>7, <2>5 DEF SocketClosed, QueueInv, lifeCycle
<1>8. CASE Head(microtasks).do = "connection" /\ HandleConnection(s)
  <2>1. \A t \in Sockets : Head(microtasks) # Task("closed", t) /\ Head(microtasks) # Task("open", t)
    BY <1>4, <1>8
  <2>2. Shrinks(microtasks, client, server, clients, closePromise, client, server, clients, closePromise)
    BY <1>1, <1>8, <2>1 DEF Shrinks, SessionsInv
  <2>3. QueueOk(Tail(microtasks), client, server, clients, closePromise)
    BY ONLY <1>1, <2>2, QueueShrinks
  <2>4. UNCHANGED <<client, clients, closePromise, lost>>
    BY <1>8 DEF HandleConnection, lifeCycle, out
  <2>5. CASE s \in clients /\ ~accepting
    <3>1. microtasks' = Tail(microtasks) \o Closures({s}) /\ server' = ClosingEnds({s})
      BY <1>8, <2>5 DEF HandleConnection
    <3>2. \A t \in Sockets : server'[t] = IF t \in {s} THEN "CLOSING" ELSE server[t]
      BY <2>5, <3>1 DEF ClosingEnds, EndsInv, SessionsInv
    <3>3. /\ Closures({s}) \in Seq(Tasks)
          /\ \A i \in DOMAIN Closures({s}) : \E t \in {s} : Closures({s})[i] = Task("closed", t)
      BY <2>5, ClosuresQueued DEF SessionsInv
    <3>4. QueueOk(Tail(microtasks) \o Closures({s}), client, server', clients, closePromise)
      BY <2>3, <2>5, <3>2, <3>3, ClosuresGrow
    <3>5. QED
      BY <1>1, <2>4, <3>1, <3>4 DEF QueueInv
  <2>6. CASE ~(s \in clients /\ ~accepting)
    <3>1. server' = server
      BY <1>8, <2>6 DEF HandleConnection
    <3>2. microtasks' = Tail(microtasks)
      <4>1. Tail(microtasks) \in Seq(Tasks)
        BY <1>1
      <4>2. microtasks' = Tail(microtasks) \/ microtasks' = Tail(microtasks) \o <<>>
        BY <1>8, <2>6 DEF HandleConnection
      <4>3. QED
        BY <4>1, <4>2
    <3>3. QED
      BY <1>1, <2>3, <2>4, <3>1, <3>2 DEF QueueInv
  <2>7. QED
    BY <2>5, <2>6
<1>9. CASE /\ Head(microtasks).do = "await" /\ closePromise' = "awaiting" /\ microtasks' = Tail(microtasks)
           /\ UNCHANGED <<accepting, client, server, clients, session, stored, out>>
  <2>1. \A do, t : Head(microtasks) = Task(do, t) => do = "await"
    BY <1>4, <1>9
  <2>2. Shrinks(microtasks, client, server, clients, closePromise, client, server, clients, "awaiting")
    BY <1>1, <1>9, <2>1 DEF Shrinks, SessionsInv
  <2>3. QueueOk(Tail(microtasks), client, server, clients, "awaiting")
    BY ONLY <1>1, <2>2, QueueShrinks
  <2>4. QED
    BY <1>1, <1>9, <2>3 DEF QueueInv, out
<1>10. QED
  BY <1>5, <1>6, <1>7, <1>8, <1>9 DEF RunMicrotask, s

\* close() puts the closings of all connections in the queue, and then waits.
LEMMA QueueAfterClose ==
  ASSUME EndsInv, SessionsInv, QueueInv, Close
  PROVE  QueueInv'
<1> DEFINE A == {s \in sessions : server[s] = "OPEN"}
           a == Closures(A)
           b == Closures(clients)
           w == <<[do |-> "await"]>>
<1>1. QueueOk(microtasks, client, server, clients, "none") /\ closePromise = "none" /\ lost = {}
  BY DEF QueueInv, Close
<1>2. /\ client' = client /\ clients' = clients /\ closePromise' = "closing" /\ lost' = lost
      /\ server' = ClosingEnds(clients) /\ microtasks' = microtasks \o ((a \o b) \o w)
  BY DEF Close, out, Queued, ToClose
<1>3. A \subseteq clients /\ A \subseteq Sockets /\ clients \subseteq Sockets
  BY DEF EndsInv, SessionsInv
<1>4. \A s \in Sockets : server'[s] = IF s \in clients THEN "CLOSING" ELSE server[s]
  BY <1>2 DEF ClosingEnds, EndsInv, SessionsInv
<1>5. \A s \in clients : server[s] # "CLOSED"
  BY DEF EndsInv
<1> HIDE DEF A
<1>6. /\ a \in Seq(Tasks)
      /\ \A i \in DOMAIN a : \E s \in clients : a[i] = Task("closed", s)
  BY <1>3, ClosuresQueued
<1>7. /\ b \in Seq(Tasks)
      /\ \A i \in DOMAIN b : \E s \in clients : b[i] = Task("closed", s)
      /\ \A s \in clients : InQueue(b, "closed", s)
  BY <1>3, <1>5, ClosuresQueued
<1>8. microtasks \in Seq(Tasks) /\ w \in Seq(Tasks)
  BY <1>1 DEF QueueOk, Tasks
<1> HIDE DEF a, b
<1> DEFINE c == a \o b
<1>9. Longer(a, b, c)
  BY <1>6, <1>7, Enqueued
<1>10. /\ c \in Seq(Tasks)
       /\ \A i \in DOMAIN c : \E s \in clients : c[i] = Task("closed", s)
       /\ \A s \in clients : InQueue(c, "closed", s)
  BY <1>6, <1>7, <1>9 DEF Longer
<1> HIDE DEF c, w
<1>11. QueueOk(microtasks \o c, client, server', clients, closePromise)
  BY <1>1, <1>4, <1>10, ClosuresGrow
<1>12. \A s \in clients : InQueue(microtasks \o c, "closed", s)
  <2>1. Longer(microtasks, c, microtasks \o c)
    BY <1>8, <1>10, Enqueued
  <2>2. QED
    BY <1>10, <2>1 DEF Longer
<1>13. QueueOk((microtasks \o c) \o w, client, server', clients, "closing")
  BY <1>1, <1>3, <1>11, <1>12, QueueAwaits DEF w
<1>14. microtasks' = (microtasks \o c) \o w
  <2>1. microtasks' = microtasks \o (c \o w)
    BY <1>2 DEF c
  <2>2. microtasks \in Seq(Tasks) /\ c \in Seq(Tasks) /\ w \in Seq(Tasks)
    BY <1>8, <1>10
  <2>3. (microtasks \o c) \o w = microtasks \o (c \o w)
    BY ONLY <2>2, ConcatAssociative
  <2>4. QED
    BY ONLY <2>1, <2>3
<1>15. QED
  BY <1>1, <1>2, <1>13, <1>14 DEF QueueInv

\* A connection is made while nobody waits for it to close.
LEMMA QueueAfterConnect ==
  ASSUME EndsInv, SessionsInv, QueueInv, NEW s \in Sockets, Connect(s)
  PROVE  QueueInv'
<1> DEFINE c == <<Task("open", s), Task("connection", s)>>
<1>1. QueueOk(microtasks, client, server, clients, closePromise) /\ lost = {}
  BY DEF QueueInv
<1>2. /\ microtasks' = microtasks \o c /\ lost' = lost /\ closePromise' = closePromise
      /\ \A t \in Sockets : IF t = s THEN client'[t] = "CONNECTING" /\ server'[t] = "OPEN"
                            ELSE client'[t] = client[t] /\ server'[t] = server[t]
  BY DEF Connect, lifeCycle, out, SessionsInv
<1>3. client[s] = "none" /\ server[s] = "none" /\ closePromise = "none"
  BY DEF Connect, EndsInv, SessionsInv
<1>4. /\ c \in Seq(Tasks) /\ InQueue(c, "open", s)
      /\ \A i \in DOMAIN c : c[i] = Task("open", s) \/ c[i] = Task("connection", s)
  <2>1. Task("open", s) \in Tasks /\ Task("connection", s) \in Tasks
    BY DEF Task, Tasks
  <2>2. DOMAIN c = {1, 2} /\ c[1] = Task("open", s) /\ c[2] = Task("connection", s)
    OBVIOUS
  <2>3. c \in Seq(Tasks)
    BY <2>1
  <2> HIDE DEF c
  <2>4. QED
    BY <2>2, <2>3 DEF InQueue
<1> HIDE DEF c
<1>5. /\ \A i \in DOMAIN c : c[i].do # "await"
      /\ \A t : ~InQueue(c, "message", t) /\ ~InQueue(c, "closed", t)
  BY <1>4 DEF InQueue, Task
<1>6. \A i \in DOMAIN microtasks : microtasks[i].do # "await"
  BY <1>1, <1>3 DEF QueueOk
<1>7. ~InQueue(microtasks, "message", s) /\ ~InQueue(microtasks, "closed", s)
  BY <1>1, <1>3 DEF QueueOk, InQueue
<1>8. \A t \in Sockets : InQueue(microtasks, "closed", t) => server[t] \in {"CLOSING", "CLOSED"}
  BY <1>1 DEF QueueOk
<1>9. Grows(microtasks, client, clients, c, client', server', clients')
  BY <1>2, <1>4, <1>5, <1>6, <1>7, <1>8 DEF Grows
<1>10. QueueOk(microtasks \o c, client', server', clients', closePromise)
  BY ONLY <1>1, <1>9, QueueGrows
<1>11. QED
  BY <1>1, <1>2, <1>10 DEF QueueInv

\* Every step keeps the queue in order.
LEMMA QueueStep ==
  ASSUME EndsInv, SessionsInv, QueueInv, [EphemeralNext]_ephemeralVars
  PROVE  QueueInv'
<1>1. CASE UNCHANGED <<lifeCycle, transport, out>>
  BY <1>1 DEF QueueInv, lifeCycle, transport, out
<1>2. CASE Start
  BY <1>2 DEF Start, QueueInv, transport, out
<1>3. CASE Purge
  BY <1>1, <1>3 DEF Purge
<1>4. CASE CloseFinished
  <2>1. QueueOk(microtasks, client, server, clients, "awaiting") /\ lost = {}
    BY <1>4 DEF QueueInv, CloseFinished
  <2>2. QueueOk(microtasks, client, server, clients', "none")
    BY <2>1 DEF QueueOk
  <2>3. QED
    BY <1>4, <2>1, <2>2 DEF QueueInv, CloseFinished, out
<1>5. ASSUME NEW s \in Sockets, ClientClose(s) PROVE QueueInv'
  <2>1. s \in clients /\ {s} \subseteq clients /\ server[s] # "CLOSED"
    BY <1>5 DEF ClientClose, EndsInv
  <2>2. \A t \in Sockets : server'[t] = IF t \in {s} THEN "CLOSING" ELSE server[t]
    BY <1>5, <2>1 DEF ClientClose, ClosingEnds, EndsInv
  <2>3. \A t \in Sockets : client'[t] = client[t] \/ client'[t] = "CLOSING"
    BY <1>5 DEF ClientClose, SessionsInv
  <2>4. /\ Closures({s}) \in Seq(Tasks)
        /\ \A i \in DOMAIN Closures({s}) : \E t \in {s} : Closures({s})[i] = Task("closed", t)
    BY <2>1, ClosuresQueued
  <2>5. QueueOk(microtasks, client, server, clients, closePromise)
    BY DEF QueueInv
  <2>6. QueueOk(microtasks \o Closures({s}), client', server', clients, closePromise)
    BY <2>1, <2>2, <2>3, <2>4, <2>5, ClosuresGrow
  <2>7. QED
    BY <1>5, <2>6 DEF ClientClose, QueueInv, Queued, lifeCycle, out
<1>6. ASSUME NEW s \in Sockets, NEW id \in SubIds, OnClose(s, id) PROVE QueueInv'
  BY <1>1, <1>6 DEF OnClose
<1>7. ASSUME NEW s \in Sockets, NEW id \in SubIds, NEW f \in Filters, OnReq(s, id, f) PROVE QueueInv'
  <2> DEFINE events == [t \in {s} |-> {id} \X Range(Stored(f))]
  <2>1. SendEach(events, {s}) /\ UNCHANGED <<lifeCycle, client, server, clients>>
    BY <1>7 DEF OnReq
  <2> HIDE DEF events
  <2>2. QED
    BY <2>1, SendEachQueues
<1>8. ASSUME NEW s \in Sockets, NEW e \in Events, OnEvent(s, e) PROVE QueueInv'
  BY <1>1, <1>8 DEF OnEvent
<1>9. ASSUME NEW s \in Sockets, NEW e \in Events, Validated(s, e) PROVE QueueInv'
  <2> DEFINE wanted(t) == {u.id : u \in {v \in subs : v.socket = t /\ Live(s, v, e)}}
             hearers == {s} \cup {t \in Sockets : wanted(t) # {}}
             none == [t \in {s} |-> {}]
             events == [t \in hearers |-> wanted(t) \X {e}]
  <2>1. /\ SendEach(none, {s}) \/ SendEach(events, hearers)
        /\ UNCHANGED <<lifeCycle, client, server, clients>>
    BY <1>9 DEF Validated
  <2>2. hearers \subseteq Sockets
    OBVIOUS
  <2> HIDE DEF none, events, hearers
  <2>3. QED
    BY <2>1, <2>2, SendEachQueues
<1>10. CASE UNCHANGED ephemeralVars
  BY <1>1, <1>10 DEF ephemeralVars
<1>11. QED
  BY <1>2, <1>3, <1>4, <1>5, <1>6, <1>7, <1>8, <1>9, <1>10,
     QueueAfterMicrotask, QueueAfterClose, QueueAfterConnect DEF EphemeralNext

\* The queue, the ends and the sessions are always in order.
LEMMA TransportInvariant == EphemeralSpec => [](EndsInv /\ SessionsInv /\ QueueInv)
<1>1. EphemeralInit => EndsInv /\ SessionsInv /\ QueueInv
  <2>1. SUFFICES ASSUME EphemeralInit PROVE EndsInv /\ SessionsInv /\ QueueInv
    OBVIOUS
  <2>2. EndsInv /\ SessionsInv
    BY <2>1 DEF EphemeralInit, EndsInv, SessionsInv
  <2>3. microtasks = <<>> /\ microtasks \in Seq(Tasks) /\ DOMAIN microtasks = {}
    BY <2>1 DEF EphemeralInit
  <2>4. QueueOk(microtasks, client, server, clients, closePromise)
    BY <2>1, <2>3 DEF EphemeralInit, QueueOk, InQueue
  <2>5. QED
    BY <2>1, <2>2, <2>4 DEF EphemeralInit, QueueInv
<1>2. CacheInv /\ EndsInv /\ SessionsInv /\ QueueInv /\ [EphemeralNext]_ephemeralVars => (EndsInv /\ SessionsInv /\ QueueInv)'
  BY EndsStep, QueueStep, SessionsStep
<1>3. EphemeralInv => CacheInv
  BY DEF EphemeralInv
<1>4. QED
  BY <1>1, <1>2, <1>3, EphemeralInvariant, PTL DEF EphemeralSpec

\* No message arrives before the client's end is open or after it was closed.
THEOREM NothingCutOffAlways == EphemeralSpec => []NothingCutOff
<1>1. QueueInv => NothingCutOff
  BY DEF QueueInv, NothingCutOff
<1>2. QED
  BY <1>1, TransportInvariant, PTL

\* When close() has finished, both ends of every connection are closed.
THEOREM CloseDrainsAlways == EphemeralSpec => CloseDrains
<1>1. EndsInv /\ SessionsInv /\ QueueInv /\ [EphemeralNext]_ephemeralVars =>
        [closePromise # "none" /\ closePromise' = "none" =>
           \A s \in Sockets : server[s] \in {"none", "CLOSED"} /\ client[s] \in {"none", "CLOSED"}]_ephemeralVars
  <2>1. SUFFICES ASSUME EndsInv, SessionsInv, EphemeralNext, closePromise # "none", closePromise' = "none"
                 PROVE  \A s \in Sockets : server[s] \in {"none", "CLOSED"} /\ client[s] \in {"none", "CLOSED"}
    OBVIOUS
  <2>2. CloseFinished
    <3>1. CASE Start \/ Purge \/ Close
      BY <2>1, <3>1 DEF Start, Purge, Close, lifeCycle
    <3>2. CASE RunMicrotask
      BY <2>1, <3>2 DEF RunMicrotask, ClientOpen, ReceiveFromServer, SocketClosed, HandleConnection, lifeCycle
    <3>3. ASSUME NEW s \in Sockets, Connect(s) \/ ClientClose(s) PROVE FALSE
      BY <2>1, <3>3 DEF Connect, ClientClose, lifeCycle
    <3>4. ASSUME NEW s \in Sockets, NEW id \in SubIds, OnClose(s, id) \/ \E f \in Filters : OnReq(s, id, f)
          PROVE  FALSE
      BY <2>1, <3>4 DEF OnClose, OnReq, lifeCycle
    <3>5. ASSUME NEW s \in Sockets, NEW e \in Events, OnEvent(s, e) \/ Validated(s, e) PROVE FALSE
      BY <2>1, <3>5 DEF OnEvent, Validated, lifeCycle
    <3>6. QED
      BY <2>1, <3>1, <3>2, <3>3, <3>4, <3>5 DEF EphemeralNext
  <2>3. clients = {}
    BY <2>1, <2>2 DEF CloseFinished, EndsInv
  <2>4. QED
    BY <2>1, <2>3 DEF EndsInv
<1>2. QED
  BY <1>1, TransportInvariant, PTL DEF EphemeralSpec, CloseDrains
===============================================================================
