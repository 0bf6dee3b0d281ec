------------------------ MODULE IndependentPartsProofs ------------------------
(***************************************************************************)
(* The parts of the library that share no state with each other, for every *)
(* instance: the two rate limiters, the events a relay keeps, the cache of *)
(* relay information, calls that collect, publish or manage, groups and    *)
(* the simple client and bunker of NIP-46; and, for every sample, what is  *)
(* refused of forged events, receipts and messages, and that encrypted     *)
(* texts and answers to challenges read back.  What is known of arrays     *)
(* comes from ComponentProofs.                                             *)
(***************************************************************************)
EXTENDS IndependentParts, ComponentProofs

-----------------------------------------------------------------------------
\* No step takes the clock back.
LEMMA ClockAdvances == [Next]_vars => now' \in {now, now + 1}
<1> SUFFICES ASSUME [Next]_vars PROVE now' \in {now, now + 1}
  OBVIOUS
<1> USE DEF Tick
<1>1. CASE UNCHANGED vars
  BY <1>1 DEF vars
<1>2. LimiterNext => now' \in {now, now + 1}
  BY DEF LimiterNext
<1>3. WindowNext => now' \in {now, now + 1}
  BY DEF WindowNext
<1>4. ReplaceableNext => now' \in {now, now + 1}
  BY DEF ReplaceableNext, processReplaceableEvent, getLatestReplaceableEvent
<1>5. AddressableNext => now' \in {now, now + 1}
  BY DEF AddressableNext, processAddressableEvent, getLatestAddressableEvent
<1>6. GroupNext => now' \in {now, now + 1}
  BY DEF GroupNext
<1>7. InfoNext => now' \in {now, now + 1}
  BY DEF InfoNext
<1> HIDE DEF Tick
<1>8. QED
  BY <1>1, <1>2, <1>3, <1>4, <1>5, <1>6, <1>7 DEF Next

-----------------------------------------------------------------------------
\* How many elements of s are in K.
Count(s, K) == Cardinality({i \in DOMAIN s : s[i] \in K})

LEMMA CountTyped ==
  ASSUME NEW s \in Seq(Nat), NEW K
  PROVE  IsFiniteSet({i \in DOMAIN s : s[i] \in K}) /\ Count(s, K) \in Nat
<1>1. IsFiniteSet(1 .. Len(s)) /\ {i \in DOMAIN s : s[i] \in K} \subseteq 1 .. Len(s)
  BY FS_Interval
<1>2. IsFiniteSet({i \in DOMAIN s : s[i] \in K})
  BY <1>1, FS_Subset
<1>3. QED
  BY <1>2, FS_CardinalityType DEF Count

\* One more element counts once, if at all.
LEMMA CountAppend ==
  ASSUME NEW s \in Seq(Nat), NEW x \in Nat, NEW K
  PROVE  Count(Append(s, x), K) = IF x \in K THEN Count(s, K) + 1 ELSE Count(s, K)
<1> DEFINE r == filter(s, K)
           t == Append(s, x)
<1>1. t \in Seq(Nat) /\ r \in Seq(Nat)
  BY FilterPicks
<1>2. filter(t, K) = IF x \in K THEN Append(r, x) ELSE r
  BY FilterAppend
<1> HIDE DEF r, t
<1>3. Len(filter(t, K)) = IF x \in K THEN Len(r) + 1 ELSE Len(r)
  BY <1>1, <1>2
<1>4. Len(filter(t, K)) = Count(t, K)
  BY <1>1, FilterLength DEF Count
<1>5. Len(r) = Count(s, K)
  BY FilterLength DEF Count, r
<1>6. QED
  BY <1>3, <1>4, <1>5 DEF t

\* Of fewer values there are fewer.
LEMMA CountMonotone ==
  ASSUME NEW s \in Seq(Nat), NEW K, NEW L, \A i \in DOMAIN s : s[i] \in K => s[i] \in L
  PROVE  Count(s, K) <= Count(s, L)
<1>1. {i \in DOMAIN s : s[i] \in K} \subseteq {i \in DOMAIN s : s[i] \in L}
  OBVIOUS
<1>2. QED
  BY <1>1, CountTyped, FS_Subset DEF Count

\* Of values of two kinds there are at most as many as of both together.
LEMMA CountBoth ==
  ASSUME NEW s \in Seq(Nat), NEW K, NEW L, NEW M,
         \A i \in DOMAIN s : s[i] \in M => s[i] \in K \/ s[i] \in L
  PROVE  Count(s, M) <= Count(s, K) + Count(s, L)
<1> DEFINE A == {i \in DOMAIN s : s[i] \in K}
           B == {i \in DOMAIN s : s[i] \in L}
           C == {i \in DOMAIN s : s[i] \in M}
<1>1. IsFiniteSet(A) /\ IsFiniteSet(B) /\ Cardinality(A) \in Nat /\ Cardinality(B) \in Nat
      /\ Cardinality(C) \in Nat
  BY CountTyped DEF Count
<1>2. C \subseteq A \cup B
  OBVIOUS
<1> HIDE DEF A, B, C
<1>3. /\ IsFiniteSet(A \cup B) /\ IsFiniteSet(A \cap B)
      /\ Cardinality(A \cup B) = Cardinality(A) + Cardinality(B) - Cardinality(A \cap B)
  BY <1>1, FS_Union, FS_Intersection
<1>4. Cardinality(C) <= Cardinality(A \cup B) /\ Cardinality(A \cap B) \in Nat
  BY <1>2, <1>3, FS_Subset, FS_CardinalityType
<1>5. Cardinality(C) <= Cardinality(A) + Cardinality(B)
  BY <1>1, <1>3, <1>4
<1>6. QED
  BY <1>5 DEF A, B, C, Count

\* There is none where there is none.
LEMMA CountNone ==
  ASSUME NEW s, NEW K, \A i \in DOMAIN s : s[i] \notin K
  PROVE  Count(s, K) = 0
<1>1. {i \in DOMAIN s : s[i] \in K} = {}
  OBVIOUS
<1>2. QED
  BY <1>1, FS_EmptySet DEF Count

-----------------------------------------------------------------------------
\* The limiter of NIP-46.

History == [requests : Seq(Nat), lastCleanup : Nat]

LimiterTypeOK ==
  /\ now \in Nat
  /\ clientHistory \in UNION {[D -> History] : D \in SUBSET Clients}
  /\ granted \in [Clients -> Seq(Nat)]

\* The list of requests has everything granted that may still count.
Remembers ==
  \A c \in Clients : Within(getOrCreateHistory(c).requests, HourSpan) = Within(granted[c], HourSpan)

GrantedBefore == \A c \in Clients : \A i \in DOMAIN granted[c] : granted[c][i] <= now

LimiterInv == LimiterTypeOK /\ Remembers /\ GrantedBefore /\ WindowsHold

\* What a request does for a client, and what leaves it as it is.
Remembered(c) ==
  /\ Within(getOrCreateHistory(c)'.requests, HourSpan) = Within(getOrCreateHistory(c).requests, HourSpan)
  /\ granted'[c] = granted[c]
Recorded(c) ==
  /\ Within(getOrCreateHistory(c)'.requests, HourSpan)
       = Append(Within(getOrCreateHistory(c).requests, HourSpan), now)
  /\ granted'[c] = Append(granted[c], now)
  /\ ~Full(granted[c])
Forgotten(c) == getOrCreateHistory(c)'.requests = <<>> /\ granted'[c] = <<>>

\* Looking first at the later part of a history loses nothing of a still later part.
LEMMA SinceLater ==
  ASSUME NEW s \in Seq(Nat), NEW a \in Int, NEW b \in Int, a <= b
  PROVE  filter(filter(s, Since(a)), Since(b)) = filter(s, Since(b))
<1>1. Since(a) \cap Since(b) = Since(b)
  BY DEF Since
<1>2. filter(filter(s, Since(a)), Since(b)) = filter(s, Since(a) \cap Since(b))
  BY FilterTwice
<1>3. QED
  BY <1>1, <1>2

\* Histories that agree since some time agree since any later time.
LEMMA AgreeLater ==
  ASSUME NEW r \in Seq(Nat), NEW s \in Seq(Nat), NEW a \in Int, NEW b \in Int, a <= b,
         filter(r, Since(a)) = filter(s, Since(a))
  PROVE  filter(r, Since(b)) = filter(s, Since(b))
<1>1. /\ filter(filter(r, Since(a)), Since(b)) = filter(r, Since(b))
      /\ filter(filter(s, Since(a)), Since(b)) = filter(s, Since(b))
  BY SinceLater
<1>2. QED
  BY <1>1

\* The verdict depends on what counts, and on nothing else.
LEMMA FullAgrees ==
  ASSUME NEW r \in Seq(Nat), NEW s \in Seq(Nat), now \in Nat, Within(r, HourSpan) = Within(s, HourSpan)
  PROVE  Full(r) <=> Full(s)
<1>1. ASSUME NEW w \in Windows PROVE Within(r, w.span) = Within(s, w.span)
  <2>1. now - HourSpan \in Int /\ now - w.span \in Int /\ now - HourSpan <= now - w.span
    BY WindowsAssumption
  <2>2. QED
    BY <2>1, AgreeLater DEF Within
<1>2. QED
  BY <1>1 DEF Full

\* A list that is cleaned still has what counts.
LEMMA CleaningKeeps ==
  ASSUME NEW h \in History, now \in Nat
  PROVE  /\ cleanHistory(h) \in History
         /\ Within(cleanHistory(h).requests, HourSpan) = Within(h.requests, HourSpan)
         /\ Within(h.requests, HourSpan) \in Seq(Nat)
         /\ Within(Within(h.requests, HourSpan), HourSpan) = Within(h.requests, HourSpan)
<1>1. h.requests \in Seq(Nat) /\ h.lastCleanup \in Nat /\ now - HourSpan \in Int
  BY WindowsAssumption DEF History
<1>2. Within(h.requests, HourSpan) \in Seq(Nat)
  BY <1>1, FilterPicks DEF Within
<1>3. Within(Within(h.requests, HourSpan), HourSpan) = Within(h.requests, HourSpan)
  BY <1>1, SinceLater DEF Within
<1> DEFINE r == Within(h.requests, HourSpan)
<1> HIDE DEF r
<1>4. cleanHistory(h) = h \/ cleanHistory(h) = [requests |-> r, lastCleanup |-> now]
  BY DEF cleanHistory, r
<1>5. QED
  BY <1>2, <1>3, <1>4 DEF r, History

\* A client the limiter does not know has no requests.
LEMMA HistoryTyped ==
  ASSUME LimiterTypeOK, NEW c \in Clients
  PROVE  getOrCreateHistory(c) \in History /\ getOrCreateHistory(c).requests \in Seq(Nat)
<1>1. CASE c \in DOMAIN clientHistory
  BY <1>1 DEF LimiterTypeOK, getOrCreateHistory, History
<1>2. CASE c \notin DOMAIN clientHistory
  BY <1>2 DEF LimiterTypeOK, getOrCreateHistory, History
<1>3. QED
  BY <1>1, <1>2

\* The verdict on the list is the verdict on everything that was granted.
LEMMA Exact == LimiterInv => VerdictIsExact
<1> SUFFICES ASSUME LimiterInv, NEW c \in Clients
             PROVE  Full(getOrCreateHistory(c).requests) <=> Full(granted[c])
  BY DEF VerdictIsExact
<1>1. getOrCreateHistory(c).requests \in Seq(Nat) /\ granted[c] \in Seq(Nat) /\ now \in Nat
  BY HistoryTyped DEF LimiterInv, LimiterTypeOK
<1>2. Within(getOrCreateHistory(c).requests, HourSpan) = Within(granted[c], HourSpan)
  BY DEF LimiterInv, Remembers
<1>3. QED
  BY <1>1, <1>2, FullAgrees

\* Calls that each client either is or is not granted keep the invariant.
LEMMA KeepsLimits ==
  ASSUME LimiterInv, LimiterTypeOK', UNCHANGED now,
         \A c \in Clients : Remembered(c) \/ Recorded(c) \/ Forgotten(c)
  PROVE  LimiterInv'
<1>0. now \in Nat /\ now' = now /\ granted \in [Clients -> Seq(Nat)] /\ now - HourSpan \in Int
  BY WindowsAssumption DEF LimiterInv, LimiterTypeOK
<1>1. ASSUME NEW c \in Clients
      PROVE  Within(getOrCreateHistory(c)'.requests, HourSpan) = Within(granted'[c], HourSpan)
  <2>1. Within(getOrCreateHistory(c).requests, HourSpan) = Within(granted[c], HourSpan)
    BY DEF LimiterInv, Remembers
  <2>2. CASE Remembered(c)
    BY <2>1, <2>2 DEF Remembered
  <2>3. CASE Recorded(c)
    <3>1. now \in Since(now - HourSpan)
      BY <1>0, WindowsAssumption DEF Since
    <3>2. Within(Append(granted[c], now), HourSpan) = Append(Within(granted[c], HourSpan), now)
      BY <1>0, <3>1, FilterAppend DEF Within
    <3>3. QED
      BY <2>1, <2>3, <3>2 DEF Recorded
  <2>4. CASE Forgotten(c)
    BY <2>4 DEF Forgotten
  <2>5. QED
    BY <1>1, <2>2, <2>3, <2>4
<1>2. Remembers'
  BY <1>0, <1>1 DEF Remembers, Within
<1>3. GrantedBefore'
  <2> SUFFICES ASSUME NEW c \in Clients, NEW i \in DOMAIN granted'[c] PROVE granted'[c][i] <= now
    BY <1>0 DEF GrantedBefore
  <2>1. \A j \in DOMAIN granted[c] : granted[c][j] <= now
    BY DEF LimiterInv, GrantedBefore
  <2>2. granted[c] \in Seq(Nat)
    BY <1>0
  <2>3. CASE granted'[c] = granted[c]
    BY <2>1, <2>3
  <2>4. CASE granted'[c] = Append(granted[c], now)
    <3>1. i \in DOMAIN granted[c] \/ granted'[c][i] = now
      BY <2>2, <2>4
    <3>2. i \in DOMAIN granted[c] => granted'[c][i] = granted[c][i]
      BY <1>0, <2>2, <2>4
    <3>3. QED
      BY <1>0, <2>1, <3>1, <3>2
  <2>5. CASE granted'[c] = <<>>
    BY <2>5
  <2>6. QED
    BY <2>3, <2>4, <2>5 DEF Remembered, Recorded, Forgotten
<1>4. WindowsHold'
  <2> SUFFICES ASSUME NEW c \in Clients, NEW w \in Windows, NEW t \in 0 .. now
               PROVE  Count(granted'[c], t .. t + w.span) <= w.limit
    BY <1>0 DEF WindowsHold, Count
  <2>0. granted[c] \in Seq(Nat) /\ w.span \in Nat /\ w.limit \in Nat
    BY <1>0, WindowsAssumption
  <2>1. Count(granted[c], t .. t + w.span) <= w.limit
    BY DEF LimiterInv, WindowsHold, Count
  <2>2. CASE Remembered(c)
    BY <2>1, <2>2 DEF Remembered
  <2>3. CASE Recorded(c)
    <3>1. Count(Append(granted[c], now), t .. t + w.span)
            = IF now \in t .. t + w.span THEN Count(granted[c], t .. t + w.span) + 1
              ELSE Count(granted[c], t .. t + w.span)
      BY <1>0, <2>0, CountAppend
    <3>2. CASE now \in t .. t + w.span
      <4>1. \A i \in DOMAIN granted[c] :
              granted[c][i] \in t .. t + w.span => granted[c][i] \in Since(now - w.span)
        BY <1>0, <2>0, <3>2 DEF Since
      <4>2. Count(granted[c], t .. t + w.span) <= Count(granted[c], Since(now - w.span))
        BY <2>0, <4>1, CountMonotone
      <4>3. Count(granted[c], Since(now - w.span)) = Len(Within(granted[c], w.span))
        BY <2>0, FilterLength DEF Count, Within
      <4>4. ~ (Len(Within(granted[c], w.span)) >= w.limit)
        BY <2>3 DEF Recorded, Full
      <4>5. Count(granted[c], t .. t + w.span) \in Nat /\ Count(granted[c], Since(now - w.span)) \in Nat
        BY <2>0, CountTyped
      <4>6. Count(granted[c], t .. t + w.span) + 1 <= w.limit
        BY <2>0, <4>2, <4>3, <4>4, <4>5
      <4>7. QED
        BY <2>3, <3>1, <3>2, <4>6 DEF Recorded
    <3>3. QED
      BY <2>1, <2>3, <3>1, <3>2 DEF Recorded
  <2>4. CASE Forgotten(c)
    <3>1. Count(granted'[c], t .. t + w.span) = 0
      BY <2>4, CountNone DEF Forgotten
    <3>2. QED
      BY <2>0, <3>1
  <2>5. QED
    BY <2>2, <2>3, <2>4
<1>5. QED
  BY <1>2, <1>3, <1>4 DEF LimiterInv

\* As time passes, less counts.
LEMMA TickKeepsLimits ==
  ASSUME LimiterInv, now' = now + 1, UNCHANGED limiterVars
  PROVE  LimiterInv'
<1>0. /\ now \in Nat /\ now' = now + 1 /\ granted \in [Clients -> Seq(Nat)]
      /\ granted' = granted /\ clientHistory' = clientHistory
      /\ now - HourSpan \in Int /\ now + 1 - HourSpan \in Int /\ now - HourSpan <= now + 1 - HourSpan
  BY WindowsAssumption DEF LimiterInv, LimiterTypeOK, limiterVars
<1>1. LimiterTypeOK'
  BY <1>0 DEF LimiterInv, LimiterTypeOK
<1>2. Remembers'
  <2> SUFFICES ASSUME NEW c \in Clients
               PROVE  filter(getOrCreateHistory(c)'.requests, Since(now' - HourSpan))
                        = filter(granted'[c], Since(now' - HourSpan))
    BY DEF Remembers, Within
  <2>1. getOrCreateHistory(c).requests \in Seq(Nat) /\ granted[c] \in Seq(Nat)
    BY <1>0, HistoryTyped DEF LimiterInv
  <2>2. getOrCreateHistory(c)'.requests = getOrCreateHistory(c).requests
    BY <1>0 DEF getOrCreateHistory
  <2>3. filter(getOrCreateHistory(c).requests, Since(now - HourSpan))
          = filter(granted[c], Since(now - HourSpan))
    BY DEF LimiterInv, Remembers, Within
  <2>4. filter(getOrCreateHistory(c).requests, Since(now + 1 - HourSpan))
          = filter(granted[c], Since(now + 1 - HourSpan))
    BY <1>0, <2>1, <2>3, AgreeLater
  <2>5. now' - HourSpan = now + 1 - HourSpan /\ granted'[c] = granted[c]
    BY <1>0, WindowsAssumption
  <2>6. QED
    BY <2>2, <2>4, <2>5, Zenon
<1>3. GrantedBefore'
  <2>1. \A c \in Clients : \A i \in DOMAIN granted[c] : granted[c][i] <= now /\ granted[c][i] \in Nat
    BY <1>0 DEF LimiterInv, GrantedBefore
  <2>2. QED
    BY <1>0, <2>1 DEF GrantedBefore
<1>4. WindowsHold'
  <2> SUFFICES ASSUME NEW c \in Clients, NEW w \in Windows, NEW t \in 0 .. now + 1
               PROVE  Count(granted[c], t .. t + w.span) <= w.limit
    BY <1>0 DEF WindowsHold, Count
  <2>1. CASE t \in 0 .. now
    BY <2>1 DEF LimiterInv, WindowsHold, Count
  <2>2. CASE t = now + 1
    <3>1. \A i \in DOMAIN granted[c] : granted[c][i] \notin t .. t + w.span
      BY <1>0, <2>2, WindowsAssumption DEF LimiterInv, GrantedBefore
    <3>2. Count(granted[c], t .. t + w.span) = 0
      BY <3>1, CountNone
    <3>3. QED
      BY <3>2, WindowsAssumption
  <2>3. QED
    BY <1>0, <2>1, <2>2
<1>5. QED
  BY <1>1, <1>2, <1>3, <1>4 DEF LimiterInv

\* A request is granted if nothing that was granted fills a window.
LEMMA AllowedKeepsLimits ==
  ASSUME LimiterInv, NEW c \in Clients, isAllowed(c), UNCHANGED now
  PROVE  LimiterInv'
<1> DEFINE old == getOrCreateHistory(c)
           h == cleanHistory(old)
           full == Full(h.requests)
<1>0. now \in Nat /\ granted \in [Clients -> Seq(Nat)]
  BY DEF LimiterInv, LimiterTypeOK
<1>1. old \in History /\ old.requests \in Seq(Nat)
  BY HistoryTyped DEF LimiterInv
<1>2. h \in History /\ Within(h.requests, HourSpan) = Within(old.requests, HourSpan)
  BY <1>0, <1>1, CleaningKeeps
<1>3. full <=> Full(granted[c])
  <2>1. Within(old.requests, HourSpan) = Within(granted[c], HourSpan)
    BY DEF LimiterInv, Remembers
  <2>2. h.requests \in Seq(Nat) /\ granted[c] \in Seq(Nat)
    BY <1>0, <1>2 DEF History
  <2>3. QED
    BY <1>0, <1>2, <2>1, <2>2, FullAgrees
<1> DEFINE new == [h EXCEPT !.requests = IF full THEN @ ELSE Append(@, now)]
<1>4. /\ clientHistory' = Put(clientHistory, c, new)
      /\ granted' = [granted EXCEPT ![c] = IF full THEN @ ELSE Append(@, now)]
  BY DEF isAllowed
<1> HIDE DEF old, h, full
<1>5. new \in History /\ new.requests = IF full THEN h.requests ELSE Append(h.requests, now)
  <2>1. h \in [requests : Seq(Nat), lastCleanup : Nat]
    BY <1>2 DEF History
  <2>2. Append(h.requests, now) \in Seq(Nat)
    BY <1>0, <2>1
  <2>3. QED
    BY <2>1, <2>2 DEF History
<1> HIDE DEF new
<1>6. /\ DOMAIN clientHistory' = {c} \cup DOMAIN clientHistory
      /\ clientHistory'[c] = new
      /\ \A d \in DOMAIN clientHistory : d # c => clientHistory'[d] = clientHistory[d]
      /\ clientHistory' = [d \in {c} \cup DOMAIN clientHistory |->
                            IF d = c THEN new ELSE clientHistory[d]]
  BY <1>4 DEF Put
<1>7. LimiterTypeOK'
  <2>1. clientHistory' \in [{c} \cup DOMAIN clientHistory -> History]
    BY <1>5, <1>6 DEF LimiterInv, LimiterTypeOK
  <2>2. {c} \cup DOMAIN clientHistory \in SUBSET Clients
    BY DEF LimiterInv, LimiterTypeOK
  <2>3. granted' \in [Clients -> Seq(Nat)]
    BY <1>0, <1>4
  <2>4. now' \in Nat
    BY <1>0
  <2>5. QED
    BY <2>1, <2>2, <2>3, <2>4 DEF LimiterTypeOK
<1>8. ASSUME NEW d \in Clients, d # c PROVE Remembered(d)
  <2>1. getOrCreateHistory(d)'.requests = getOrCreateHistory(d).requests
    BY <1>6, <1>8 DEF getOrCreateHistory
  <2>2. granted'[d] = granted[d]
    BY <1>0, <1>4, <1>8
  <2>3. QED
    BY <2>1, <2>2 DEF Remembered
<1>9. getOrCreateHistory(c)' = new
  BY <1>6 DEF getOrCreateHistory
<1>10. CASE full
  <2>1. granted'[c] = granted[c]
    BY <1>0, <1>4, <1>10
  <2>2. Remembered(c)
    BY <1>2, <1>5, <1>9, <1>10, <2>1 DEF Remembered, old
  <2>3. QED
    BY <1>7, <1>8, <2>2, KeepsLimits
<1>11. CASE ~full
  <2>1. granted'[c] = Append(granted[c], now)
    BY <1>0, <1>4, <1>11
  <2>2. Within(Append(h.requests, now), HourSpan) = Append(Within(h.requests, HourSpan), now)
    <3> DEFINE r == h.requests
    <3>1. now \in Since(now - HourSpan) /\ r \in Seq(Nat)
      BY <1>0, <1>2, WindowsAssumption DEF Since, History
    <3> HIDE DEF r
    <3> DEFINE counting == Since(now - HourSpan)
    <3>2. now \in Nat /\ now \in counting
      BY <1>0, <3>1
    <3> HIDE DEF counting
    <3>3. filter(Append(r, now), counting) = Append(filter(r, counting), now)
      BY ONLY <3>1, <3>2, FilterAppend
    <3>4. QED
      BY <3>3 DEF r, counting, Within
  <2>3. Recorded(c)
    BY <1>2, <1>3, <1>5, <1>9, <1>11, <2>1, <2>2 DEF Recorded, old
  <2>4. QED
    BY <1>7, <1>8, <2>3, KeepsLimits
<1>12. QED
  BY <1>10, <1>11

\* Clearing forgets what was granted, too.
LEMMA ClearedKeepsLimits ==
  ASSUME LimiterInv, NEW cs \in SUBSET Clients, Cleared(cs), UNCHANGED now
  PROVE  LimiterInv'
<1>0. /\ clientHistory' = [c \in DOMAIN clientHistory \ cs |-> clientHistory[c]]
      /\ granted' = [c \in Clients |-> IF c \in cs THEN <<>> ELSE granted[c]]
  BY DEF Cleared, Delete
<1>1. LimiterTypeOK'
  <2>1. /\ clientHistory' \in [DOMAIN clientHistory \ cs -> History]
        /\ DOMAIN clientHistory \ cs \in SUBSET Clients
    BY <1>0 DEF LimiterInv, LimiterTypeOK
  <2>2. granted' \in [Clients -> Seq(Nat)] /\ now' \in Nat
    BY <1>0 DEF LimiterInv, LimiterTypeOK
  <2>3. QED
    BY <2>1, <2>2 DEF LimiterTypeOK
<1>2. ASSUME NEW c \in Clients PROVE Remembered(c) \/ Forgotten(c)
  <2>1. CASE c \in cs
    BY <1>0, <2>1 DEF Forgotten, getOrCreateHistory
  <2>2. CASE c \notin cs
    <3>1. getOrCreateHistory(c)'.requests = getOrCreateHistory(c).requests
      BY <1>0, <2>2 DEF getOrCreateHistory
    <3>2. QED
      BY <1>0, <2>2, <3>1 DEF Remembered
  <2>3. QED
    BY <2>1, <2>2
<1>3. QED
  BY <1>1, <1>2, KeepsLimits

\* The periodic clean-up drops a client only when nothing of it counts.
LEMMA CleanupKeepsLimits ==
  ASSUME LimiterInv, performCleanup, UNCHANGED now
  PROVE  LimiterInv'
<1> DEFINE kept == [c \in DOMAIN clientHistory |->
                      [clientHistory[c] EXCEPT !.requests = Within(@, HourSpan)]]
           idle == {c \in DOMAIN kept : kept[c].requests = <<>> /\ now - kept[c].lastCleanup > HourSpan}
<1>0. /\ clientHistory' = [c \in DOMAIN kept \ idle |-> kept[c]]
      /\ granted' = granted /\ now \in Nat
      /\ DOMAIN kept = DOMAIN clientHistory /\ DOMAIN clientHistory \subseteq Clients
  BY DEF performCleanup, Delete, LimiterInv, LimiterTypeOK
<1>1. \A c \in DOMAIN clientHistory :
        clientHistory[c] \in History /\ clientHistory[c] = getOrCreateHistory(c)
  BY DEF LimiterInv, LimiterTypeOK, getOrCreateHistory
<1>2. ASSUME NEW c \in DOMAIN kept
      PROVE  /\ kept[c] \in History
             /\ kept[c].requests = Within(getOrCreateHistory(c).requests, HourSpan)
             /\ Within(kept[c].requests, HourSpan) = kept[c].requests
  <2>1. kept[c] = [clientHistory[c] EXCEPT !.requests = Within(@, HourSpan)]
    BY <1>0
  <2> HIDE DEF kept
  <2>2. c \in DOMAIN clientHistory
    BY <1>0
  <2>3. /\ Within(clientHistory[c].requests, HourSpan) \in Seq(Nat)
        /\ Within(Within(clientHistory[c].requests, HourSpan), HourSpan)
             = Within(clientHistory[c].requests, HourSpan)
    BY <1>0, <1>1, <2>2, CleaningKeeps
  <2>4. kept[c] \in History /\ kept[c].requests = Within(clientHistory[c].requests, HourSpan)
    BY <1>1, <2>1, <2>2, <2>3 DEF History
  <2>5. QED
    BY <1>1, <2>2, <2>3, <2>4
<1> HIDE DEF kept
<1>3. LimiterTypeOK'
  <2>1. clientHistory' \in [DOMAIN kept \ idle -> History] /\ DOMAIN kept \ idle \in SUBSET Clients
    BY <1>0, <1>2
  <2>2. QED
    BY <1>0, <2>1 DEF LimiterInv, LimiterTypeOK
<1>4. ASSUME NEW c \in Clients PROVE Remembered(c)
  <2>1. CASE c \in DOMAIN kept \ idle
    <3>1. getOrCreateHistory(c)' = kept[c]
      BY <1>0, <2>1 DEF getOrCreateHistory
    <3>2. QED
      BY <1>0, <1>2, <2>1, <3>1 DEF Remembered
  <2>2. CASE c \in idle
    <3>1. getOrCreateHistory(c)'.requests = <<>> /\ kept[c].requests = <<>> /\ c \in DOMAIN kept
      BY <1>0, <2>2 DEF getOrCreateHistory
    <3>2. QED
      BY <1>0, <1>2, <3>1 DEF Remembered
  <2>3. CASE c \notin DOMAIN kept
    <3>1. getOrCreateHistory(c)'.requests = getOrCreateHistory(c).requests
      BY <1>0, <2>3 DEF getOrCreateHistory
    <3>2. QED
      BY <1>0, <3>1 DEF Remembered
  <2>4. QED
    BY <2>1, <2>2, <2>3
<1>5. QED
  BY <1>3, <1>4, KeepsLimits

\* A read cleans one list.
LEMMA ReadKeepsLimits ==
  ASSUME LimiterInv, NEW c \in Clients, getRemainingRequests(c), UNCHANGED now
  PROVE  LimiterInv'
<1>0. /\ c \in DOMAIN clientHistory /\ granted' = granted /\ now \in Nat
      /\ clientHistory' = [clientHistory EXCEPT ![c] = cleanHistory(clientHistory[c])]
      /\ DOMAIN clientHistory \in SUBSET Clients
      /\ clientHistory \in [DOMAIN clientHistory -> History]
  BY DEF getRemainingRequests, LimiterInv, LimiterTypeOK
<1>1. /\ cleanHistory(clientHistory[c]) \in History
      /\ Within(cleanHistory(clientHistory[c]).requests, HourSpan)
           = Within(clientHistory[c].requests, HourSpan)
  BY <1>0, CleaningKeeps
<1>2. clientHistory' \in [DOMAIN clientHistory -> History]
  BY <1>0, <1>1
<1>3. LimiterTypeOK'
  BY <1>0, <1>2 DEF LimiterInv, LimiterTypeOK
<1>4. ASSUME NEW d \in Clients PROVE Remembered(d)
  <2>1. CASE d = c
    BY <1>0, <1>1, <2>1 DEF Remembered, getOrCreateHistory
  <2>2. CASE d # c
    <3>1. getOrCreateHistory(d)'.requests = getOrCreateHistory(d).requests
      BY <1>0, <2>2 DEF getOrCreateHistory
    <3>2. QED
      BY <1>0, <3>1 DEF Remembered
  <2>3. QED
    BY <2>1, <2>2
<1>5. QED
  BY <1>3, <1>4, KeepsLimits

\* At the start nothing was granted.
LEMMA LimiterInitially == now = 0 /\ LimiterInit => LimiterInv
<1> SUFFICES ASSUME now = 0, LimiterInit PROVE LimiterInv
  OBVIOUS
<1>1. LimiterTypeOK
  <2>1. clientHistory \in [{} -> History] /\ {} \in SUBSET Clients
    BY DEF LimiterInit
  <2>2. granted \in [Clients -> Seq(Nat)] /\ now \in Nat
    BY DEF LimiterInit
  <2>3. QED
    BY <2>1, <2>2 DEF LimiterTypeOK
<1>2. \A c \in Clients : granted[c] = <<>> /\ getOrCreateHistory(c).requests = <<>>
  BY DEF LimiterInit, getOrCreateHistory
<1>3. Remembers /\ GrantedBefore
  BY <1>2 DEF Remembers, GrantedBefore
<1>4. ASSUME NEW c \in Clients, NEW w \in Windows, NEW t \in 0 .. now
      PROVE  Count(granted[c], t .. t + w.span) <= w.limit
  <2>1. Count(granted[c], t .. t + w.span) = 0
    BY <1>2, CountNone
  <2>2. QED
    BY <2>1, WindowsAssumption
<1>5. QED
  BY <1>1, <1>3, <1>4 DEF LimiterInv, WindowsHold, Count

\* The invariant of the limiter: it remembers what counts, and no window overflows.
THEOREM LimiterInvariant == Spec => []LimiterInv
<1>1. LimiterInv /\ [Next]_vars => LimiterInv'
  <2> SUFFICES ASSUME LimiterInv, [Next]_vars PROVE LimiterInv'
    OBVIOUS
  <2>0. LimiterNext \/ (UNCHANGED limiterVars /\ now' \in {now, now + 1})
    <3>1. LimiterNext \/ UNCHANGED limiterVars
      BY DEF Next, vars, limiters
    <3>2. QED
      BY <3>1, ClockAdvances
  <2>1. CASE now' = now + 1 /\ UNCHANGED limiterVars
    BY <2>1, TickKeepsLimits
  <2>2. ASSUME NEW c \in Clients, isAllowed(c), UNCHANGED now PROVE LimiterInv'
    BY <2>2, AllowedKeepsLimits
  <2>3. ASSUME NEW c \in Clients, getRemainingRequests(c), UNCHANGED now PROVE LimiterInv'
    BY <2>3, ReadKeepsLimits
  <2>4. ASSUME NEW c \in Clients, clearClient(c), UNCHANGED now PROVE LimiterInv'
    BY <2>4, ClearedKeepsLimits DEF clearClient
  <2>5. CASE performCleanup /\ UNCHANGED now
    BY <2>5, CleanupKeepsLimits
  <2>6. CASE (clearAll \/ destroy) /\ UNCHANGED now
    BY <2>6, ClearedKeepsLimits DEF clearAll, destroy
  <2>7. CASE UNCHANGED <<now, limiterVars>>
    BY <2>7 DEF limiterVars, LimiterInv, LimiterTypeOK, Remembers, GrantedBefore, WindowsHold,
                getOrCreateHistory, Within
  <2>8. QED
    BY <2>0, <2>1, <2>2, <2>3, <2>4, <2>5, <2>6, <2>7 DEF LimiterNext, Tick
<1>2. Init => LimiterInv
  BY LimiterInitially DEF Init
<1>3. QED
  BY <1>1, <1>2, PTL DEF Spec

-----------------------------------------------------------------------------
\* The limiter of the Nostr client.

RateState == [count : Nat, windowStart : Nat, blocked : BOOLEAN]

\* What the state s of an operation with limit r says of its calls p that passed.
Tallies(s, r, p) ==
  /\ s.windowStart <= now
  /\ \A i \in DOMAIN p : p[i] <= now /\ p[i] < s.windowStart + r.windowMs
  /\ s.count = Count(p, s.windowStart .. now) /\ s.count <= r.limit
  /\ Count(p, (s.windowStart - r.windowMs + 1) .. (s.windowStart - 1)) <= r.limit
  /\ s.blocked => s.count = r.limit
  /\ \A t \in 0 .. now : Count(p, t .. t + r.windowMs - 1) <= 2 * r.limit

WindowTypeOK ==
  /\ now \in Nat
  /\ RATE_LIMITS \in [Operations -> RateLimits]
  /\ rateLimitState \in [Operations -> RateState]
  /\ passed \in [Operations -> Seq(Nat)]

WindowInv ==
  /\ WindowTypeOK
  /\ \A op \in Operations : Tallies(rateLimitState[op], RATE_LIMITS[op], passed[op])

\* Before the first call nothing is counted.
LEMMA UnusedTallies ==
  ASSUME NEW r \in RateLimits, now \in Nat
  PROVE  Tallies(Unused, r, <<>>)
<1>1. r.limit \in Nat /\ r.windowMs \in Nat
  BY RateLimitsAssumption
<1>2. \A K : Count(<<>>, K) = 0
  BY CountNone
<1>3. /\ Unused.windowStart = now /\ Unused.count = 0 /\ Unused.blocked = FALSE
      /\ DOMAIN <<>> = {}
  BY DEF Unused
<1> HIDE DEF Unused
<1>4. QED
  BY <1>1, <1>2, <1>3 DEF Tallies

\* A window that is over becomes the one before: nothing has passed in the new one.
LEMMA ResetTallies ==
  ASSUME NEW r \in RateLimits, NEW s \in RateState, NEW p \in Seq(Nat), now \in Nat, Tallies(s, r, p)
  PROVE  /\ currentWindow(s, r) \in RateState
         /\ now < currentWindow(s, r).windowStart + r.windowMs
         /\ Tallies(currentWindow(s, r), r, p)
<1>0. /\ r.limit \in Nat /\ r.windowMs \in Nat \ {0} /\ s.windowStart \in Nat /\ s.count \in Nat
      /\ \A i \in DOMAIN p : p[i] \in Nat
  <2>1. r.limit \in Nat /\ r.windowMs \in Nat \ {0}
    BY RateLimitsAssumption
  <2>2. s.windowStart \in Nat /\ s.count \in Nat
    BY DEF RateState
  <2>3. QED
    BY <2>1, <2>2
<1>1. CASE ~ (now - s.windowStart >= r.windowMs)
  BY <1>0, <1>1 DEF currentWindow
<1>2. CASE now - s.windowStart >= r.windowMs
  <2>1. currentWindow(s, r) = Unused
    BY <1>2 DEF currentWindow
  <2>2. Unused \in RateState /\ Unused.windowStart = now /\ Unused.count = 0 /\ Unused.blocked = FALSE
    BY DEF Unused, RateState
  <2> HIDE DEF Unused
  <2>3. \A i \in DOMAIN p : p[i] < now
    BY <1>0, <1>2 DEF Tallies
  <2>4. Count(p, now .. now) = 0
    <3>1. \A i \in DOMAIN p : p[i] \notin now .. now
      BY <1>0, <2>3
    <3>2. QED
      BY <3>1, CountNone
  <2>5. Count(p, (now - r.windowMs + 1) .. (now - 1)) <= r.limit
    <3>1. \A i \in DOMAIN p : p[i] \in (now - r.windowMs + 1) .. (now - 1) => p[i] \in s.windowStart .. now
      <4>1. s.windowStart <= now - r.windowMs + 1
        BY <1>0, <1>2
      <4>2. QED
        BY ONLY now \in Nat, <1>0, <4>1
    <3>2. Count(p, (now - r.windowMs + 1) .. (now - 1)) <= Count(p, s.windowStart .. now)
      BY <3>1, CountMonotone
    <3>3. Count(p, (now - r.windowMs + 1) .. (now - 1)) \in Nat /\ Count(p, s.windowStart .. now) \in Nat
      BY CountTyped
    <3>4. Count(p, s.windowStart .. now) <= r.limit
      BY DEF Tallies
    <3>5. QED
      BY <1>0, <3>2, <3>3, <3>4
  <2>6. /\ \A i \in DOMAIN p : p[i] <= now /\ p[i] < now + r.windowMs
        /\ \A t \in 0 .. now : Count(p, t .. t + r.windowMs - 1) <= 2 * r.limit
    BY <1>0, <2>3 DEF Tallies
  <2>7. Tallies(Unused, r, p)
    <3>1. 0 <= r.limit /\ now <= now
      BY <1>0
    <3>2. QED
      BY Zenon, <2>2, <2>4, <2>5, <2>6, <3>1 DEF Tallies
  <2>8. QED
    BY <1>0, <2>1, <2>2, <2>7
<1>3. QED
  BY <1>1, <1>2

\* A call that passes is counted in its window, and a stretch of a window's
\* length that it lies in reaches back into one other window at most.
LEMMA PassTallies ==
  ASSUME NEW r \in RateLimits, NEW s \in RateState, NEW p \in Seq(Nat), now \in Nat, Tallies(s, r, p),
         now < s.windowStart + r.windowMs, ~s.blocked, s.count < r.limit
  PROVE  Tallies([s EXCEPT !.count = @ + 1], r, Append(p, now))
<1> DEFINE q == Append(p, now)
           n == [s EXCEPT !.count = @ + 1]
           w == r.windowMs
           b == s.windowStart
<1>0. /\ r.limit \in Nat /\ w \in Nat \ {0} /\ b \in Nat /\ s.count \in Nat /\ b <= now /\ now < b + w
      /\ \A i \in DOMAIN p : p[i] \in Nat /\ p[i] <= now /\ p[i] < b + w
  <2>1. r.limit \in Nat /\ w \in Nat \ {0}
    BY RateLimitsAssumption
  <2>2. b \in Nat /\ s.count \in Nat
    BY DEF RateState
  <2>3. b <= now /\ \A i \in DOMAIN p : p[i] <= now /\ p[i] < b + w
    BY DEF Tallies
  <2>4. \A i \in DOMAIN p : p[i] \in Nat
    OBVIOUS
  <2>5. QED
    BY <2>1, <2>2, <2>3, <2>4
<1>1. n.count = s.count + 1 /\ n.windowStart = b /\ n.blocked = s.blocked
  BY DEF RateState
<1>2. \A i \in DOMAIN q : q[i] <= now /\ q[i] < b + w
  <2>1. \A i \in DOMAIN q : q[i] = now \/ (i \in DOMAIN p /\ q[i] = p[i])
    OBVIOUS
  <2> HIDE DEF q
  <2>2. QED
    BY <1>0, <2>1
<1>3. \A K : Count(q, K) = IF now \in K THEN Count(p, K) + 1 ELSE Count(p, K)
  BY CountAppend
<1> HIDE DEF q, n, w, b
<1>4. /\ s.count = Count(p, b .. now)
      /\ Count(p, (b - w + 1) .. (b - 1)) <= r.limit
      /\ \A t \in 0 .. now : Count(p, t .. t + w - 1) <= 2 * r.limit
  BY DEF Tallies, b, w
<1>5. Count(q, b .. now) = s.count + 1
  BY <1>0, <1>3, <1>4
<1>6. Count(q, (b - w + 1) .. (b - 1)) <= r.limit
  <2>1. now \notin (b - w + 1) .. (b - 1)
    BY <1>0
  <2>2. QED
    BY <1>3, <1>4, <2>1
<1>7. ASSUME NEW t \in 0 .. now PROVE Count(q, t .. t + w - 1) <= 2 * r.limit
  <2>1. CASE now \notin t .. t + w - 1
    BY <1>3, <1>4, <2>1
  <2>2. CASE now \in t .. t + w - 1
    <3>1. \A i \in DOMAIN p : p[i] \in t .. t + w - 1 =>
            p[i] \in (b - w + 1) .. (b - 1) \/ p[i] \in b .. now
      BY <1>0, <2>2
    <3>2. Count(p, t .. t + w - 1) <= Count(p, (b - w + 1) .. (b - 1)) + Count(p, b .. now)
      BY <3>1, CountBoth
    <3>3. /\ Count(p, t .. t + w - 1) \in Nat /\ Count(p, (b - w + 1) .. (b - 1)) \in Nat
          /\ Count(p, b .. now) \in Nat
      BY CountTyped
    <3>4. Count(q, t .. t + w - 1) = Count(p, t .. t + w - 1) + 1
      BY <1>3, <2>2
    <3> DEFINE x == Count(p, t .. t + w - 1)
               y == Count(p, (b - w + 1) .. (b - 1))
    <3>5. x \in Nat /\ y \in Nat /\ x <= y + s.count /\ y <= r.limit
      BY <1>4, <3>2, <3>3
    <3> HIDE DEF x, y
    <3>6. x + 1 <= 2 * r.limit
      BY <1>0, <3>5
    <3>7. QED
      BY <3>4, <3>6 DEF x
  <2>3. QED
    BY <2>1, <2>2
<1>8. Tallies(n, r, q)
  BY <1>0, <1>1, <1>2, <1>5, <1>6, <1>7 DEF Tallies, b, w
<1>9. QED
  BY <1>8 DEF n, q

\* An operation is blocked when its window is full.
LEMMA BlockTallies ==
  ASSUME NEW r \in RateLimits, NEW s \in RateState, NEW p, Tallies(s, r, p),
         s.blocked \/ ~ (s.count < r.limit)
  PROVE  Tallies([s EXCEPT !.blocked = TRUE], r, p)
<1> DEFINE n == [s EXCEPT !.blocked = TRUE]
<1>1. /\ n.count = s.count /\ n.windowStart = s.windowStart /\ n.blocked = TRUE
      /\ s.count \in Nat /\ r.limit \in Nat
  BY RateLimitsAssumption DEF RateState
<1> HIDE DEF n
<1>2. s.count = r.limit
  BY <1>1 DEF Tallies
<1>3. Tallies(n, r, p)
  BY <1>1, <1>2 DEF Tallies
<1>4. QED
  BY <1>3 DEF n

\* Time that passes empties windows, and nothing has passed at the new time.
LEMMA TickTallies ==
  ASSUME NEW r \in RateLimits, NEW s \in RateState, NEW p \in Seq(Nat), now \in Nat, now' = now + 1,
         Tallies(s, r, p)
  PROVE  Tallies(s, r, p)'
<1>0. /\ r.limit \in Nat /\ r.windowMs \in Nat \ {0} /\ s.windowStart \in Nat
      /\ s.windowStart <= now
      /\ \A i \in DOMAIN p : p[i] \in Nat /\ p[i] <= now /\ p[i] < s.windowStart + r.windowMs
      /\ s.count = Count(p, s.windowStart .. now) /\ s.count <= r.limit
      /\ Count(p, (s.windowStart - r.windowMs + 1) .. (s.windowStart - 1)) <= r.limit
      /\ s.blocked => s.count = r.limit
      /\ \A t \in 0 .. now : Count(p, t .. t + r.windowMs - 1) <= 2 * r.limit
  <2>1. r.limit \in Nat /\ r.windowMs \in Nat \ {0}
    BY RateLimitsAssumption
  <2>2. s.windowStart \in Nat
    BY DEF RateState
  <2>3. \A i \in DOMAIN p : p[i] \in Nat
    OBVIOUS
  <2>4. /\ s.windowStart <= now /\ \A i \in DOMAIN p : p[i] <= now /\ p[i] < s.windowStart + r.windowMs
        /\ s.count = Count(p, s.windowStart .. now) /\ s.count <= r.limit
        /\ Count(p, (s.windowStart - r.windowMs + 1) .. (s.windowStart - 1)) <= r.limit
        /\ s.blocked => s.count = r.limit
        /\ \A t \in 0 .. now : Count(p, t .. t + r.windowMs - 1) <= 2 * r.limit
    BY Zenon DEF Tallies
  <2>5. QED
    BY <2>1, <2>2, <2>3, <2>4
<1>1. Count(p, s.windowStart .. now + 1) = Count(p, s.windowStart .. now)
  <2>1. s.windowStart \in Nat /\ \A i \in DOMAIN p : p[i] \in Nat /\ p[i] <= now
    BY <1>0
  <2>2. {i \in DOMAIN p : p[i] \in s.windowStart .. now + 1} = {i \in DOMAIN p : p[i] \in s.windowStart .. now}
    BY ONLY now \in Nat, <2>1
  <2>3. QED
    BY <2>2 DEF Count
<1>2. ASSUME NEW t \in 0 .. now + 1 PROVE Count(p, t .. t + r.windowMs - 1) <= 2 * r.limit
  <2>1. CASE t \in 0 .. now
    BY <1>0, <2>1
  <2>2. CASE t = now + 1
    <3>1. \A i \in DOMAIN p : p[i] \notin t .. t + r.windowMs - 1
      BY <1>0, <2>2
    <3>2. Count(p, t .. t + r.windowMs - 1) = 0
      BY <3>1, CountNone
    <3>3. r.limit \in Nat
      BY <1>0
    <3>4. QED
      BY ONLY <3>2, <3>3
  <2>3. QED
    BY <2>1, <2>2
<1>3. s.windowStart <= now + 1 /\ \A i \in DOMAIN p : p[i] <= now + 1
  BY <1>0
<1>4. QED
  BY <1>0, <1>1, <1>2, <1>3 DEF Tallies

\* A call passes or blocks, in the window that is current.
LEMMA CallKeepsTallies ==
  ASSUME WindowInv, NEW op \in Operations, checkRateLimit(op), UNCHANGED now
  PROVE  WindowInv'
<1> DEFINE r == RATE_LIMITS[op]
           s == currentWindow(rateLimitState[op], r)
           p == passed[op]
           allowed == ~s.blocked /\ s.count < r.limit
           n == IF allowed THEN [s EXCEPT !.count = @ + 1] ELSE [s EXCEPT !.blocked = TRUE]
           q == IF allowed THEN Append(p, now) ELSE p
<1>0. /\ now \in Nat /\ r \in RateLimits /\ rateLimitState[op] \in RateState /\ p \in Seq(Nat)
      /\ rateLimitState \in [Operations -> RateState] /\ passed \in [Operations -> Seq(Nat)]
      /\ Tallies(rateLimitState[op], r, p)
  BY DEF WindowInv, WindowTypeOK
<1>1. s \in RateState /\ now < s.windowStart + r.windowMs /\ Tallies(s, r, p)
  BY <1>0, ResetTallies
<1>2. rateLimitState' = [rateLimitState EXCEPT ![op] = n] /\ passed' = [passed EXCEPT ![op] = q]
      /\ RATE_LIMITS' = RATE_LIMITS
  BY DEF checkRateLimit
<1> HIDE DEF r, s, p
<1>3. n \in RateState /\ q \in Seq(Nat)
  <2>1. [s EXCEPT !.count = @ + 1] \in RateState /\ [s EXCEPT !.blocked = TRUE] \in RateState
    <3>1. ASSUME NEW state \in RateState
          PROVE  [state EXCEPT !.count = @ + 1] \in RateState
      BY DEF RateState
    <3>2. ASSUME NEW state \in RateState
          PROVE  [state EXCEPT !.blocked = TRUE] \in RateState
      BY Zenon DEF RateState
    <3>3. QED
      BY <1>1, <3>1, <3>2
  <2>2. Append(p, now) \in Seq(Nat)
    BY <1>0
  <2>3. QED
    BY <1>0, <2>1, <2>2
<1>4. Tallies(n, r, q)
  <2>1. CASE allowed
    BY <1>0, <1>1, <2>1, PassTallies
  <2>2. CASE ~allowed
    BY <1>0, <1>1, <2>2, BlockTallies
  <2>3. QED
    BY <2>1, <2>2
<1> HIDE DEF n, q
<1>5. WindowTypeOK'
  <2>1. rateLimitState' \in [Operations -> RateState] /\ passed' \in [Operations -> Seq(Nat)]
    BY <1>0, <1>2, <1>3
  <2>2. QED
    BY <1>2, <2>1 DEF WindowInv, WindowTypeOK
<1>6. ASSUME NEW other \in Operations
      PROVE  Tallies(rateLimitState'[other], RATE_LIMITS'[other], passed'[other])
  <2>1. CASE other = op
    BY <1>0, <1>2, <1>4, <2>1 DEF r
  <2>2. CASE other # op
    <3>1. /\ rateLimitState'[other] = rateLimitState[other] /\ passed'[other] = passed[other]
          /\ RATE_LIMITS'[other] = RATE_LIMITS[other]
      BY <1>0, <1>2, <2>2
    <3>2. Tallies(rateLimitState[other], RATE_LIMITS[other], passed[other])
      BY DEF WindowInv
    <3>3. QED
      BY <3>1, <3>2
  <2>3. QED
    BY <2>1, <2>2
<1>7. QED
  BY <1>5, <1>6 DEF WindowInv, Tallies

\* Operations that start again, perhaps with other limits, have nothing counted.
LEMMA AgainKeepsTallies ==
  ASSUME WindowInv, NEW ops, StartAgain(ops), UNCHANGED now,
         RATE_LIMITS' \in [Operations -> RateLimits],
         \A op \in Operations \ ops : RATE_LIMITS'[op] = RATE_LIMITS[op]
  PROVE  WindowInv'
<1>0. /\ rateLimitState' = [op \in Operations |-> IF op \in ops THEN Unused ELSE rateLimitState[op]]
      /\ passed' = [op \in Operations |-> IF op \in ops THEN <<>> ELSE passed[op]]
      /\ now \in Nat /\ now' = now
      /\ rateLimitState \in [Operations -> RateState] /\ passed \in [Operations -> Seq(Nat)]
  BY DEF StartAgain, WindowInv, WindowTypeOK
<1>1. Unused \in RateState
  BY <1>0 DEF Unused, RateState
<1>2. WindowTypeOK'
  <2>1. rateLimitState' \in [Operations -> RateState]
    BY <1>0, <1>1
  <2>2. passed' \in [Operations -> Seq(Nat)]
    BY <1>0
  <2>3. QED
    BY <1>0, <2>1, <2>2 DEF WindowTypeOK
<1>3. ASSUME NEW op \in Operations
      PROVE  Tallies(rateLimitState'[op], RATE_LIMITS'[op], passed'[op])
  <2>1. CASE op \in ops
    <3>1. rateLimitState'[op] = Unused /\ passed'[op] = <<>> /\ RATE_LIMITS'[op] \in RateLimits
      BY <1>0, <2>1
    <3>2. QED
      BY <1>0, <3>1, UnusedTallies
  <2>2. CASE op \notin ops
    <3>1. /\ rateLimitState'[op] = rateLimitState[op] /\ passed'[op] = passed[op]
          /\ RATE_LIMITS'[op] = RATE_LIMITS[op]
      BY <1>0, <2>2
    <3>2. Tallies(rateLimitState[op], RATE_LIMITS[op], passed[op])
      BY DEF WindowInv
    <3>3. QED
      BY <3>1, <3>2
  <2>3. QED
    BY <2>1, <2>2
<1>4. QED
  BY <1>0, <1>2, <1>3 DEF WindowInv, Tallies

\* The invariant of the fixed windows: each state tallies with the calls that passed.
THEOREM WindowInvariant == Spec => []WindowInv
<1>1. now = 0 /\ WindowInit => WindowInv
  <2> SUFFICES ASSUME now = 0, WindowInit PROVE WindowInv
    OBVIOUS
  <2>1. now \in Nat /\ DefaultRateLimit \in RateLimits
    BY RateLimitsAssumption
  <2>2. Unused \in RateState
    BY <2>1 DEF Unused, RateState
  <2>3. \A op \in Operations :
          RATE_LIMITS[op] = DefaultRateLimit /\ rateLimitState[op] = Unused /\ passed[op] = <<>>
    BY DEF WindowInit
  <2>4. WindowTypeOK
    BY <2>1, <2>2 DEF WindowInit, WindowTypeOK
  <2>5. Tallies(Unused, DefaultRateLimit, <<>>)
    BY <2>1, UnusedTallies
  <2>6. QED
    BY <2>3, <2>4, <2>5 DEF WindowInv
<1>2. WindowInv /\ [Next]_vars => WindowInv'
  <2> SUFFICES ASSUME WindowInv, [Next]_vars PROVE WindowInv'
    OBVIOUS
  <2>0. WindowNext \/ (UNCHANGED windowVars /\ now' \in {now, now + 1})
    <3>1. WindowNext \/ UNCHANGED windowVars
      BY DEF Next, vars, limiters
    <3>2. QED
      BY <3>1, ClockAdvances
  <2>1. CASE now' = now + 1 /\ UNCHANGED windowVars
    <3>0. /\ now \in Nat /\ now' = now + 1 /\ rateLimitState' = rateLimitState /\ passed' = passed
          /\ RATE_LIMITS' = RATE_LIMITS /\ WindowTypeOK
      BY <2>1 DEF windowVars, WindowInv, WindowTypeOK
    <3>1. WindowTypeOK'
      BY <3>0 DEF WindowTypeOK
    <3>2. ASSUME NEW op \in Operations
          PROVE  Tallies(rateLimitState[op], RATE_LIMITS[op], passed[op])'
      <4> DEFINE r == RATE_LIMITS[op]
                 s == rateLimitState[op]
                 p == passed[op]
      <4>1. r \in RateLimits /\ s \in RateState /\ p \in Seq(Nat) /\ Tallies(s, r, p)
        BY <3>0 DEF WindowInv, WindowTypeOK
      <4>2. r' = r /\ s' = s /\ p' = p
        BY <3>0
      <4>3. QED
        BY <3>0, <4>1, <4>2, TickTallies DEF Tallies
    <3>3. QED
      BY <3>1, <3>2 DEF WindowInv
  <2>2. ASSUME NEW op \in Operations, checkRateLimit(op), UNCHANGED now PROVE WindowInv'
    BY <2>2, CallKeepsTallies
  <2>3. ASSUME NEW ops \in SUBSET Operations, updateRateLimits(ops), UNCHANGED now PROVE WindowInv'
    <3>1. PICK limits \in [ops -> RateLimits] :
            RATE_LIMITS' = [op \in Operations |-> IF op \in ops THEN limits[op] ELSE RATE_LIMITS[op]]
      BY <2>3 DEF updateRateLimits
    <3>2. StartAgain(ops) /\ RATE_LIMITS \in [Operations -> RateLimits]
      BY <2>3 DEF updateRateLimits, WindowInv, WindowTypeOK
    <3>3. /\ RATE_LIMITS' \in [Operations -> RateLimits]
          /\ \A op \in Operations \ ops : RATE_LIMITS'[op] = RATE_LIMITS[op]
      BY <3>1, <3>2
    <3>4. QED
      BY <2>3, <3>2, <3>3, AgainKeepsTallies
  <2>4. CASE resetRateLimits /\ UNCHANGED now
    BY <2>4, AgainKeepsTallies DEF resetRateLimits, WindowInv, WindowTypeOK
  <2>5. CASE UNCHANGED <<now, windowVars>>
    BY <2>5 DEF windowVars, WindowInv, WindowTypeOK, Tallies
  <2>6. QED
    BY <2>0, <2>1, <2>2, <2>3, <2>4, <2>5 DEF WindowNext, Tick
<1>3. Init => WindowInv
  BY <1>1 DEF Init
<1>4. QED
  BY <1>2, <1>3, PTL DEF Spec

\* Neither limiter lets more requests through than its limits, for any windows,
\* limits and clients, and the one of NIP-46 refuses none that they allow.
THEOREM LimitsExact == Spec => []LimitsAreExact
<1>1. LimiterInv /\ WindowInv => LimitsAreExact
  <2> SUFFICES ASSUME LimiterInv, WindowInv PROVE LimitsAreExact
    OBVIOUS
  <2>1. RatesHold
    BY DEF WindowInv, Tallies, RatesHold, PassedIn, Count
  <2>2. QED
    BY <2>1, Exact DEF LimiterInv, LimitsAreExact
<1>2. QED
  BY <1>1, LimiterInvariant, WindowInvariant, PTL

-----------------------------------------------------------------------------
\* The addressable events of a relay.

AddressableTypeOK ==
  /\ addressableEvents \in UNION {[D -> StoredEvent] : D \in SUBSET Addresses}
  /\ receivedAddressable \in [Addresses -> SUBSET StoredEvent]

\* Nothing counts as received of an address that has no entry.
AddressableBegins ==
  \A a \in Addresses \ DOMAIN addressableEvents : receivedAddressable[a] = {}

AddressableInv == AddressableTypeOK /\ AddressableBegins /\ AddressableConverges

\* Of two different events one precedes the other, and precedence is transitive.
LEMMA PrecedenceOrders ==
  /\ \A e, f \in StoredEvent : e # f => Precedes(e, f) \/ Precedes(f, e)
  /\ \A e, f, g \in StoredEvent : Precedes(e, f) /\ Precedes(f, g) => Precedes(e, g)
  /\ \A e, f \in StoredEvent : Precedes(e, f) => e # f
  /\ \A e, f \in StoredEvent : ReplacesAddressable(e, f) <=> Precedes(e, f)
<1>1. \A e \in StoredEvent : e.created_at \in Nat /\ e.id \in Nat
  BY StoreAssumption DEF StoredEvent
<1>2. \A e, f \in StoredEvent : e # f => e.created_at # f.created_at \/ e.id # f.id
  BY DEF StoredEvent
<1>3. QED
  BY <1>1, <1>2 DEF Precedes, ReplacesAddressable

\* An event is kept or replaced as precedence has it; an evicted address begins again.
LEMMA ProcessAddressable ==
  ASSUME AddressableInv, NEW a \in Addresses, NEW e \in StoredEvent, processAddressableEvent(a, e)
  PROVE  AddressableInv'
<1> DEFINE evicted == Evicted(addressableEvents, Touch(addressableEventAccessTimes, a), a, maxAddressableEvents)
           store == Delete(addressableEvents, evicted)
           since == [b \in Addresses |-> IF b \in evicted THEN {} ELSE receivedAddressable[b]]
<1>1. /\ addressableEvents' = IF a \in DOMAIN store /\ ~ReplacesAddressable(e, store[a])
                               THEN store ELSE Put(store, a, e)
      /\ receivedAddressable' = [since EXCEPT ![a] = @ \cup {e}]
  BY DEF processAddressableEvent
<1> HIDE DEF evicted
<1>2. /\ DOMAIN store = DOMAIN addressableEvents \ evicted
      /\ \A b \in DOMAIN store : store[b] = addressableEvents[b]
      /\ DOMAIN addressableEvents \subseteq Addresses
      /\ \A b \in DOMAIN addressableEvents : addressableEvents[b] \in StoredEvent
      /\ \A b \in Addresses : receivedAddressable[b] \subseteq StoredEvent
  BY DEF Delete, AddressableInv, AddressableTypeOK
<1>3. /\ since \in [Addresses -> SUBSET StoredEvent]
      /\ \A b \in DOMAIN store : since[b] = receivedAddressable[b]
      /\ \A b \in Addresses \ DOMAIN store : since[b] = {}
  BY <1>2 DEF AddressableInv, AddressableTypeOK, AddressableBegins
<1>4. \A b \in DOMAIN store :
        store[b] \in since[b] /\ \A f \in since[b] \ {store[b]} : Precedes(store[b], f)
  BY <1>2, <1>3 DEF AddressableInv, AddressableConverges
<1>5. /\ store \in [DOMAIN store -> StoredEvent] /\ DOMAIN store \subseteq Addresses
  BY <1>2 DEF Delete
<1> HIDE DEF store, since
<1>6. /\ receivedAddressable' \in [Addresses -> SUBSET StoredEvent]
      /\ \A b \in Addresses : b # a => receivedAddressable'[b] = since[b]
      /\ receivedAddressable'[a] = since[a] \cup {e}
  BY <1>1, <1>3
<1>7. CASE a \in DOMAIN store /\ ~Precedes(e, store[a])
  <2>1. addressableEvents' = store
    BY <1>1, <1>5, <1>7, PrecedenceOrders
  <2>2. AddressableTypeOK'
    BY <1>5, <1>6, <2>1 DEF AddressableTypeOK
  <2>3. AddressableBegins'
    BY <1>3, <1>6, <1>7, <2>1 DEF AddressableBegins
  <2>4. e # store[a] => Precedes(store[a], e)
    BY <1>5, <1>7, PrecedenceOrders
  <2>5. AddressableConverges'
    BY <1>4, <1>5, <1>6, <2>1, <2>4 DEF AddressableConverges, Precedes
  <2>6. QED
    BY <2>2, <2>3, <2>5 DEF AddressableInv
<1>8. CASE ~ (a \in DOMAIN store /\ ~Precedes(e, store[a]))
  <2>1. addressableEvents' = Put(store, a, e)
    BY <1>1, <1>5, <1>8, PrecedenceOrders
  <2>2. /\ DOMAIN addressableEvents' = DOMAIN store \cup {a}
        /\ addressableEvents'[a] = e
        /\ \A b \in DOMAIN store : b # a => addressableEvents'[b] = store[b]
        /\ addressableEvents' \in [DOMAIN store \cup {a} -> StoredEvent]
    BY <1>5, <2>1 DEF Put
  <2>3. AddressableTypeOK'
    BY <1>5, <1>6, <2>2 DEF AddressableTypeOK
  <2>4. AddressableBegins'
    BY <1>3, <1>6, <2>2 DEF AddressableBegins
  <2>5. \A f \in since[a] \ {e} : Precedes(e, f)
    <3>1. CASE a \notin DOMAIN store
      BY <1>3, <3>1
    <3>2. CASE a \in DOMAIN store
      <4>1. Precedes(e, store[a]) /\ store[a] \in StoredEvent /\ since[a] \subseteq StoredEvent
        BY <1>3, <1>5, <1>8, <3>2
      <4>2. QED
        BY <1>4, <3>2, <4>1, PrecedenceOrders
    <3>3. QED
      BY <3>1, <3>2
  <2>6. ASSUME NEW b \in DOMAIN addressableEvents'
        PROVE  /\ addressableEvents'[b] \in receivedAddressable'[b]
               /\ \A f \in receivedAddressable'[b] \ {addressableEvents'[b]} :
                    Precedes(addressableEvents'[b], f)
    <3>1. CASE b = a
      BY <1>6, <2>2, <2>5, <3>1
    <3>2. CASE b # a
      <4>1. b \in DOMAIN store /\ addressableEvents'[b] = store[b] /\ receivedAddressable'[b] = since[b]
        BY <1>5, <1>6, <2>2, <3>2
      <4>2. QED
        BY <1>4, <4>1
    <3>3. QED
      BY <3>1, <3>2
  <2>7. AddressableConverges'
    BY <2>6 DEF AddressableConverges, Precedes
  <2>8. QED
    BY <2>3, <2>4, <2>7 DEF AddressableInv
<1>9. QED
  BY <1>7, <1>8

\* In whatever order events arrive and however addresses are evicted and read, the
\* stored addressable event precedes all others received since its entry began.
THEOREM AddressableAlwaysConverges == Spec => []AddressableConverges
<1>1. now = 0 /\ StoreInit => AddressableInv
  <2> SUFFICES ASSUME StoreInit PROVE AddressableInv
    OBVIOUS
  <2>1. /\ addressableEvents \in [{} -> StoredEvent] /\ {} \in SUBSET Addresses
        /\ DOMAIN addressableEvents = {}
    BY DEF StoreInit
  <2>2. \A a \in Addresses : receivedAddressable[a] = {}
    BY DEF StoreInit
  <2>3. AddressableTypeOK
    BY <2>1 DEF StoreInit, AddressableTypeOK
  <2>4. QED
    BY <2>1, <2>2, <2>3 DEF AddressableInv, AddressableBegins, AddressableConverges
<1>2. AddressableInv /\ UNCHANGED addressable => AddressableInv'
  BY DEF addressable, AddressableInv, AddressableTypeOK, AddressableBegins, AddressableConverges
<1>3. AddressableInv /\ [Next]_vars => AddressableInv'
  <2> SUFFICES ASSUME AddressableInv, [Next]_vars PROVE AddressableInv'
    OBVIOUS
  <2>0. ReplaceableNext \/ AddressableNext \/ UNCHANGED storeVars
    BY DEF Next, vars
  <2>1. CASE UNCHANGED storeVars
    BY <1>2, <2>1 DEF storeVars
  <2>2. ASSUME NEW p \in StoreAuthors, getLatestReplaceableEvent(p) PROVE AddressableInv'
    BY <1>2, <2>2 DEF getLatestReplaceableEvent
  <2>3. ASSUME NEW p \in StoreAuthors, NEW k \in StoreKinds, NEW e \in StoredEvent,
               processReplaceableEvent(p, k, e)
        PROVE  AddressableInv'
    BY <1>2, <2>3 DEF processReplaceableEvent
  <2>4. ASSUME NEW a \in Addresses, getLatestAddressableEvent(a) PROVE AddressableInv'
    BY <2>4 DEF getLatestAddressableEvent, AddressableInv, AddressableTypeOK, AddressableBegins,
                AddressableConverges
  <2>5. ASSUME NEW a \in Addresses, NEW e \in StoredEvent, processAddressableEvent(a, e)
        PROVE  AddressableInv'
    BY <2>5, ProcessAddressable
  <2>6. QED
    BY <2>0, <2>1, <2>2, <2>3, <2>4, <2>5 DEF ReplaceableNext, AddressableNext
<1>4. AddressableInv => AddressableConverges
  BY DEF AddressableInv
<1>5. Init => AddressableInv
  BY <1>1 DEF Init
<1>6. QED
  BY <1>3, <1>4, <1>5, PTL DEF Spec

-----------------------------------------------------------------------------
\* The replaceable events of a relay.

KindMap == UNION {[K -> StoredEvent] : K \in SUBSET StoreKinds}

ReplaceableTypeOK ==
  /\ replaceableEvents \in UNION {[D -> KindMap] : D \in SUBSET StoreAuthors}
  /\ receivedReplaceable \in [StoreAuthors -> [StoreKinds -> SUBSET StoredEvent]]

\* What the entry of an author says of the events received.
Newest(kindMap, received) ==
  /\ \A k \in DOMAIN kindMap :
       kindMap[k] \in received[k] /\ \A e \in received[k] : e.created_at <= kindMap[k].created_at
  /\ \A k \in StoreKinds \ DOMAIN kindMap : received[k] = {}

ReplaceableInv ==
  /\ ReplaceableTypeOK
  /\ \A p \in DOMAIN replaceableEvents : Newest(replaceableEvents[p], receivedReplaceable[p])
  /\ \A p \in StoreAuthors \ DOMAIN replaceableEvents : Newest(<<>>, receivedReplaceable[p])

\* An event is kept or replaced by its date; an evicted kind begins again.
LEMMA ProcessNewest ==
  ASSUME NEW kindMap \in KindMap, NEW received \in [StoreKinds -> SUBSET StoredEvent],
         Newest(kindMap, received), NEW k \in StoreKinds, NEW e \in StoredEvent
  PROVE  /\ k \in DOMAIN kindMap /\ ~ReplacesReplaceable(e, kindMap[k]) =>
              Newest(kindMap, [received EXCEPT ![k] = @ \cup {e}])
         /\ ~ (k \in DOMAIN kindMap /\ ~ReplacesReplaceable(e, kindMap[k])) =>
              \A ks \in EvictableKinds(kindMap, k) :
                /\ Put(Delete(kindMap, ks), k, e) \in KindMap
                /\ Newest(Put(Delete(kindMap, ks), k, e),
                          [i \in StoreKinds |-> IF i \in ks THEN {}
                                                ELSE IF i = k THEN received[i] \cup {e}
                                                ELSE received[i]])
<1>0. /\ \A f \in StoredEvent : f.created_at \in Nat
      /\ DOMAIN kindMap \subseteq StoreKinds
      /\ \A i \in DOMAIN kindMap : kindMap[i] \in StoredEvent
      /\ \A i \in StoreKinds : received[i] \subseteq StoredEvent
  <2>1. \A f \in StoredEvent : f.created_at \in Nat
    BY StoreAssumption DEF StoredEvent
  <2>2. PICK K \in SUBSET StoreKinds : kindMap \in [K -> StoredEvent]
    BY DEF KindMap
  <2>3. \A i \in StoreKinds : received[i] \subseteq StoredEvent
    OBVIOUS
  <2>4. QED
    BY <2>1, <2>2, <2>3
<1>1. ASSUME k \in DOMAIN kindMap, ~ReplacesReplaceable(e, kindMap[k])
      PROVE  Newest(kindMap, [received EXCEPT ![k] = @ \cup {e}])
  <2> DEFINE r == [received EXCEPT ![k] = @ \cup {e}]
  <2>1. /\ r[k] = received[k] \cup {e} /\ \A i \in StoreKinds : i # k => r[i] = received[i]
        /\ e.created_at <= kindMap[k].created_at
    BY <1>0, <1>1 DEF ReplacesReplaceable
  <2> HIDE DEF r
  <2>2. Newest(kindMap, r)
    BY <1>0, <1>1, <2>1 DEF Newest
  <2>3. QED
    BY <2>2 DEF r
<1>2. ASSUME ~ (k \in DOMAIN kindMap /\ ~ReplacesReplaceable(e, kindMap[k])),
             NEW ks \in EvictableKinds(kindMap, k)
      PROVE  /\ Put(Delete(kindMap, ks), k, e) \in KindMap
             /\ Newest(Put(Delete(kindMap, ks), k, e),
                       [i \in StoreKinds |-> IF i \in ks THEN {}
                                             ELSE IF i = k THEN received[i] \cup {e}
                                             ELSE received[i]])
  <2> DEFINE m == Put(Delete(kindMap, ks), k, e)
             r == [i \in StoreKinds |-> IF i \in ks THEN {}
                                        ELSE IF i = k THEN received[i] \cup {e}
                                        ELSE received[i]]
  <2>1. ks \subseteq DOMAIN kindMap /\ k \notin ks
    BY DEF EvictableKinds
  <2>2. /\ DOMAIN m = (DOMAIN kindMap \ ks) \cup {k}
        /\ m[k] = e
        /\ \A i \in DOMAIN kindMap \ ks : i # k => m[i] = kindMap[i]
        /\ m \in [(DOMAIN kindMap \ ks) \cup {k} -> StoredEvent]
    BY <1>0 DEF Put, Delete
  <2>3. (DOMAIN kindMap \ ks) \cup {k} \in SUBSET StoreKinds
    BY <1>0
  <2>4. m \in KindMap
    BY <2>2, <2>3 DEF KindMap
  <2>5. /\ r[k] = received[k] \cup {e}
        /\ \A i \in ks : r[i] = {}
        /\ \A i \in StoreKinds : i # k /\ i \notin ks => r[i] = received[i]
    BY <1>0, <2>1
  <2>6. \A f \in received[k] : f.created_at <= e.created_at
    <3>1. CASE k \notin DOMAIN kindMap
      BY <3>1 DEF Newest
    <3>2. CASE k \in DOMAIN kindMap
      <4>1. kindMap[k].created_at < e.created_at /\ kindMap[k].created_at \in Nat /\ e.created_at \in Nat
        BY <1>0, <1>2, <3>2 DEF ReplacesReplaceable
      <4>2. \A f \in received[k] : f.created_at <= kindMap[k].created_at /\ f.created_at \in Nat
        BY <1>0, <3>2 DEF Newest
      <4>3. QED
        BY <4>1, <4>2
    <3>3. QED
      BY <3>1, <3>2
  <2> HIDE DEF m, r
  <2>7. ASSUME NEW i \in DOMAIN m
        PROVE  m[i] \in r[i] /\ \A f \in r[i] : f.created_at <= m[i].created_at
    <3>1. CASE i = k
      BY <1>0, <2>2, <2>5, <2>6, <3>1
    <3>2. CASE i # k
      BY <1>0, <2>2, <2>5, <3>2 DEF Newest
    <3>3. QED
      BY <3>1, <3>2
  <2>8. ASSUME NEW i \in StoreKinds \ DOMAIN m PROVE r[i] = {}
    BY <2>2, <2>5 DEF Newest
  <2>9. Newest(m, r)
    BY <2>7, <2>8 DEF Newest
  <2>10. QED
    BY <2>4, <2>9 DEF m, r
<1>3. QED
  BY <1>1, <1>2

\* An author's entry is kept up to date; an evicted author's begins again.
LEMMA ProcessReplaceable ==
  ASSUME ReplaceableInv, NEW p \in StoreAuthors, NEW k \in StoreKinds, NEW e \in StoredEvent,
         processReplaceableEvent(p, k, e)
  PROVE  ReplaceableInv'
<1> DEFINE evicted == Evicted(replaceableEvents, Touch(replaceableEventAccessTimes, p), p,
                              maxReplaceableEventPubkeys)
           store == Delete(replaceableEvents, evicted)
           kindMap == IF p \in DOMAIN store THEN store[p] ELSE <<>>
           none == [i \in StoreKinds |-> {}]
           since == [q \in StoreAuthors |-> IF q \in evicted THEN none ELSE receivedReplaceable[q]]
           kept == k \in DOMAIN kindMap /\ ~ReplacesReplaceable(e, kindMap[k])
<1>1. \/ /\ kept
         /\ replaceableEvents' = Put(store, p, kindMap)
         /\ receivedReplaceable' = [since EXCEPT ![p][k] = @ \cup {e}]
      \/ /\ ~kept
         /\ \E ks \in EvictableKinds(kindMap, k) :
              /\ replaceableEvents' = Put(store, p, Put(Delete(kindMap, ks), k, e))
              /\ receivedReplaceable' =
                    [since EXCEPT ![p] = [i \in StoreKinds |-> IF i \in ks THEN {}
                                                               ELSE IF i = k THEN @[i] \cup {e}
                                                               ELSE @[i]]]
  BY DEF processReplaceableEvent
<1> HIDE DEF evicted
<1>2. /\ DOMAIN store = DOMAIN replaceableEvents \ evicted
      /\ \A q \in DOMAIN store : store[q] = replaceableEvents[q]
      /\ DOMAIN replaceableEvents \subseteq StoreAuthors
      /\ \A q \in DOMAIN replaceableEvents : replaceableEvents[q] \in KindMap
      /\ \A q \in StoreAuthors : receivedReplaceable[q] \in [StoreKinds -> SUBSET StoredEvent]
  BY DEF Delete, ReplaceableInv, ReplaceableTypeOK
<1>3. none \in [StoreKinds -> SUBSET StoredEvent] /\ Newest(<<>>, none)
  BY DEF Newest
<1> HIDE DEF none
<1>4. /\ since \in [StoreAuthors -> [StoreKinds -> SUBSET StoredEvent]]
      /\ \A q \in StoreAuthors : since[q] = IF q \in evicted THEN none ELSE receivedReplaceable[q]
  BY <1>2, <1>3
<1>5. \A q \in DOMAIN store : store[q] \in KindMap /\ Newest(store[q], since[q])
  BY <1>2, <1>4 DEF ReplaceableInv
<1>6. \A q \in StoreAuthors \ DOMAIN store : Newest(<<>>, since[q])
  BY <1>2, <1>3, <1>4 DEF ReplaceableInv
<1>7. DOMAIN store \subseteq StoreAuthors
  BY <1>2
<1> HIDE DEF store, since
<1>8. <<>> \in KindMap
  <2>1. <<>> \in [{} -> StoredEvent] /\ {} \in SUBSET StoreKinds
    OBVIOUS
  <2>2. QED
    BY <2>1 DEF KindMap
<1>9. kindMap \in KindMap /\ Newest(kindMap, since[p])
  BY <1>5, <1>6, <1>8
<1> HIDE DEF kindMap
<1>10. PICK m, r :
         /\ m \in KindMap /\ r \in [StoreKinds -> SUBSET StoredEvent] /\ Newest(m, r)
         /\ replaceableEvents' = Put(store, p, m)
         /\ receivedReplaceable' = [since EXCEPT ![p] = r]
  <2>1. since[p] \in [StoreKinds -> SUBSET StoredEvent]
    BY <1>4
  <2>2. CASE kept
    <3> DEFINE r == [since[p] EXCEPT ![k] = @ \cup {e}]
    <3>1. Newest(kindMap, r)
      BY <1>9, <2>1, <2>2, ProcessNewest
    <3>2. r \in [StoreKinds -> SUBSET StoredEvent]
      BY <2>1
    <3>3. replaceableEvents' = Put(store, p, kindMap) /\ receivedReplaceable' = [since EXCEPT ![p] = r]
      BY <1>1, <2>2
    <3> HIDE DEF r
    <3>4. QED
      BY <1>9, <3>1, <3>2, <3>3
  <2>3. CASE ~kept
    <3>1. PICK ks \in EvictableKinds(kindMap, k) :
              /\ replaceableEvents' = Put(store, p, Put(Delete(kindMap, ks), k, e))
              /\ receivedReplaceable' =
                    [since EXCEPT ![p] = [i \in StoreKinds |-> IF i \in ks THEN {}
                                                               ELSE IF i = k THEN @[i] \cup {e}
                                                               ELSE @[i]]]
      BY <1>1, <2>3
    <3> DEFINE m == Put(Delete(kindMap, ks), k, e)
               r == [i \in StoreKinds |-> IF i \in ks THEN {}
                                          ELSE IF i = k THEN since[p][i] \cup {e}
                                          ELSE since[p][i]]
    <3>2. m \in KindMap /\ Newest(m, r)
      <4> DEFINE received == since[p]
      <4>1. /\ received \in [StoreKinds -> SUBSET StoredEvent]
            /\ kindMap \in KindMap /\ Newest(kindMap, received)
            /\ ~ (k \in DOMAIN kindMap /\ ~ReplacesReplaceable(e, kindMap[k]))
        BY <1>9, <2>1, <2>3
      <4> HIDE DEF received
      <4>2. \A x \in EvictableKinds(kindMap, k) :
              /\ Put(Delete(kindMap, x), k, e) \in KindMap
              /\ Newest(Put(Delete(kindMap, x), k, e),
                        [i \in StoreKinds |-> IF i \in x THEN {}
                                              ELSE IF i = k THEN received[i] \cup {e}
                                              ELSE received[i]])
        BY ONLY <4>1, ProcessNewest, k \in StoreKinds, e \in StoredEvent
      <4>3. QED
        <5>1. ks \in EvictableKinds(kindMap, k)
          OBVIOUS
        <5>2. QED
          BY ONLY <4>2, <5>1 DEF received
    <3>3. r \in [StoreKinds -> SUBSET StoredEvent]
      BY <2>1
    <3>4. replaceableEvents' = Put(store, p, m) /\ receivedReplaceable' = [since EXCEPT ![p] = r]
      BY <3>1
    <3> HIDE DEF m, r
    <3>5. QED
      BY <3>2, <3>3, <3>4
  <2>4. QED
    BY <2>2, <2>3
<1>11. /\ DOMAIN replaceableEvents' = DOMAIN store \cup {p}
       /\ replaceableEvents'[p] = m
       /\ \A q \in DOMAIN store : q # p => replaceableEvents'[q] = store[q]
       /\ replaceableEvents' \in [DOMAIN store \cup {p} -> KindMap]
       /\ DOMAIN store \cup {p} \in SUBSET StoreAuthors
  BY <1>5, <1>7, <1>10 DEF Put
<1>12. /\ receivedReplaceable' \in [StoreAuthors -> [StoreKinds -> SUBSET StoredEvent]]
       /\ receivedReplaceable'[p] = r
       /\ \A q \in StoreAuthors : q # p => receivedReplaceable'[q] = since[q]
  BY <1>4, <1>10
<1>13. ReplaceableTypeOK'
  BY <1>11, <1>12 DEF ReplaceableTypeOK
<1>14. \A q \in DOMAIN replaceableEvents' : Newest(replaceableEvents'[q], receivedReplaceable'[q])
  BY <1>5, <1>7, <1>10, <1>11, <1>12
<1>15. \A q \in StoreAuthors \ DOMAIN replaceableEvents' : Newest(<<>>, receivedReplaceable'[q])
  BY <1>6, <1>11, <1>12
<1>16. QED
  BY <1>13, <1>14, <1>15 DEF ReplaceableInv, Newest

\* The stored replaceable event of an author and kind is one of the newest received
\* since its entry began, however authors and kinds are evicted and read.
THEOREM ReplaceableAlwaysNewest == Spec => []ReplaceableIsNewest
<1>1. now = 0 /\ StoreInit => ReplaceableInv
  <2> SUFFICES ASSUME StoreInit PROVE ReplaceableInv
    OBVIOUS
  <2>1. /\ replaceableEvents \in [{} -> KindMap] /\ {} \in SUBSET StoreAuthors
        /\ DOMAIN replaceableEvents = {}
    BY DEF StoreInit
  <2>2. \A p \in StoreAuthors : receivedReplaceable[p] = [k \in StoreKinds |-> {}]
    BY DEF StoreInit
  <2>3. ReplaceableTypeOK
    BY <2>1 DEF StoreInit, ReplaceableTypeOK
  <2>4. QED
    BY <2>1, <2>2, <2>3 DEF ReplaceableInv, Newest
<1>2. ReplaceableInv /\ UNCHANGED <<replaceableEvents, receivedReplaceable>> => ReplaceableInv'
  BY DEF ReplaceableInv, ReplaceableTypeOK, Newest
<1>3. ReplaceableInv /\ [Next]_vars => ReplaceableInv'
  <2> SUFFICES ASSUME ReplaceableInv, [Next]_vars PROVE ReplaceableInv'
    OBVIOUS
  <2>0. ReplaceableNext \/ AddressableNext \/ UNCHANGED storeVars
    BY DEF Next, vars
  <2>1. CASE UNCHANGED storeVars
    BY <1>2, <2>1 DEF storeVars, replaceable
  <2>2. ASSUME NEW a \in Addresses, getLatestAddressableEvent(a) PROVE ReplaceableInv'
    BY <1>2, <2>2 DEF getLatestAddressableEvent, replaceable
  <2>3. ASSUME NEW a \in Addresses, NEW e \in StoredEvent, processAddressableEvent(a, e)
        PROVE  ReplaceableInv'
    BY <1>2, <2>3 DEF processAddressableEvent, replaceable
  <2>4. ASSUME NEW p \in StoreAuthors, getLatestReplaceableEvent(p) PROVE ReplaceableInv'
    BY <1>2, <2>4 DEF getLatestReplaceableEvent
  <2>5. ASSUME NEW p \in StoreAuthors, NEW k \in StoreKinds, NEW e \in StoredEvent,
               processReplaceableEvent(p, k, e)
        PROVE  ReplaceableInv'
    BY <2>5, ProcessReplaceable
  <2>6. QED
    BY <2>0, <2>1, <2>2, <2>3, <2>4, <2>5 DEF ReplaceableNext, AddressableNext
<1>4. ReplaceableInv => ReplaceableIsNewest
  BY DEF ReplaceableInv, Newest, ReplaceableIsNewest
<1>5. Init => ReplaceableInv
  BY <1>1 DEF Init
<1>6. QED
  BY <1>3, <1>4, <1>5, PTL DEF Spec

-----------------------------------------------------------------------------
\* Both maps are bounded by their limits and the reads of keys they did not hold.

Keys == StoreAuthors \cup Addresses
Access == [key : Keys, time : Nat]
KeysOf(times) == {times[i].key : i \in DOMAIN times}

\* The keys that were read but are not stored.
Stale(keys, times) == KeysOf(times) \ keys

\* The keys of a map, and their access times: every stale access time stems from a
\* read, each key beyond the limit has used one up, and there is always a key with
\* an access time.
Bounded(keys, times, max, reads) ==
  /\ times \in Seq(Access)
  /\ \A i \in DOMAIN times : times[i].time <= now
  /\ reads \in Nat
  /\ IsFiniteSet(keys) /\ IsFiniteSet(Stale(keys, times))
  /\ Cardinality(Stale(keys, times)) <= reads
  /\ Cardinality(keys) + Cardinality(Stale(keys, times)) <= max + reads
  /\ keys # {} => keys \cap KeysOf(times) # {}

BoundedInv ==
  /\ now \in Nat
  /\ DOMAIN replaceableEvents \subseteq StoreAuthors /\ DOMAIN addressableEvents \subseteq Addresses
  /\ Bounded(DOMAIN replaceableEvents, replaceableEventAccessTimes, maxReplaceableEventPubkeys,
             replaceableUnknownReads)
  /\ Bounded(DOMAIN addressableEvents, addressableEventAccessTimes, maxAddressableEvents,
             addressableUnknownReads)

\* An access is recorded, at the end if the key is new.
LEMMA TouchRecords ==
  ASSUME NEW times \in Seq(Access), NEW k \in Keys, now \in Nat,
         \A i \in DOMAIN times : times[i].time <= now
  PROVE  /\ Touch(times, k) \in Seq(Access)
         /\ \A i \in DOMAIN Touch(times, k) : Touch(times, k)[i].time <= now
         /\ KeysOf(Touch(times, k)) = KeysOf(times) \cup {k}
         /\ k \notin KeysOf(times) => Touch(times, k) = Append(times, [key |-> k, time |-> now])
<1> DEFINE a == [key |-> k, time |-> now]
<1>0. a \in Access /\ a.key = k /\ a.time = now
  BY DEF Access
<1>1. CASE \E i \in DOMAIN times : times[i].key = k
  <2> DEFINE t == [i \in DOMAIN times |-> IF times[i].key = k THEN a ELSE times[i]]
  <2>1. Touch(times, k) = t
    BY <1>1 DEF Touch
  <2> HIDE DEF a
  <2>2. t \in Seq(Access) /\ DOMAIN t = DOMAIN times
    BY <1>0
  <2>3. \A i \in DOMAIN times : t[i].key = times[i].key /\ t[i].time <= now
    BY <1>0
  <2>4. KeysOf(t) = KeysOf(times) /\ k \in KeysOf(times)
    BY <1>1, <2>2, <2>3 DEF KeysOf
  <2> HIDE DEF t
  <2>5. QED
    BY <2>1, <2>2, <2>3, <2>4
<1>2. CASE ~ \E i \in DOMAIN times : times[i].key = k
  <2> DEFINE t == Append(times, a)
  <2>1. Touch(times, k) = t
    BY <1>2 DEF Touch
  <2> HIDE DEF a
  <2>2. /\ t \in Seq(Access) /\ Len(times) \in Nat /\ DOMAIN times = 1 .. Len(times)
        /\ DOMAIN t = 1 .. Len(times) + 1
        /\ t[Len(times) + 1] = a /\ \A i \in 1 .. Len(times) : t[i] = times[i]
    BY <1>0
  <2> HIDE DEF t
  <2>3. \A i \in DOMAIN t : t[i].time <= now
    BY <1>0, <2>2
  <2>4. KeysOf(t) = KeysOf(times) \cup {k}
    <3>1. ASSUME NEW x \in KeysOf(t) PROVE x \in KeysOf(times) \cup {k}
      BY <1>0, <2>2 DEF KeysOf
    <3>2. ASSUME NEW x \in KeysOf(times) PROVE x \in KeysOf(t)
      BY <2>2 DEF KeysOf
    <3>3. k \in KeysOf(t)
      BY <1>0, <2>2 DEF KeysOf
    <3>4. QED
      BY <3>1, <3>2, <3>3
  <2>5. QED
    BY <2>1, <2>2, <2>3, <2>4 DEF t, a
<1>3. QED
  BY <1>1, <1>2

\* Forgetting takes out the keys it is given and no other.
LEMMA ForgetForgets ==
  ASSUME NEW times \in Seq(Access), NEW ks, \A i \in DOMAIN times : times[i].time <= now
  PROVE  /\ Forget(times, ks) \in Seq(Access)
         /\ \A i \in DOMAIN Forget(times, ks) : Forget(times, ks)[i].time <= now
         /\ KeysOf(Forget(times, ks)) = KeysOf(times) \ ks
<1> DEFINE kept == [key : Keys \ ks, time : Nat]
           t == filter(times, kept)
<1>1. Forget(times, ks) = t
  BY DEF Forget, Keys
<1>2. t \in Seq(Access) /\ ValuesOf(t) = ValuesOf(times) \cap kept
  BY FilterPicks, FilterValues
<1>3. \A a \in Access : a \in kept <=> a.key \notin ks
  BY DEF Access
<1> HIDE DEF t, kept
<1>4. \A a \in ValuesOf(times) : a \in Access /\ a.time <= now
  BY DEF ValuesOf
<1>5. \A i \in DOMAIN t : t[i] \in ValuesOf(t)
  BY DEF ValuesOf
<1>6. \A i \in DOMAIN t : t[i].time <= now
  BY <1>2, <1>4, <1>5
<1>7. KeysOf(t) = {a.key : a \in ValuesOf(t)} /\ KeysOf(times) = {a.key : a \in ValuesOf(times)}
  BY DEF KeysOf, ValuesOf
<1>8. {a.key : a \in ValuesOf(times) \cap kept} = {a.key : a \in ValuesOf(times)} \ ks
  BY <1>3, <1>4
<1>9. QED
  BY <1>1, <1>2, <1>6, <1>7, <1>8

\* The oldest key is that of the first entry with the least access time.
LEMMA OldestIsFirst ==
  ASSUME NEW t \in Seq(Access), t # <<>>
  PROVE  \E i \in DOMAIN t : /\ OldestKey(t) = t[i].key
                             /\ \A j \in 1 .. i - 1 : t[i].time < t[j].time
<1> DEFINE oldest(i) == /\ \A j \in DOMAIN t : t[i].time <= t[j].time
                        /\ \A j \in 1 .. i - 1 : t[i].time < t[j].time
<1>1. Len(t) \in Nat /\ Len(t) # 0 /\ DOMAIN t = 1 .. Len(t)
  OBVIOUS
<1>2. \A i \in DOMAIN t : t[i].time \in Nat
  <2>1. \A i \in DOMAIN t : t[i] \in Access
    OBVIOUS
  <2>2. QED
    BY <2>1 DEF Access
<1>3. \E i \in DOMAIN t : oldest(i)
  <2> DEFINE ages == {t[i].time : i \in DOMAIN t}
  <2>1. ages \subseteq Nat /\ ages # {}
    BY <1>1, <1>2
  <2>2. PICK least \in ages : \A m \in ages : least <= m
    <3> HIDE DEF ages
    <3>1. QED
      BY <2>1, LeastNumber
  <2> DEFINE youngest == {i \in DOMAIN t : t[i].time = least}
  <2>3. youngest \subseteq Nat /\ youngest # {}
    BY <1>1, <2>2
  <2>4. PICK i \in youngest : \A j \in youngest : i <= j
    <3> HIDE DEF youngest
    <3>1. QED
      BY <2>3, LeastNumber
  <2>5. \A j \in DOMAIN t : t[i].time <= t[j].time
    BY <2>2, <2>4
  <2>6. ASSUME NEW j \in 1 .. i - 1 PROVE t[i].time < t[j].time
    <3>1. j \in DOMAIN t /\ j \notin youngest /\ i \in DOMAIN t
      BY <1>1, <2>4
    <3>2. t[j].time # t[i].time /\ t[i].time <= t[j].time
      BY <2>4, <2>5, <3>1
    <3>3. QED
      BY <1>2, <3>1, <3>2
  <2>7. QED
    BY <2>4, <2>5, <2>6
<1>4. OldestKey(t) = t[CHOOSE i \in DOMAIN t : oldest(i)].key
  BY DEF OldestKey
<1>5. QED
  BY <1>3, <1>4

\* A key just added is not the oldest: the one that goes was there before.
LEMMA OldestIsOther ==
  ASSUME NEW times \in Seq(Access), NEW k \in Keys, now \in Nat, times # <<>>,
         \A i \in DOMAIN times : times[i].time <= now
  PROVE  OldestKey(Touch(times, k)) \in KeysOf(times)
<1> DEFINE t == Touch(times, k)
           n == Len(times)
<1>1. t \in Seq(Access) /\ KeysOf(t) = KeysOf(times) \cup {k}
  BY TouchRecords
<1>2. n \in Nat /\ n # 0 /\ DOMAIN times = 1 .. n /\ n \in DOMAIN times
  OBVIOUS
<1>3. KeysOf(times) # {}
  BY <1>2 DEF KeysOf
<1>4. t # <<>>
  BY <1>1, <1>3 DEF KeysOf
<1>5. PICK i \in DOMAIN t : OldestKey(t) = t[i].key /\ \A j \in 1 .. i - 1 : t[i].time < t[j].time
  <2> HIDE DEF t
  <2>1. QED
    BY <1>1, <1>4, OldestIsFirst
<1>6. CASE k \in KeysOf(times)
  BY <1>1, <1>5, <1>6 DEF KeysOf
<1>7. CASE k \notin KeysOf(times)
  <2> DEFINE a == [key |-> k, time |-> now]
  <2>1. t = Append(times, a)
    BY <1>7, TouchRecords
  <2>2. a \in Access /\ a.time = now
    BY DEF Access
  <2> HIDE DEF a
  <2>3. DOMAIN t = 1 .. n + 1 /\ t[n + 1] = a /\ \A j \in 1 .. n : t[j] = times[j]
    BY <1>2, <2>1, <2>2
  <2> HIDE DEF t, n
  <2>4. i # n + 1
    <3>1. SUFFICES ASSUME i = n + 1 PROVE FALSE
      OBVIOUS
    <3>2. 1 \in 1 .. i - 1 /\ 1 \in 1 .. n
      BY <1>2, <3>1
    <3>3. t[i].time < t[1].time /\ t[1] = times[1] /\ t[i].time = now
      BY <1>5, <2>2, <2>3, <3>1, <3>2
    <3>4. times[1].time <= now /\ times[1] \in Access
      BY <1>2, <3>2
    <3>5. QED
      BY <3>3, <3>4 DEF Access
  <2>5. i \in DOMAIN times /\ t[i] = times[i]
    BY <1>2, <1>5, <2>3, <2>4
  <2>6. QED
    BY <1>5, <2>5 DEF KeysOf, t
<1>8. QED
  BY <1>6, <1>7

\* A map that is full makes room before it takes a new key, or uses up the stale
\* access time of a read.
LEMMA ProcessBounded ==
  ASSUME NEW store, NEW times, NEW max \in Nat \ {0}, NEW reads, now \in Nat,
         Bounded(DOMAIN store, times, max, reads),
         NEW k \in Keys, NEW evicted, evicted = Evicted(store, Touch(times, k), k, max)
  PROVE  Bounded((DOMAIN store \ evicted) \cup {k}, Forget(Touch(times, k), evicted), max, reads)
<1> DEFINE keys == DOMAIN store
           stale == Stale(keys, times)
           touched == Touch(times, k)
           after == (keys \ evicted) \cup {k}
           left == (KeysOf(times) \cup {k}) \ evicted
<1>0. /\ times \in Seq(Access) /\ (\A i \in DOMAIN times : times[i].time <= now)
      /\ keys # {} => keys \cap KeysOf(times) # {}
      /\ stale = KeysOf(times) \ keys
  BY DEF Bounded, Stale
<1>1. /\ IsFiniteSet(keys) /\ IsFiniteSet(stale) /\ reads \in Nat /\ max \in Nat
      /\ Cardinality(keys) \in Nat /\ Cardinality(stale) \in Nat
      /\ Cardinality(stale) <= reads /\ Cardinality(keys) + Cardinality(stale) <= max + reads
  BY FS_CardinalityType DEF Bounded
<1>2. /\ touched \in Seq(Access) /\ (\A i \in DOMAIN touched : touched[i].time <= now)
      /\ KeysOf(touched) = KeysOf(times) \cup {k}
  BY <1>0, TouchRecords
<1>3. /\ Forget(touched, evicted) \in Seq(Access)
      /\ \A i \in DOMAIN Forget(touched, evicted) : Forget(touched, evicted)[i].time <= now
      /\ KeysOf(Forget(touched, evicted)) = left
  <2> HIDE DEF touched
  <2>1. QED
    BY <1>2, ForgetForgets
<1>4. Stale(after, Forget(touched, evicted)) = left \ after
  BY <1>3 DEF Stale
<1>5. /\ IsFiniteSet(after) /\ IsFiniteSet(left \ after)
      /\ Cardinality(left \ after) <= reads
      /\ Cardinality(after) + Cardinality(left \ after) <= max + reads
      /\ after \cap left # {}
  <2>1. CASE k \in keys
    <3>1. evicted = {}
      BY <2>1 DEF Evicted
    <3>2. after = keys /\ left \ after = stale
      BY <1>0, <2>1, <3>1
    <3>3. k \in after \cap left
      BY <3>1
    <3>4. QED
      BY <1>1, <3>2, <3>3
  <2>2. CASE k \notin keys /\ ~ (Cardinality(keys) >= max)
    <3>1. evicted = {}
      BY <2>2 DEF Evicted
    <3>2. after = keys \cup {k} /\ left \ after = stale \ {k} /\ k \in after \cap left
      BY <1>0, <3>1
    <3> HIDE DEF keys, after, left, stale
    <3>3. IsFiniteSet(after) /\ Cardinality(after) = Cardinality(keys) + 1
      BY <1>1, <2>2, <3>2, FS_AddElement
    <3>4. IsFiniteSet(stale \ {k}) /\ Cardinality(stale \ {k}) <= Cardinality(stale)
      BY <1>1, FS_Subset
    <3>5. Cardinality(stale \ {k}) \in Nat
      BY <3>4, FS_CardinalityType
    <3>6. QED
      BY <1>1, <2>2, <3>2, <3>3, <3>4, <3>5
  <2>3. CASE k \notin keys /\ Cardinality(keys) >= max
    <3> DEFINE oldest == OldestKey(touched)
    <3>1. evicted = {oldest}
      BY <2>3 DEF Evicted
    <3>2. keys # {}
      <4> HIDE DEF keys
      <4>1. QED
        BY <2>3, FS_EmptySet
    <3>3. PICK other : other \in keys \cap KeysOf(times)
      BY <1>0, <3>2
    <3>4. times # <<>>
      BY <3>3 DEF KeysOf
    <3>5. oldest \in KeysOf(times)
      BY <1>0, <3>4, OldestIsOther
    <3> HIDE DEF oldest
    <3>6. CASE oldest \in keys
      <4>1. after = (keys \ {oldest}) \cup {k} /\ k \notin keys \ {oldest} /\ k # oldest
        BY <2>3, <3>1, <3>6
      <4>2. left \ after = stale \ {k} /\ k \in after \cap left
        BY <1>0, <3>1, <3>6, <4>1
      <4> HIDE DEF keys, after, left, stale
      <4>3. IsFiniteSet(keys \ {oldest}) /\ Cardinality(keys \ {oldest}) = Cardinality(keys) - 1
        BY <1>1, <3>6, FS_RemoveElement
      <4>4. IsFiniteSet(after) /\ Cardinality(after) = Cardinality(keys \ {oldest}) + 1
        BY <4>1, <4>3, FS_AddElement
      <4>5. IsFiniteSet(stale \ {k}) /\ Cardinality(stale \ {k}) <= Cardinality(stale)
        BY <1>1, FS_Subset
      <4>6. Cardinality(stale \ {k}) \in Nat
        BY <4>5, FS_CardinalityType
      <4>7. QED
        BY <1>1, <4>2, <4>3, <4>4, <4>5, <4>6
    <3>7. CASE oldest \notin keys
      <4>1. oldest \in stale
        BY <1>0, <3>5, <3>7
      <4>2. after = keys \cup {k}
        BY <3>1, <3>7
      <4>3. left \ after = (stale \ {oldest}) \ {k}
        BY <1>0, <3>1, <4>2
      <4>4. other \in after \cap left
        BY <3>1, <3>3, <3>7
      <4> HIDE DEF keys, after, left, stale
      <4>5. IsFiniteSet(stale \ {oldest}) /\ Cardinality(stale \ {oldest}) = Cardinality(stale) - 1
        BY <1>1, <4>1, FS_RemoveElement
      <4>6. /\ IsFiniteSet((stale \ {oldest}) \ {k})
            /\ Cardinality((stale \ {oldest}) \ {k}) <= Cardinality(stale \ {oldest})
        BY <4>5, FS_Subset
      <4>7. Cardinality((stale \ {oldest}) \ {k}) \in Nat
        BY <4>6, FS_CardinalityType
      <4>8. IsFiniteSet(after) /\ Cardinality(after) = Cardinality(keys) + 1
        BY <1>1, <2>3, <4>2, FS_AddElement
      <4>9. /\ Cardinality(left \ after) <= reads
            /\ Cardinality(after) + Cardinality(left \ after) <= max + reads
        <5>1. Cardinality(left \ after) \in Nat /\ Cardinality(left \ after) <= Cardinality(stale) - 1
          BY <4>3, <4>5, <4>6, <4>7
        <5>2. QED
          BY <1>1, <4>8, <5>1
      <4>10. QED
        BY <4>3, <4>4, <4>6, <4>8, <4>9
    <3>8. QED
      BY <3>6, <3>7
  <2>4. QED
    BY <2>1, <2>2, <2>3
<1>6. QED
  BY <1>1, <1>3, <1>4, <1>5 DEF Bounded

\* Reading adds no key, and a stale access time only if the key is not stored.
LEMMA ReadBounded ==
  ASSUME NEW store, NEW times, NEW max \in Nat, NEW reads, now \in Nat,
         Bounded(DOMAIN store, times, max, reads), NEW k \in Keys
  PROVE  Bounded(DOMAIN store, Touch(times, k), max, UnknownReads(store, k, reads))
<1> DEFINE keys == DOMAIN store
           stale == Stale(keys, times)
           touched == Touch(times, k)
<1>0. /\ times \in Seq(Access) /\ (\A i \in DOMAIN times : times[i].time <= now)
      /\ keys # {} => keys \cap KeysOf(times) # {}
      /\ stale = KeysOf(times) \ keys
  BY DEF Bounded, Stale
<1>1. /\ IsFiniteSet(keys) /\ IsFiniteSet(stale) /\ reads \in Nat /\ max \in Nat
      /\ Cardinality(keys) \in Nat /\ Cardinality(stale) \in Nat
      /\ Cardinality(stale) <= reads /\ Cardinality(keys) + Cardinality(stale) <= max + reads
  BY FS_CardinalityType DEF Bounded
<1>2. /\ touched \in Seq(Access) /\ (\A i \in DOMAIN touched : touched[i].time <= now)
      /\ KeysOf(touched) = KeysOf(times) \cup {k}
  BY <1>0, TouchRecords
<1>3. keys # {} => keys \cap KeysOf(touched) # {}
  BY <1>0, <1>2
<1>4. CASE k \in keys
  <2>1. Stale(keys, touched) = stale /\ UnknownReads(store, k, reads) = reads
    BY <1>0, <1>1, <1>2, <1>4 DEF Stale, UnknownReads
  <2>2. QED
    BY <1>1, <1>2, <1>3, <2>1 DEF Bounded
<1>5. CASE k \notin keys
  <2>1. Stale(keys, touched) = stale \cup {k} /\ UnknownReads(store, k, reads) = reads + 1
    BY <1>0, <1>2, <1>5 DEF Stale, UnknownReads
  <2> HIDE DEF keys, stale
  <2>2. /\ IsFiniteSet(stale \cup {k}) /\ Cardinality(stale \cup {k}) \in Nat
        /\ Cardinality(stale \cup {k}) <= Cardinality(stale) + 1
    <3>1. CASE k \in stale
      <4>1. stale \cup {k} = stale
        BY <3>1
      <4>2. Cardinality(stale) <= Cardinality(stale) + 1
        BY <1>1
      <4>3. QED
        BY <1>1, <4>1, <4>2
    <3>2. CASE k \notin stale
      <4>1. IsFiniteSet(stale \cup {k}) /\ Cardinality(stale \cup {k}) = Cardinality(stale) + 1
        BY <1>1, <3>2, FS_AddElement
      <4>2. QED
        BY <1>1, <4>1
    <3>3. QED
      BY <3>1, <3>2
  <2>3. /\ Cardinality(stale \cup {k}) <= reads + 1
        /\ Cardinality(keys) + Cardinality(stale \cup {k}) <= max + (reads + 1)
    BY <1>1, <2>2
  <2>4. reads + 1 \in Nat
    BY <1>1
  <2>5. Bounded(keys, touched, max, reads + 1)
    BY <1>1, <1>2, <1>3, <2>1, <2>2, <2>3, <2>4 DEF Bounded
  <2>6. QED
    BY <2>1, <2>5 DEF keys
<1>6. QED
  BY <1>4, <1>5

\* A map exceeds its limit by no more entries than there were reads of keys that it
\* did not hold, whatever the limits, the keys and the order of events and reads.
THEOREM StoresAlwaysBounded == Spec => []StoresBounded
<1>0. /\ maxReplaceableEventPubkeys \in Nat \ {0} /\ maxAddressableEvents \in Nat \ {0}
      /\ StoreAuthors \subseteq Keys /\ Addresses \subseteq Keys
  BY StoreAssumption DEF Keys
<1>1. now = 0 /\ StoreInit => BoundedInv
  <2> SUFFICES ASSUME now = 0, StoreInit PROVE BoundedInv
    OBVIOUS
  <2>1. \A max \in Nat : Bounded({}, <<>>, max, 0)
    <3>1. Stale({}, <<>>) = {}
      BY DEF Stale, KeysOf
    <3>2. IsFiniteSet({}) /\ Cardinality({}) = 0
      BY FS_EmptySet
    <3>3. QED
      BY <3>1, <3>2 DEF Bounded
  <2>2. /\ DOMAIN replaceableEvents = {} /\ DOMAIN addressableEvents = {}
        /\ replaceableEventAccessTimes = <<>> /\ addressableEventAccessTimes = <<>>
        /\ replaceableUnknownReads = 0 /\ addressableUnknownReads = 0
    BY DEF StoreInit
  <2>3. QED
    BY <1>0, <2>1, <2>2 DEF BoundedInv
<1>2. BoundedInv /\ [Next]_vars => BoundedInv'
  <2> SUFFICES ASSUME BoundedInv, [Next]_vars PROVE BoundedInv'
    OBVIOUS
  <2>. DEFINE Waits == UNCHANGED storeVars /\ now' \in {now, now + 1}
  <2>8. ReplaceableNext \/ AddressableNext \/ Waits
    <3>1. ReplaceableNext \/ AddressableNext \/ UNCHANGED storeVars
      BY DEF Next, vars
    <3>2. QED
      BY <3>1, ClockAdvances
  <2>0. now \in Nat
    BY DEF BoundedInv
  <2>1. CASE now' = now + 1 /\ UNCHANGED storeVars
    <3>1. ASSUME NEW times \in Seq(Access), NEW i \in DOMAIN times, times[i].time <= now
          PROVE  times[i].time <= now + 1
      <4>1. times[i] \in Access
        OBVIOUS
      <4>2. times[i].time \in Nat
        BY <4>1 DEF Access
      <4>3. QED
        BY <2>0, <3>1, <4>2
    <3>2. QED
      BY <2>0, <2>1, <3>1 DEF BoundedInv, Bounded, storeVars, replaceable, addressable
  <2>2. CASE UNCHANGED <<now, storeVars>>
    BY <2>2 DEF BoundedInv, Bounded, storeVars, replaceable, addressable
  <2>3. ASSUME NEW p \in StoreAuthors, getLatestReplaceableEvent(p) PROVE BoundedInv'
    <3>1. Bounded(DOMAIN replaceableEvents, Touch(replaceableEventAccessTimes, p),
                  maxReplaceableEventPubkeys, replaceableUnknownReads')
      BY <1>0, <2>0, <2>3, ReadBounded DEF BoundedInv, getLatestReplaceableEvent
    <3>2. QED
      BY <2>3, <3>1 DEF BoundedInv, Bounded, getLatestReplaceableEvent, addressable
  <2>4. ASSUME NEW a \in Addresses, getLatestAddressableEvent(a) PROVE BoundedInv'
    <3>1. Bounded(DOMAIN addressableEvents, Touch(addressableEventAccessTimes, a),
                  maxAddressableEvents, addressableUnknownReads')
      BY <1>0, <2>0, <2>4, ReadBounded DEF BoundedInv, getLatestAddressableEvent
    <3>2. QED
      BY <2>4, <3>1 DEF BoundedInv, Bounded, getLatestAddressableEvent, replaceable
  <2>5. ASSUME NEW p \in StoreAuthors, NEW k \in StoreKinds, NEW e \in StoredEvent,
               processReplaceableEvent(p, k, e)
        PROVE  BoundedInv'
    <3> DEFINE times == Touch(replaceableEventAccessTimes, p)
               evicted == Evicted(replaceableEvents, times, p, maxReplaceableEventPubkeys)
               keys == (DOMAIN replaceableEvents \ evicted) \cup {p}
    <3>1. Bounded(keys, Forget(times, evicted), maxReplaceableEventPubkeys, replaceableUnknownReads)
      BY <1>0, <2>0, ProcessBounded DEF BoundedInv
    <3>2. /\ replaceableEventAccessTimes' = Forget(times, evicted)
          /\ UNCHANGED <<replaceableUnknownReads, addressable, now>>
          /\ DOMAIN replaceableEvents' = keys
      BY <2>5 DEF processReplaceableEvent, Put, Delete
    <3>3. keys \subseteq StoreAuthors
      BY DEF BoundedInv
    <3> HIDE DEF keys, times, evicted
    <3>4. QED
      BY <3>1, <3>2, <3>3 DEF BoundedInv, Bounded, addressable
  <2>6. ASSUME NEW a \in Addresses, NEW e \in StoredEvent, processAddressableEvent(a, e)
        PROVE  BoundedInv'
    <3> DEFINE times == Touch(addressableEventAccessTimes, a)
               evicted == Evicted(addressableEvents, times, a, maxAddressableEvents)
               keys == (DOMAIN addressableEvents \ evicted) \cup {a}
    <3>1. Bounded(keys, Forget(times, evicted), maxAddressableEvents, addressableUnknownReads)
      BY <1>0, <2>0, ProcessBounded DEF BoundedInv
    <3>2. /\ addressableEventAccessTimes' = Forget(times, evicted)
          /\ UNCHANGED <<addressableUnknownReads, replaceable, now>>
          /\ DOMAIN addressableEvents' = keys
      <4>1. a \in keys
        OBVIOUS
      <4>2. QED
        BY <2>6 DEF processAddressableEvent, Put, Delete
    <3>3. keys \subseteq Addresses
      BY DEF BoundedInv
    <3> HIDE DEF keys, times, evicted
    <3>4. QED
      BY <3>1, <3>2, <3>3 DEF BoundedInv, Bounded, replaceable
  <2>7. QED
    BY <2>1, <2>2, <2>3, <2>4, <2>5, <2>6, <2>8 DEF ReplaceableNext, AddressableNext, Tick
<1>3. BoundedInv => StoresBounded
  <2>1. ASSUME NEW keys, NEW times, NEW max \in Nat, NEW reads, Bounded(keys, times, max, reads)
        PROVE  Cardinality(keys) <= max + reads
    <3>1. /\ Cardinality(keys) \in Nat /\ Cardinality(Stale(keys, times)) \in Nat /\ reads \in Nat
          /\ Cardinality(keys) + Cardinality(Stale(keys, times)) <= max + reads
      BY <2>1, FS_CardinalityType DEF Bounded
    <3>2. QED
      BY <3>1
  <2>2. QED
    BY <1>0, <2>1 DEF BoundedInv, StoresBounded
<1>4. Init => BoundedInv
  BY <1>1 DEF Init
<1>5. QED
  BY <1>2, <1>3, <1>4, PTL DEF Spec

-----------------------------------------------------------------------------
\* The cache of relay information: its entry and the fetches in progress are dated
\* no later than their answers.

Fetching == [stage : {"idle", "asked", "answered"}, useCache : BOOLEAN, started : Nat, at : Nat]
CacheEntry == [ok : BOOLEAN, at : Nat, timestamp : Int]

\* Times are numbers; the clock is ahead of everything that has happened.
InfoTypeOK ==
  /\ now \in Nat
  /\ relayInfoCache \in CacheEntry
  /\ fetching \in [Fetches -> Fetching]
  /\ servedAge \in Int

\* What was fetched began before it was answered, and nothing is from the future.
DatedBefore ==
  /\ relayInfoCache.timestamp <= relayInfoCache.at
  /\ \A f \in Fetches :
       /\ fetching[f].started <= now
       /\ fetching[f].stage = "answered" => fetching[f].started <= fetching[f].at

InfoInv == InfoTypeOK /\ DatedBefore /\ ServedIsFresh

\* The invariant holds at the start, where nothing is cached.
LEMMA InfoInitially == now = 0 /\ InfoInit => InfoInv
  BY CacheAssumption
     DEF InfoInit, InfoInv, InfoTypeOK, DatedBefore, ServedIsFresh, NotCached, Idle, Fetching,
         CacheEntry

\* The end of a fetch dates the entry by its beginning, before the answer.
LEMMA FinishKeeps ==
  ASSUME InfoInv, NEW f \in Fetches, NEW ok \in BOOLEAN, NEW at \in Nat,
         fetching[f].started <= at, Finish(f, ok, at), UNCHANGED now
  PROVE  InfoInv'
<1> USE DEF InfoInv, InfoTypeOK, CacheEntry, Fetching
<1>1. fetching' \in [Fetches -> Fetching]
  BY DEF Finish, Idle
<1>2. \A g \in Fetches : fetching'[g] = IF g = f THEN Idle ELSE fetching[g]
  BY DEF Finish
<1>3. relayInfoCache' \in CacheEntry /\ relayInfoCache'.timestamp <= relayInfoCache'.at
  BY DEF Finish, storedTimestamp, DatedBefore
<1>4. DatedBefore'
  BY <1>2, <1>3 DEF DatedBefore, Idle
<1>5. QED
  BY <1>1, <1>3, <1>4 DEF Finish, ServedIsFresh

\* Every step of the cache and every tick of the clock keeps it.
LEMMA InfoStep == InfoInv /\ [Next]_vars => InfoInv'
<1> SUFFICES ASSUME InfoInv, [Next]_vars PROVE InfoInv'
  OBVIOUS
<1>0. InfoNext \/ (UNCHANGED infoVars /\ now' \in {now, now + 1})
  <2>1. InfoNext \/ UNCHANGED infoVars
    BY DEF Next, vars, groups
  <2>2. QED
    BY <2>1, ClockAdvances
<1> USE DEF InfoInv, InfoTypeOK, DatedBefore, ServedIsFresh, CacheEntry, Fetching
<1>1. CASE now' = now + 1 /\ UNCHANGED infoVars
  BY <1>1 DEF infoVars
<1>2. CASE UNCHANGED now /\ ServeFromCache
  BY <1>2, CacheAssumption DEF ServeFromCache, Cached
<1>3. ASSUME NEW f \in Fetches, NEW useCache \in BOOLEAN, UNCHANGED now, StartFetch(f, useCache)
      PROVE  InfoInv'
  BY <1>3 DEF StartFetch
<1>4. ASSUME NEW f \in Fetches, UNCHANGED now, ResponseOk(f)
      PROVE  InfoInv'
  BY <1>4 DEF ResponseOk
<1>5. ASSUME NEW f \in Fetches, UNCHANGED now, ResponseNotOk(f)
      PROVE  InfoInv'
  BY <1>5, FinishKeeps DEF ResponseNotOk
<1>6. ASSUME NEW f \in Fetches, UNCHANGED now, Body(f)
      PROVE  InfoInv'
  BY <1>6, FinishKeeps DEF Body
<1>7. ASSUME NEW f \in Fetches, UNCHANGED now, FetchFails(f)
      PROVE  InfoInv'
  BY <1>7, FinishKeeps DEF FetchFails
<1>8. CASE UNCHANGED now /\ clearRelayInfoCache
  BY <1>8, CacheAssumption DEF clearRelayInfoCache, NotCached
<1>9. CASE UNCHANGED <<now, infoVars>>
  BY <1>9 DEF infoVars
<1>10. QED
  BY <1>0, <1>1, <1>2, <1>3, <1>4, <1>5, <1>6, <1>7, <1>8, <1>9 DEF InfoNext, Tick

\* An answer served from the cache is never older than the time to live, for any
\* time to live and any number of fetches that overlap, fail or outlive a clearing.
THEOREM InfoFresh == Spec => []ServedIsFresh
<1>1. InfoInv => ServedIsFresh
  BY DEF InfoInv
<1>2. Init => InfoInv
  BY InfoInitially DEF Init
<1>3. QED
  BY <1>1, <1>2, InfoStep, PTL DEF Spec

-----------------------------------------------------------------------------
\* The simple client and bunker: calls that are neither idle nor only wait for an
\* operation.
Underway == \E c \in SimpleCallers : callStage[c] \in {"relays", "connecting", "identifying", "farewell"}

\* The keys for which the client has been granted a session, or asked to end it.
GrantedKeys ==
  {k \in Nat : \E a \in answers :
     a.result = "done" /\ asked[a.id].method = "connect" /\ asked[a.id].key = k}

LeftKeys == {k \in Nat : \E i \in DOMAIN asked : asked[i].method = "disconnect" /\ asked[i].key = k}

Methods == {"connect", "disconnect", "get_public_key"} \cup SimplePermissions

\* Requests that name one of the first keys the client made.
RequestsUpTo(key) == [method : Methods, key : 0 .. key, secret : BOOLEAN]

SimpleTypeOK ==
  /\ signerKnown \in BOOLEAN /\ userKnown \in BOOLEAN /\ listening \in BOOLEAN
  /\ keysMade \in Nat /\ clientKey = keysMade
  /\ asked \in Seq(RequestsUpTo(keysMade))
  /\ callStage \in [SimpleCallers -> {"idle", "relays", "connecting", "identifying", "farewell",
                                      "waiting"}]
  /\ callAwaits \in [SimpleCallers -> 0 .. Len(asked)]
  /\ atRelay \subseteq DOMAIN asked
  /\ answers \subseteq [id : DOMAIN asked, result : {"done", "error"}]

\* What is pending is what calls wait for, each for its own, and none waits for a
\* signer that the client has forgotten.
AwaitsMatch ==
  /\ pendingRequests = {callAwaits[c] : c \in SimpleCallers} \ {0}
  /\ \A c, d \in SimpleCallers : callAwaits[c] = callAwaits[d] /\ callAwaits[c] # 0 => c = d
  /\ \A c \in SimpleCallers :
       /\ callAwaits[c] = 0 <=> callStage[c] \in {"idle", "relays"}
       /\ callAwaits[c] # 0 => signerKnown
       /\ callStage[c] = "connecting" => asked[callAwaits[c]].method = "connect"

\* Whoever is to make the client's state whole again is under way.
ClientWhole ==
  /\ userKnown => signerKnown
  /\ signerKnown => userKnown \/ Underway
  /\ ~signerKnown => subId = 0
  /\ signerKnown => subId = clientKey \/ \E c \in SimpleCallers : callStage[c] = "relays"

\* A session that was granted lasts until the bunker stops or its client asks to
\* end it, and then that client forgets the signer as soon as it has its answer.
SessionsLast ==
  /\ GrantedKeys \subseteq DOMAIN sessionsOf \cup forgotten \cup LeftKeys
  /\ signerKnown /\ clientKey \in LeftKeys => \E c \in SimpleCallers : callStage[c] = "farewell"
  /\ \A c \in SimpleCallers :
       callStage[c] = "identifying" => asked[callAwaits[c]].key \in GrantedKeys
  /\ userKnown => clientKey \in GrantedKeys \/ Underway

SimpleInv == SimpleTypeOK /\ AwaitsMatch /\ ClientWhole /\ SessionsLast

\* A request that is asked leaves the earlier ones and what is known of them.
LEMMA AskedGrows ==
  ASSUME SimpleTypeOK, NEW method \in Methods, NEW secret \in BOOLEAN,
         asked' = Append(asked, [method |-> method, key |-> clientKey, secret |-> secret]),
         UNCHANGED <<answers, keysMade>>
  PROVE  /\ asked' \in Seq(RequestsUpTo(keysMade))
         /\ Len(asked') = Len(asked) + 1 /\ Len(asked) \in Nat
         /\ DOMAIN asked = 1 .. Len(asked) /\ DOMAIN asked' = 1 .. Len(asked) + 1
         /\ \A i \in DOMAIN asked : asked'[i] = asked[i]
         /\ asked'[Len(asked) + 1].method = method /\ asked'[Len(asked) + 1].key = clientKey
         /\ GrantedKeys' = GrantedKeys
         /\ LeftKeys' = IF method = "disconnect" THEN LeftKeys \cup {clientKey} ELSE LeftKeys
<1> DEFINE new == [method |-> method, key |-> clientKey, secret |-> secret]
<1>1. asked \in Seq(RequestsUpTo(keysMade)) /\ new \in RequestsUpTo(keysMade)
  BY DEF SimpleTypeOK, RequestsUpTo
<1>2. new.method = method /\ new.key = clientKey
  OBVIOUS
<1> HIDE DEF new
<1>3. /\ asked' \in Seq(RequestsUpTo(keysMade))
      /\ Len(asked') = Len(asked) + 1 /\ Len(asked) \in Nat
      /\ DOMAIN asked = 1 .. Len(asked) /\ DOMAIN asked' = 1 .. Len(asked) + 1
      /\ \A i \in DOMAIN asked : asked'[i] = asked[i]
      /\ asked'[Len(asked) + 1] = new
  <2>1. asked' = Append(asked, new)
    BY DEF new
  <2>2. QED
    BY <1>1, <2>1
<1>4. \A a \in answers : a.id \in DOMAIN asked
  BY DEF SimpleTypeOK
<1>5. GrantedKeys' = GrantedKeys
  BY <1>3, <1>4 DEF GrantedKeys
<1>6. LeftKeys' = IF method = "disconnect" THEN LeftKeys \cup {clientKey} ELSE LeftKeys
  <2>1. DOMAIN asked' = DOMAIN asked \cup {Len(asked) + 1} /\ clientKey \in Nat
    BY <1>3 DEF SimpleTypeOK, RequestsUpTo
  <2>2. QED
    BY <1>2, <1>3, <2>1 DEF LeftKeys
<1>7. QED
  BY <1>2, <1>3, <1>5, <1>6

\* Asking: connect() to be heard and then for the user's key, disconnect() to be
\* forgotten, and operations.
LEMMA RequestKeeps ==
  ASSUME SimpleInv, NEW c \in SimpleCallers, NEW method \in Methods, NEW secret \in BOOLEAN,
         NEW stage \in {"connecting", "identifying", "farewell", "waiting"},
         sendSimpleRequest(c, method, secret, stage),
         signerKnown,
         callStage[c] # "farewell",
         method = "disconnect" => stage = "farewell",
         stage = "connecting" => method = "connect",
         stage = "identifying" => clientKey \in GrantedKeys,
         stage = "waiting" => callStage[c] = "idle",
         callStage[c] = "relays" => subId' = clientKey,
         subId' \in {subId, clientKey}, listening' \in BOOLEAN,
         UNCHANGED <<signerKnown, clientKey, userKnown, keysMade, relayedVars, simpleBunkerVars>>
  PROVE  SimpleInv'
<1> DEFINE id == Len(asked) + 1
<1>1. /\ asked' \in Seq(RequestsUpTo(keysMade))
      /\ Len(asked') = Len(asked) + 1 /\ Len(asked) \in Nat
      /\ DOMAIN asked = 1 .. Len(asked) /\ DOMAIN asked' = 1 .. Len(asked) + 1
      /\ \A i \in DOMAIN asked : asked'[i] = asked[i]
      /\ asked'[Len(asked) + 1].method = method /\ asked'[Len(asked) + 1].key = clientKey
      /\ GrantedKeys' = GrantedKeys
      /\ LeftKeys' = IF method = "disconnect" THEN LeftKeys \cup {clientKey} ELSE LeftKeys
  BY AskedGrows DEF SimpleInv, sendSimpleRequest, relayedVars
<1>2. /\ pendingRequests' = (pendingRequests \ {callAwaits[c]}) \cup {id}
      /\ callStage' = [callStage EXCEPT ![c] = stage]
      /\ callAwaits' = [callAwaits EXCEPT ![c] = id]
  BY DEF sendSimpleRequest
<1>3. SimpleTypeOK /\ AwaitsMatch /\ ClientWhole /\ SessionsLast
  BY DEF SimpleInv
<1>4. /\ callAwaits'[c] = id /\ callStage'[c] = stage
      /\ \A d \in SimpleCallers \ {c} : callAwaits'[d] = callAwaits[d] /\ callStage'[d] = callStage[d]
      /\ \A d \in SimpleCallers : callAwaits[d] \in 0 .. Len(asked)
  BY <1>2, <1>3 DEF SimpleTypeOK
<1>5. SimpleTypeOK'
  <2>1. DOMAIN asked \subseteq DOMAIN asked'
    BY <1>1
  <2>2. callAwaits' \in [SimpleCallers -> 0 .. Len(asked')]
    BY <1>1, <1>2, <1>3 DEF SimpleTypeOK
  <2>3. callStage' \in [SimpleCallers -> {"idle", "relays", "connecting", "identifying", "farewell",
                                          "waiting"}]
    BY <1>2, <1>3 DEF SimpleTypeOK
  <2>4. QED
    BY <1>1, <1>3, <2>1, <2>2, <2>3 DEF SimpleTypeOK, relayedVars
<1>6. AwaitsMatch'
  <2>1. \A d \in SimpleCallers \ {c} : callAwaits[d] # id
    BY <1>1, <1>4
  <2>2. pendingRequests' = {callAwaits'[d] : d \in SimpleCallers} \ {0}
    <3>1. ASSUME NEW x PROVE x \in pendingRequests' => x \in {callAwaits'[d] : d \in SimpleCallers} \ {0}
      <4>1. CASE x = id
        BY <1>1, <1>4, <4>1
      <4>2. CASE x \in pendingRequests /\ x # callAwaits[c]
        BY <1>3, <1>4, <4>2 DEF AwaitsMatch
      <4>3. QED
        BY <1>2, <4>1, <4>2
    <3>2. ASSUME NEW d \in SimpleCallers, callAwaits'[d] # 0 PROVE callAwaits'[d] \in pendingRequests'
      <4>1. CASE d = c
        BY <1>2, <1>4, <4>1
      <4>2. CASE d # c
        BY <1>2, <1>3, <1>4, <3>2, <4>2 DEF AwaitsMatch
      <4>3. QED
        BY <4>1, <4>2
    <3>3. QED
      BY <3>1, <3>2
  <2>3. \A d, e \in SimpleCallers : callAwaits'[d] = callAwaits'[e] /\ callAwaits'[d] # 0 => d = e
    BY <1>3, <1>4, <2>1 DEF AwaitsMatch
  <2>4. ASSUME NEW d \in SimpleCallers
        PROVE  /\ callAwaits'[d] = 0 <=> callStage'[d] \in {"idle", "relays"}
               /\ callAwaits'[d] # 0 => signerKnown'
               /\ callStage'[d] = "connecting" => asked'[callAwaits'[d]].method = "connect"
    <3>1. CASE d = c
      BY <1>1, <1>4, <3>1
    <3>2. CASE d # c
      <4>1. callStage[d] = "connecting" => callAwaits[d] \in DOMAIN asked
        BY <1>1, <1>3, <1>4 DEF AwaitsMatch
      <4>2. QED
        BY <1>1, <1>3, <1>4, <3>2, <4>1 DEF AwaitsMatch
    <3>3. QED
      BY <3>1, <3>2
  <2>5. QED
    BY <2>2, <2>3, <2>4 DEF AwaitsMatch
<1>7. Underway => Underway'
  BY <1>3, <1>4 DEF Underway
<1>8. ClientWhole'
  <2>1. subId' = clientKey \/ \E d \in SimpleCallers : callStage'[d] = "relays"
    BY <1>3, <1>4 DEF ClientWhole
  <2>2. QED
    BY <1>3, <1>7, <2>1 DEF ClientWhole
<1>9. SessionsLast'
  <2>1. GrantedKeys' \subseteq DOMAIN sessionsOf' \cup forgotten' \cup LeftKeys'
    BY <1>1, <1>3 DEF SessionsLast, simpleBunkerVars
  <2>2. clientKey' \in LeftKeys' => \E d \in SimpleCallers : callStage'[d] = "farewell"
    <3>1. CASE method = "disconnect"
      BY <1>4, <3>1
    <3>2. CASE method # "disconnect"
      BY <1>1, <1>3, <1>4, <3>2 DEF SessionsLast
    <3>3. QED
      BY <3>1, <3>2
  <2>3. ASSUME NEW d \in SimpleCallers, callStage'[d] = "identifying"
        PROVE  asked'[callAwaits'[d]].key \in GrantedKeys'
    <3>1. CASE d = c
      BY <1>1, <1>4, <2>3, <3>1
    <3>2. CASE d # c
      <4>1. callAwaits'[d] = callAwaits[d] /\ callStage[d] = "identifying" /\ callAwaits[d] \in DOMAIN asked
        BY <1>1, <1>3, <1>4, <2>3, <3>2 DEF AwaitsMatch
      <4>2. QED
        BY <1>1, <1>3, <4>1 DEF SessionsLast
    <3>3. QED
      BY <3>1, <3>2
  <2>4. userKnown' => clientKey' \in GrantedKeys' \/ Underway'
    BY <1>1, <1>3, <1>7 DEF SessionsLast
  <2>5. QED
    BY <2>1, <2>2, <2>3, <2>4 DEF SessionsLast
<1>10. QED
  BY <1>5, <1>6, <1>8, <1>9 DEF SimpleInv

\* Steps of the client that ask nothing change nothing that is known of requests.
LEMMA NothingAsked ==
  ASSUME UNCHANGED <<asked, answers>>
  PROVE  GrantedKeys' = GrantedKeys /\ LeftKeys' = LeftKeys
BY DEF GrantedKeys, LeftKeys

\* Cleaning up: nobody is left who waits, only calls that connect to the relays.
LEMMA CleanupKeeps ==
  ASSUME SimpleInv, NEW c \in SimpleCallers, simpleCleanup(c),
         UNCHANGED <<relayedVars, simpleBunkerVars>>
  PROVE  SimpleInv'
<1>1. SimpleTypeOK /\ AwaitsMatch /\ ClientWhole /\ SessionsLast
  BY DEF SimpleInv
<1>2. /\ signerKnown' = FALSE /\ userKnown' = FALSE /\ subId' = 0
      /\ listening' = FALSE /\ pendingRequests' = {}
      /\ callStage' \in [SimpleCallers -> {"idle", "relays"}]
      /\ callAwaits' \in [SimpleCallers -> {0}]
      /\ UNCHANGED <<clientKey, keysMade, asked, atRelay, answers, sessionsOf, forgotten>>
  <2>1. \A d \in SimpleCallers : callAwaits[d] \in pendingRequests \/ callAwaits[d] = 0
    BY <1>1 DEF AwaitsMatch
  <2>2. \A d \in SimpleCallers : callAwaits[d] = 0 => callStage[d] \in {"idle", "relays"}
    BY <1>1 DEF AwaitsMatch
  <2>3. QED
    BY <2>1, <2>2 DEF simpleCleanup, relayedVars, simpleBunkerVars
<1>3. GrantedKeys' = GrantedKeys /\ LeftKeys' = LeftKeys
  BY <1>2, NothingAsked
<1>4. SimpleTypeOK'
  <2>1. Len(asked) \in Nat
    BY <1>1 DEF SimpleTypeOK
  <2>2. callAwaits' \in [SimpleCallers -> 0 .. Len(asked)]
    BY <1>2, <2>1
  <2>3. QED
    BY <1>1, <1>2, <2>2 DEF SimpleTypeOK
<1>5. AwaitsMatch'
  BY <1>2 DEF AwaitsMatch
<1>6. ClientWhole'
  BY <1>2 DEF ClientWhole
<1>7. SessionsLast'
  BY <1>1, <1>2, <1>3 DEF SessionsLast
<1>8. QED
  BY <1>4, <1>5, <1>6, <1>7 DEF SimpleInv

\* The call that asked for the user's key has it, if it is about the present key,
\* or an operation is over.
LEMMA EndKeeps ==
  ASSUME SimpleInv, NEW c \in SimpleCallers, callAwaits[c] # 0,
         \/ callStage[c] = "identifying" /\ asked[callAwaits[c]].key = clientKey /\ userKnown' = TRUE
         \/ callStage[c] = "waiting" /\ UNCHANGED userKnown,
         pendingRequests' = pendingRequests \ {callAwaits[c]},
         At(c, "idle"),
         UNCHANGED <<signerKnown, clientKey, subId, keysMade, listening, asked, relayedVars,
                     simpleBunkerVars>>
  PROVE  SimpleInv'
<1>1. SimpleTypeOK /\ AwaitsMatch /\ ClientWhole /\ SessionsLast
  BY DEF SimpleInv
<1>2. /\ callAwaits'[c] = 0 /\ callStage'[c] = "idle"
      /\ \A d \in SimpleCallers \ {c} : callAwaits'[d] = callAwaits[d] /\ callStage'[d] = callStage[d]
      /\ UNCHANGED <<atRelay, answers, sessionsOf, forgotten>>
  BY <1>1 DEF At, SimpleTypeOK, relayedVars, simpleBunkerVars
<1>3. GrantedKeys' = GrantedKeys /\ LeftKeys' = LeftKeys
  BY <1>2, NothingAsked
<1>4. signerKnown /\ (callStage[c] = "identifying" => clientKey \in GrantedKeys)
  BY <1>1 DEF AwaitsMatch, SessionsLast
<1>5. SimpleTypeOK'
  <2>1. Len(asked) \in Nat
    BY <1>1 DEF SimpleTypeOK
  <2>2. /\ callAwaits' \in [SimpleCallers -> 0 .. Len(asked)]
        /\ callStage' \in [SimpleCallers -> {"idle", "relays", "connecting", "identifying", "farewell",
                                            "waiting"}]
    BY <1>1, <2>1 DEF SimpleTypeOK, At
  <2>3. userKnown' \in BOOLEAN
    BY <1>1 DEF SimpleTypeOK
  <2>4. QED
    BY <1>1, <1>2, <2>2, <2>3 DEF SimpleTypeOK
<1>6. AwaitsMatch'
  <2>1. \A d \in SimpleCallers \ {c} : callAwaits[d] # callAwaits[c]
    BY <1>1 DEF AwaitsMatch
  <2>2. pendingRequests' = {callAwaits'[d] : d \in SimpleCallers} \ {0}
    <3>1. ASSUME NEW x \in pendingRequests' PROVE x \in {callAwaits'[d] : d \in SimpleCallers} \ {0}
      BY <1>1, <1>2, <3>1 DEF AwaitsMatch
    <3>2. ASSUME NEW d \in SimpleCallers, callAwaits'[d] # 0 PROVE callAwaits'[d] \in pendingRequests'
      BY <1>1, <1>2, <2>1, <3>2 DEF AwaitsMatch
    <3>3. QED
      BY <3>1, <3>2
  <2>3. \A d, e \in SimpleCallers : callAwaits'[d] = callAwaits'[e] /\ callAwaits'[d] # 0 => d = e
    BY <1>1, <1>2 DEF AwaitsMatch
  <2>4. QED
    BY <1>1, <1>2, <2>2, <2>3 DEF AwaitsMatch
<1>7. ClientWhole'
  <2>1. subId = clientKey \/ \E d \in SimpleCallers : callStage'[d] = "relays"
    BY <1>1, <1>2, <1>4 DEF ClientWhole
  <2>2. userKnown' \/ Underway'
    BY <1>1, <1>2, <1>4 DEF ClientWhole, Underway
  <2>3. QED
    BY <1>1, <1>2, <1>4, <2>1, <2>2 DEF ClientWhole
<1>8. SessionsLast'
  <2>1. userKnown' => clientKey \in GrantedKeys \/ Underway'
    BY <1>1, <1>2, <1>4 DEF SessionsLast, Underway
  <2>2. clientKey \in LeftKeys => \E d \in SimpleCallers : callStage'[d] = "farewell"
    BY <1>1, <1>2, <1>4 DEF SessionsLast
  <2>3. QED
    BY <1>1, <1>2, <1>3, <2>1, <2>2 DEF SessionsLast
<1>9. QED
  BY <1>5, <1>6, <1>7, <1>8 DEF SimpleInv

\* connect() makes a key about which nobody has asked anything.
LEMMA ConnectKeeps ==
  ASSUME SimpleInv, NEW c \in SimpleCallers, callStage[c] = "idle",
         signerKnown' = TRUE, clientKey' = keysMade + 1, keysMade' = keysMade + 1, listening' = FALSE,
         At(c, "relays"),
         UNCHANGED <<userKnown, subId, pendingRequests, asked, relayedVars, simpleBunkerVars>>
  PROVE  SimpleInv'
<1>1. SimpleTypeOK /\ AwaitsMatch /\ ClientWhole /\ SessionsLast
  BY DEF SimpleInv
<1>2. /\ callAwaits[c] = 0 /\ callAwaits' = callAwaits
      /\ callStage' = [callStage EXCEPT ![c] = "relays"] /\ callStage'[c] = "relays"
      /\ \A d \in SimpleCallers \ {c} : callStage'[d] = callStage[d]
      /\ UNCHANGED <<atRelay, answers, sessionsOf, forgotten>>
  BY <1>1 DEF At, SimpleTypeOK, AwaitsMatch, relayedVars, simpleBunkerVars
<1>3. GrantedKeys' = GrantedKeys /\ LeftKeys' = LeftKeys
  BY <1>2, NothingAsked
<1>4. SimpleTypeOK'
  <2>1. keysMade' \in Nat /\ RequestsUpTo(keysMade) \subseteq RequestsUpTo(keysMade')
    BY <1>1 DEF SimpleTypeOK, RequestsUpTo
  <2>2. asked' \in Seq(RequestsUpTo(keysMade'))
    BY <1>1, <2>1 DEF SimpleTypeOK
  <2>3. QED
    BY <1>1, <1>2, <2>1, <2>2 DEF SimpleTypeOK
<1>5. AwaitsMatch'
  BY <1>1, <1>2 DEF AwaitsMatch
<1>6. Underway' /\ \E d \in SimpleCallers : callStage'[d] = "relays"
  BY <1>2 DEF Underway
<1>7. ClientWhole'
  BY <1>6 DEF ClientWhole
<1>8. SessionsLast'
  <2>1. \A i \in DOMAIN asked : asked[i].key # clientKey'
    <3>1. \A i \in DOMAIN asked : asked[i] \in RequestsUpTo(keysMade)
      BY <1>1 DEF SimpleTypeOK
    <3>2. \A r \in RequestsUpTo(keysMade) : r.key # keysMade + 1
      BY <1>1 DEF SimpleTypeOK, RequestsUpTo
    <3>3. QED
      BY <3>1, <3>2
  <2>2. clientKey' \notin LeftKeys
    BY <2>1 DEF LeftKeys
  <2>3. QED
    BY <1>1, <1>2, <1>3, <1>6, <2>2 DEF SessionsLast
<1>9. QED
  BY <1>4, <1>5, <1>7, <1>8 DEF SimpleInv

-----------------------------------------------------------------------------
\* The steps of the client.

LEMMA LeaveKeeps ==
  ASSUME SimpleInv, NEW c \in SimpleCallers, callStage[c] = "idle", leave(c),
         UNCHANGED <<relayedVars, simpleBunkerVars>>
  PROVE  SimpleInv'
<1>1. CASE signerKnown /\ clientKey # 0
  <2>1. /\ sendSimpleRequest(c, "disconnect", FALSE, "farewell")
        /\ UNCHANGED <<signerKnown, clientKey, userKnown, subId, keysMade, listening>>
    BY <1>1 DEF leave
  <2>2. "disconnect" \in Methods /\ listening \in BOOLEAN
    BY DEF Methods, SimpleInv, SimpleTypeOK
  <2>3. QED
    BY <1>1, <2>1, <2>2, RequestKeeps
<1>2. CASE ~(signerKnown /\ clientKey # 0)
  BY <1>2, CleanupKeeps DEF leave
<1>3. QED
  BY <1>1, <1>2

LEMMA RelaysSettledKeeps ==
  ASSUME SimpleInv, NEW c \in SimpleCallers, relaysSettled(c)
  PROVE  SimpleInv'
<1>1. CASE signerKnown
  <2>1. PICK secret \in BOOLEAN : sendSimpleRequest(c, "connect", secret, "connecting")
    BY <1>1 DEF relaysSettled
  <2>2. "connect" \in Methods /\ listening' \in BOOLEAN
    BY <1>1 DEF Methods, SimpleInv, SimpleTypeOK, relaysSettled
  <2>3. /\ callStage[c] = "relays" /\ subId' = clientKey
        /\ UNCHANGED <<signerKnown, clientKey, userKnown, keysMade, relayedVars, simpleBunkerVars>>
    BY <1>1 DEF relaysSettled
  <2>4. QED
    BY <1>1, <2>1, <2>2, <2>3, RequestKeeps
<1>2. CASE ~signerKnown
  BY <1>2, CleanupKeeps DEF relaysSettled
<1>3. QED
  BY <1>1, <1>2

\* ok: an answer, not of an error, to a request of the present key.
LEMMA SettledCallKeeps ==
  ASSUME SimpleInv, NEW id \in pendingRequests, NEW ok \in BOOLEAN, settleSimple(id, ok),
         ok => /\ [id |-> id, result |-> "done"] \in answers
               /\ asked[id].key = clientKey,
         UNCHANGED <<relayedVars, simpleBunkerVars>>
  PROVE  SimpleInv'
<1>1. SimpleTypeOK /\ AwaitsMatch
  BY DEF SimpleInv
<1>2. PICK c \in SimpleCallers :
        /\ callAwaits[c] = id
        /\ \/ /\ callStage[c] = "farewell"
              /\ simpleCleanup(c)
           \/ /\ callStage[c] \in {"connecting", "identifying"} /\ ~ok
              /\ IF signerKnown
                 THEN /\ sendSimpleRequest(c, "disconnect", FALSE, "farewell")
                      /\ UNCHANGED <<signerKnown, clientKey, userKnown, subId, keysMade, listening>>
                 ELSE simpleCleanup(c)
           \/ /\ callStage[c] = "connecting" /\ ok
              /\ sendSimpleRequest(c, "get_public_key", FALSE, "identifying")
              /\ UNCHANGED <<signerKnown, clientKey, userKnown, subId, keysMade, listening>>
           \/ /\ \/ callStage[c] = "identifying" /\ ok /\ userKnown' = TRUE
                 \/ callStage[c] = "waiting" /\ UNCHANGED userKnown
              /\ pendingRequests' = pendingRequests \ {id}
              /\ At(c, "idle")
              /\ UNCHANGED <<signerKnown, clientKey, subId, keysMade, listening, asked>>
  BY DEF settleSimple
<1>3. id # 0 /\ signerKnown
  BY <1>1, <1>2 DEF AwaitsMatch
<1>4. {"disconnect", "get_public_key"} \subseteq Methods /\ listening \in BOOLEAN
  BY <1>1 DEF Methods, SimpleTypeOK
<1>5. CASE callStage[c] = "farewell" /\ simpleCleanup(c)
  BY <1>5, CleanupKeeps
<1>6. CASE /\ callStage[c] \in {"connecting", "identifying"} /\ ~ok
           /\ sendSimpleRequest(c, "disconnect", FALSE, "farewell")
           /\ UNCHANGED <<signerKnown, clientKey, userKnown, subId, keysMade, listening>>
  BY <1>3, <1>4, <1>6, RequestKeeps
<1>7. CASE /\ callStage[c] = "connecting" /\ ok
           /\ sendSimpleRequest(c, "get_public_key", FALSE, "identifying")
           /\ UNCHANGED <<signerKnown, clientKey, userKnown, subId, keysMade, listening>>
  <2>1. asked[id].method = "connect"
    BY <1>1, <1>2, <1>7 DEF AwaitsMatch
  <2>2. clientKey \in GrantedKeys
    <3>1. clientKey \in Nat
      BY <1>1 DEF SimpleTypeOK
    <3>2. QED
      BY <1>7, <2>1, <3>1 DEF GrantedKeys
  <2>3. QED
    BY <1>3, <1>4, <1>7, <2>2, RequestKeeps
<1>8. CASE /\ \/ callStage[c] = "identifying" /\ ok /\ userKnown' = TRUE
              \/ callStage[c] = "waiting" /\ UNCHANGED userKnown
           /\ pendingRequests' = pendingRequests \ {id}
           /\ At(c, "idle")
           /\ UNCHANGED <<signerKnown, clientKey, subId, keysMade, listening, asked>>
  BY <1>2, <1>3, <1>8, EndKeeps
<1>9. QED
  BY <1>2, <1>3, <1>5, <1>6, <1>7, <1>8

-----------------------------------------------------------------------------
\* The steps of the bunker and of the relay.

\* Whatever is answered and whichever sessions there are: none is lost without a
\* farewell of its client or a stop.
LEMMA BunkerKeeps ==
  ASSUME SimpleInv, UNCHANGED <<simpleClientVars, asked>>,
         atRelay' \subseteq DOMAIN asked,
         answers' \subseteq [id : DOMAIN asked, result : {"done", "error"}], answers \subseteq answers',
         GrantedKeys' \subseteq DOMAIN sessionsOf' \cup forgotten' \cup LeftKeys
  PROVE  SimpleInv'
<1>1. SimpleTypeOK /\ AwaitsMatch /\ ClientWhole /\ SessionsLast
  BY DEF SimpleInv
<1>2. UNCHANGED <<signerKnown, clientKey, userKnown, subId, pendingRequests, callStage, callAwaits,
                  keysMade, listening, asked>>
  BY DEF simpleClientVars
<1>3. GrantedKeys \subseteq GrantedKeys' /\ LeftKeys' = LeftKeys
  BY <1>2 DEF GrantedKeys, LeftKeys
<1>4. SimpleTypeOK'
  BY <1>1, <1>2 DEF SimpleTypeOK
<1>5. AwaitsMatch' /\ ClientWhole' /\ Underway' = Underway
  BY <1>1, <1>2 DEF AwaitsMatch, ClientWhole, Underway
<1>6. SessionsLast'
  BY <1>1, <1>2, <1>3, <1>5 DEF SessionsLast
<1>7. QED
  BY <1>4, <1>5, <1>6 DEF SimpleInv

LEMMA SimpleRequestKeeps ==
  ASSUME SimpleInv, NEW id \in DOMAIN asked, handleSimpleRequest(id)
  PROVE  SimpleInv'
<1> DEFINE key == asked[id].key
           method == asked[id].method
<1>1. SimpleTypeOK /\ SessionsLast
  BY DEF SimpleInv
<1>2. UNCHANGED <<simpleClientVars, asked, atRelay, forgotten>>
  BY DEF handleSimpleRequest
<1>3. key \in Nat
  <2>1. asked[id] \in RequestsUpTo(keysMade)
    BY <1>1 DEF SimpleTypeOK
  <2>2. \A r \in RequestsUpTo(keysMade) : r.key \in Nat
    BY <1>1 DEF SimpleTypeOK, RequestsUpTo
  <2>3. QED
    BY <2>1, <2>2
<1>4. PICK outcome \in {"done", "error"} :
        /\ answers' = answers \cup {[id |-> id, result |-> outcome]}
        /\ \/ DOMAIN sessionsOf' = DOMAIN sessionsOf \cup {key}
           \/ DOMAIN sessionsOf' = DOMAIN sessionsOf \ {key} /\ method = "disconnect"
           \/ UNCHANGED sessionsOf /\ (outcome = "error" \/ method # "connect")
  <2>1. CASE method = "connect" /\ handleConnect(id, key)
    <3>1. CASE asked[id].secret
      BY <2>1, <3>1 DEF handleConnect, sendResponse
    <3>2. CASE ~asked[id].secret
      BY <2>1, <3>2 DEF handleConnect, sendResponse
    <3>3. QED
      BY <3>1, <3>2
  <2>2. CASE method = "disconnect" /\ handleDisconnect(id, key)
    BY <2>2 DEF handleDisconnect, sendResponse
  <2>3. CASE /\ method \notin {"connect", "disconnect"}
             /\ UNCHANGED sessionsOf
             /\ sendResponse(id, "done") \/ sendResponse(id, "error")
    BY <2>3 DEF sendResponse
  <2>4. QED
    BY <2>1, <2>2, <2>3 DEF handleSimpleRequest
<1>5. GrantedKeys' \subseteq IF outcome = "done" /\ method = "connect" THEN GrantedKeys \cup {key}
                                                                   ELSE GrantedKeys
  BY <1>2, <1>4 DEF GrantedKeys
<1>6. method = "disconnect" => key \in LeftKeys
  BY <1>3 DEF LeftKeys
<1>7. GrantedKeys' \subseteq DOMAIN sessionsOf' \cup forgotten' \cup LeftKeys
  <2> HIDE DEF key, method
  <2>1. GrantedKeys \subseteq DOMAIN sessionsOf \cup forgotten \cup LeftKeys /\ forgotten' = forgotten
    BY <1>1, <1>2 DEF SessionsLast
  <2>2. QED
    BY <1>4, <1>5, <1>6, <2>1
<1>8. /\ answers \subseteq answers'
      /\ answers' \subseteq [id : DOMAIN asked, result : {"done", "error"}]
      /\ atRelay' \subseteq DOMAIN asked
  BY <1>1, <1>2, <1>4 DEF SimpleTypeOK
<1>9. QED
  BY <1>2, <1>7, <1>8, BunkerKeeps

\* Answers that arrive, farewells that are late, stops and lost connections: every
\* step keeps the invariant.
LEMMA SimpleStep ==
  ASSUME SimpleInv, [SimpleNext]_simpleVars
  PROVE  SimpleInv'
<1>1. SimpleTypeOK /\ AwaitsMatch /\ SessionsLast
  BY DEF SimpleInv
<1>2. ASSUME NEW c \in SimpleCallers, connectSimple(c) PROVE SimpleInv'
  <2>1. CASE leave(c)
    BY <1>2, <2>1, LeaveKeeps DEF connectSimple
  <2>2. CASE ~leave(c)
    BY <1>2, <2>2, ConnectKeeps DEF connectSimple, generatedKey
  <2>3. QED
    BY <2>1, <2>2
<1>3. ASSUME NEW c \in SimpleCallers, disconnectSimple(c) PROVE SimpleInv'
  BY <1>3, LeaveKeeps DEF disconnectSimple
<1>4. ASSUME NEW c \in SimpleCallers, NEW method \in SimplePermissions, requestSimple(c, method)
      PROVE  SimpleInv'
  <2>1. method \in Methods /\ method \notin {"connect", "disconnect"} /\ listening \in BOOLEAN
    BY <1>1, SimpleAssumption DEF Methods, SimpleTypeOK
  <2>2. QED
    BY <1>4, <2>1, RequestKeeps DEF requestSimple
<1>5. ASSUME NEW answer \in answers, handleSimpleResponse(answer) PROVE SimpleInv'
  <2>1. answer \in [id : DOMAIN asked, result : {"done", "error"}]
    BY <1>1 DEF SimpleTypeOK
  <2>2. answer.result # "error" => [id |-> answer.id, result |-> "done"] = answer
    BY <2>1
  <2>3. (answer.result # "error") \in BOOLEAN
    OBVIOUS
  <2>4. QED
    BY <1>5, <2>2, <2>3, SettledCallKeeps DEF handleSimpleResponse
<1>6. ASSUME NEW id \in DOMAIN asked, simpleTimeout(id) PROVE SimpleInv'
  BY <1>6, SettledCallKeeps DEF simpleTimeout
<1>7. ASSUME NEW id \in DOMAIN asked, reachesRelay(id) PROVE SimpleInv'
  <2>1. UNCHANGED <<simpleClientVars, asked, answers, sessionsOf, forgotten>>
    BY <1>7 DEF reachesRelay, simpleBunkerVars
  <2>2. GrantedKeys' = GrantedKeys
    BY <2>1, NothingAsked
  <2>3. QED
    BY <1>1, <1>7, <2>1, <2>2, BunkerKeeps DEF reachesRelay, SimpleTypeOK, SessionsLast
<1>8. CASE simpleRelayLost
  <2>1. /\ UNCHANGED <<signerKnown, clientKey, userKnown, subId, pendingRequests, callStage, callAwaits,
                       keysMade, asked, atRelay, answers, sessionsOf, forgotten>>
        /\ listening' = FALSE
    BY <1>8 DEF simpleRelayLost, relayedVars, simpleBunkerVars
  <2>2. GrantedKeys' = GrantedKeys /\ LeftKeys' = LeftKeys /\ Underway' = Underway
    BY <2>1, NothingAsked DEF Underway
  <2>3. QED
    BY <2>1, <2>2 DEF SimpleInv, SimpleTypeOK, AwaitsMatch, ClientWhole, SessionsLast
<1>9. CASE startSimple
  <2>1. UNCHANGED <<simpleClientVars, asked, atRelay, answers, sessionsOf, forgotten>>
    BY <1>9 DEF startSimple, relayedVars
  <2>2. GrantedKeys' = GrantedKeys
    BY <2>1, NothingAsked
  <2>3. QED
    BY <1>1, <2>1, <2>2, BunkerKeeps DEF SimpleTypeOK, SessionsLast
<1>10. CASE stopSimple
  <2>1. /\ UNCHANGED <<simpleClientVars, asked, atRelay, answers>>
        /\ forgotten' = forgotten \cup DOMAIN sessionsOf
    BY <1>10 DEF stopSimple, relayedVars
  <2>2. GrantedKeys' = GrantedKeys
    BY <2>1, NothingAsked
  <2>3. QED
    BY <1>1, <2>1, <2>2, BunkerKeeps DEF SimpleTypeOK, SessionsLast
<1>11. ASSUME NEW key, NEW permission, setClientPermission(key, permission) PROVE SimpleInv'
  <2>1. /\ UNCHANGED <<simpleClientVars, asked, atRelay, answers, forgotten>>
        /\ DOMAIN sessionsOf' = DOMAIN sessionsOf
    BY <1>11 DEF setClientPermission, relayedVars
  <2>2. GrantedKeys' = GrantedKeys
    BY <2>1, NothingAsked
  <2>3. QED
    BY <1>1, <2>1, <2>2, BunkerKeeps DEF SimpleTypeOK, SessionsLast
<1>12. CASE UNCHANGED simpleVars
  <2>1. UNCHANGED <<simpleClientVars, asked, atRelay, answers, sessionsOf, forgotten>>
    BY <1>12 DEF simpleVars, relayedVars, simpleBunkerVars
  <2>2. GrantedKeys' = GrantedKeys
    BY <2>1, NothingAsked
  <2>3. QED
    BY <1>1, <2>1, <2>2, BunkerKeeps DEF SimpleTypeOK, SessionsLast
<1>13. QED
  BY <1>2, <1>3, <1>4, <1>5, <1>6, <1>7, <1>8, <1>9, <1>10, <1>11, <1>12, SimpleRequestKeeps,
     RelaysSettledKeeps DEF SimpleNext

LEMMA SimpleInitially == SimpleInit => SimpleInv
<1> SUFFICES ASSUME SimpleInit PROVE SimpleInv
  OBVIOUS
<1>1. GrantedKeys = {} /\ ~signerKnown /\ ~userKnown
  BY DEF SimpleInit, GrantedKeys
<1>2. SimpleTypeOK
  <2>1. asked = <<>> /\ Len(asked) = 0 /\ DOMAIN asked = {}
    BY DEF SimpleInit
  <2>2. asked \in Seq(RequestsUpTo(keysMade))
    BY <2>1
  <2>3. callAwaits \in [SimpleCallers -> 0 .. Len(asked)]
    BY <2>1 DEF SimpleInit
  <2>4. callStage \in [SimpleCallers -> {"idle", "relays", "connecting", "identifying", "farewell",
                                        "waiting"}]
    BY DEF SimpleInit
  <2>5. QED
    BY <2>1, <2>2, <2>3, <2>4 DEF SimpleInit, SimpleTypeOK
<1>3. AwaitsMatch /\ ClientWhole /\ SessionsLast
  BY <1>1 DEF SimpleInit, AwaitsMatch, ClientWhole, SessionsLast
<1>4. QED
  BY <1>2, <1>3 DEF SimpleInv

\* Between calls nobody is under way, so nobody is to make whole what is not.
LEMMA SimpleInvSuffices == SimpleInv => ConnectedHasSession
<1> SUFFICES ASSUME SimpleInv, \A c \in SimpleCallers : callStage[c] \in {"idle", "waiting"}
             PROVE  /\ userKnown <=> signerKnown
                    /\ subId = IF signerKnown THEN clientKey ELSE 0
                    /\ userKnown => clientKey \in DOMAIN sessionsOf \cup forgotten
  BY DEF ConnectedHasSession, SimpleInv, AwaitsMatch
<1>1. ~Underway
  BY DEF Underway
<1>2. userKnown <=> signerKnown
  BY <1>1 DEF SimpleInv, ClientWhole
<1>3. subId = IF signerKnown THEN clientKey ELSE 0
  BY DEF SimpleInv, ClientWhole
<1>4. userKnown => clientKey \in DOMAIN sessionsOf \cup forgotten
  BY <1>1, <1>2 DEF SimpleInv, SessionsLast
<1>5. QED
  BY <1>2, <1>3, <1>4

\* Between calls the simple client is all connected or all disconnected, with a
\* session of its own, for any number of overlapping calls, keys, stops and late
\* or repeated events.
THEOREM ConnectedAlwaysHasSession == Spec => []ConnectedHasSession
<1>1. Init => SimpleInv
  BY SimpleInitially DEF Init
<1>2. SimpleInv /\ [Next]_vars => SimpleInv'
  <2>1. [Next]_vars => [SimpleNext]_simpleVars
    BY DEF Next, vars, remote
  <2>2. QED
    BY <2>1, SimpleStep
<1>3. QED
  BY <1>1, <1>2, SimpleInvSuffices, PTL DEF Spec

-----------------------------------------------------------------------------
\* Only a collection of zap receipts that waits for its end holds something.
ZapInv ==
  /\ zapCall \in {"idle", "subscribing", "waiting", "resolved", "rejected"}
  /\ zapCall # "waiting" => zapSubs = {} /\ zapOpen = {} /\ ~zapTimer
  /\ ZapsReleased

\* Nothing is held before the call.
LEMMA ZapInitially == ZapInit => ZapInv
  BY DEF ZapInit, ZapInv, ZapsReleased, ZapSettled

\* An EOSE inside or after subscribe(), the timer, a failure: every step keeps it.
LEMMA ZapStep == ZapInv /\ [ZapNext]_zapVars => ZapInv'
<1> SUFFICES ASSUME ZapInv, [ZapNext]_zapVars PROVE ZapInv'
  OBVIOUS
<1> USE DEF ZapInv, ZapsReleased, ZapSettled
<1>1. CASE CollectZapReceipts
  BY <1>1 DEF CollectZapReceipts
<1>2. CASE ReceiptArrives
  BY <1>2 DEF ReceiptArrives
<1>3. CASE HandleEose
  BY <1>3 DEF HandleEose, SettleZaps, ReleaseSubscriptions
<1>4. CASE SubscribeReturns
  BY <1>4 DEF SubscribeReturns
<1>5. CASE SubscribeFails
  BY <1>5 DEF SubscribeFails
<1>6. CASE ZapTimeout
  BY <1>6 DEF ZapTimeout, SettleZaps, ReleaseSubscriptions
<1>7. CASE ForeignUnsubscribe
  BY <1>7 DEF ForeignUnsubscribe
<1>8. CASE UNCHANGED zapVars
  BY <1>8 DEF zapVars
<1>9. QED
  BY <1>1, <1>2, <1>3, <1>4, <1>5, <1>6, <1>7, <1>8 DEF ZapNext

-----------------------------------------------------------------------------
\* Stages of a management call, and what a call has at each of them.
RpcHasHeader(state) == state.header = NoHeader \/ state.header.event.payload = state.body

RpcWhole(c) ==
  /\ rpc[c].stage \in {"fetching", "reading", "done"} => RpcHasHeader(rpc[c])
  /\ rpc[c].stage = "done" =>
       rpc[c].ok /\ rpc[c].payload.error = "" /\ rpc[c].payload.result = "yes"

ManagementInv ==
  /\ DOMAIN rpc = ManagementCalls
  /\ rpcTimers = {c \in ManagementCalls : rpc[c].stage \in {"fetching", "reading"}}
  /\ \A c \in ManagementCalls : RpcWhole(c)

\* No call has begun.
LEMMA ManagementInitially == ManagementInit => ManagementInv
<1> SUFFICES ASSUME ManagementInit PROVE ManagementInv
  OBVIOUS
<1>1. DOMAIN rpc = ManagementCalls /\ \A c \in ManagementCalls : rpc[c].stage = "idle"
  BY DEF ManagementInit
<1>2. rpcTimers = {}
  BY DEF ManagementInit
<1>3. QED
  BY <1>1, <1>2 DEF ManagementInv, RpcWhole

\* One call goes on, and its timer with it.
LEMMA RpcKeeps ==
  ASSUME ManagementInv, NEW c \in ManagementCalls, NEW state,
         rpc' = [rpc EXCEPT ![c] = state],
         rpcTimers' = IF state.stage \in {"fetching", "reading"} THEN rpcTimers \cup {c}
                                                                 ELSE rpcTimers \ {c},
         state.stage \in {"fetching", "reading", "done"} => RpcHasHeader(state),
         state.stage = "done" => state.ok /\ state.payload.error = "" /\ state.payload.result = "yes"
  PROVE  ManagementInv'
<1>1. DOMAIN rpc' = ManagementCalls /\ \A d \in ManagementCalls : rpc'[d] = IF d = c THEN state ELSE rpc[d]
  BY DEF ManagementInv
<1>2. \A d \in ManagementCalls : RpcWhole(d)'
  BY <1>1 DEF ManagementInv, RpcWhole
<1>3. rpcTimers' = {d \in ManagementCalls : rpc'[d].stage \in {"fetching", "reading"}}
  BY <1>1 DEF ManagementInv
<1>4. QED
  BY <1>1, <1>2, <1>3 DEF ManagementInv

\* Signing, sending, reading and failing, in any order of the calls, keep it.
LEMMA ManagementStep == ManagementInv /\ [ManagementNext]_managementVars => ManagementInv'
<1> SUFFICES ASSUME ManagementInv, [ManagementNext]_managementVars PROVE ManagementInv'
  OBVIOUS
<1>1. rpcTimers = {c \in ManagementCalls : rpc[c].stage \in {"fetching", "reading"}}
  BY DEF ManagementInv
<1>2. \A c \in ManagementCalls : RpcWhole(c)
  BY DEF ManagementInv
<1>3. ASSUME NEW c \in ManagementCalls, NEW request, NEW header,
             Sending(c, request, header), header = NoHeader \/ header.event.payload = request
      PROVE  ManagementInv'
  BY <1>3, RpcKeeps DEF Sending, RpcHasHeader
<1>4. ASSUME NEW c \in ManagementCalls, finally(c, [stage |-> "failed"])
      PROVE  ManagementInv'
  BY <1>4, RpcKeeps DEF finally
<1>5. ASSUME NEW c \in ManagementCalls, rpc[c].stage \notin {"fetching", "reading"},
             rpc' = [rpc EXCEPT ![c] = [stage |-> "failed"]], UNCHANGED rpcTimers
      PROVE  ManagementInv'
  BY <1>1, <1>5, RpcKeeps
<1>6. ASSUME NEW s, setSigner(s) PROVE ManagementInv'
  BY <1>6 DEF setSigner, ManagementInv, RpcWhole, RpcHasHeader
<1>7. ASSUME NEW c \in ManagementCalls, NEW method, NEW params, call(c, method, params)
      PROVE  ManagementInv'
  <2> DEFINE request == [method |-> method, params |-> sanitizeManagementParams(params)]
             signing == [stage |-> "signing", body |-> request, signer |-> managementSigner]
  <2> HIDE DEF request
  <2>1. \/ rpc' = [rpc EXCEPT ![c] = [stage |-> "failed"]] /\ UNCHANGED rpcTimers
        \/ Sending(c, request, NoHeader)
        \/ rpc' = [rpc EXCEPT ![c] = signing] /\ UNCHANGED rpcTimers
    BY <1>7 DEF call, request
  <2>2. rpc[c].stage = "idle"
    BY <1>7 DEF call
  <2>3. CASE rpc' = [rpc EXCEPT ![c] = signing] /\ UNCHANGED rpcTimers
    <3>1. rpcTimers' = rpcTimers \ {c}
      BY <1>1, <2>2, <2>3
    <3>2. signing.stage = "signing"
      OBVIOUS
    <3> HIDE DEF signing
    <3>3. QED
      BY <2>3, <3>1, <3>2, RpcKeeps
  <2>4. QED
    BY <1>3, <1>5, <2>1, <2>2, <2>3
<1>8. ASSUME NEW c \in ManagementCalls, Signed(c) PROVE ManagementInv'
  <2> DEFINE header == [signer |-> rpc[c].signer, event |-> createHttpAuthEventTemplate(rpc[c].body)]
  <2>1. header.event.payload = rpc[c].body
    BY DEF createHttpAuthEventTemplate
  <2>2. rpc[c].stage = "signing"
    BY <1>8 DEF Signed
  <2>3. \/ Sending(c, rpc[c].body, header)
        \/ rpc' = [rpc EXCEPT ![c] = [stage |-> "failed"]] /\ UNCHANGED rpcTimers
    BY <1>8 DEF Signed
  <2> HIDE DEF header
  <2>4. QED
    BY <1>3, <1>5, <2>1, <2>2, <2>3
<1>9. ASSUME NEW c \in ManagementCalls, NEW ok \in BOOLEAN, ResponseArrives(c, ok) PROVE ManagementInv'
  <2> DEFINE state == [stage |-> "reading", body |-> rpc[c].body, header |-> rpc[c].header, ok |-> ok]
  <2>1. rpc' = [rpc EXCEPT ![c] = state] /\ rpc[c].stage = "fetching" /\ UNCHANGED rpcTimers
    BY <1>9 DEF ResponseArrives
  <2>2. state.stage = "reading" /\ RpcHasHeader(state)
    BY <1>2, <2>1 DEF RpcWhole, RpcHasHeader
  <2> HIDE DEF state
  <2>3. rpcTimers' = rpcTimers \cup {c}
    BY <1>1, <2>1
  <2>4. QED
    BY <2>1, <2>2, <2>3, RpcKeeps
<1>10. ASSUME NEW c \in ManagementCalls, NEW payload \in Payloads, BodyArrives(c, payload)
       PROVE  ManagementInv'
  <2> DEFINE state == [stage |-> "done", body |-> rpc[c].body, header |-> rpc[c].header,
                       ok |-> rpc[c].ok, payload |-> payload]
  <2>1. CASE accepts(rpc[c].ok, payload)
    <3>1. rpc' = [rpc EXCEPT ![c] = state] /\ rpc[c].stage = "reading" /\ rpcTimers' = rpcTimers \ {c}
      BY <1>10, <2>1 DEF BodyArrives, finally
    <3>2. state.stage = "done" /\ RpcHasHeader(state) /\ state.ok /\ state.payload = payload
      BY <1>2, <2>1, <3>1 DEF RpcWhole, RpcHasHeader, accepts
    <3>3. payload.error = "" /\ payload.result = "yes"
      BY <2>1 DEF accepts, Payloads
    <3> HIDE DEF state
    <3>4. QED
      BY <3>1, <3>2, <3>3, RpcKeeps
  <2>2. CASE ~accepts(rpc[c].ok, payload)
    BY <1>4, <1>10, <2>2 DEF BodyArrives
  <2>3. QED
    BY <2>1, <2>2
<1>11. ASSUME NEW c \in ManagementCalls, RequestFails(c) \/ ManagementTimeout(c) PROVE ManagementInv'
  BY <1>4, <1>11 DEF RequestFails, ManagementTimeout
<1>12. CASE UNCHANGED managementVars
  BY <1>12 DEF managementVars, ManagementInv, RpcWhole, RpcHasHeader
<1>13. QED
  BY <1>6, <1>7, <1>8, <1>9, <1>10, <1>11, <1>12 DEF ManagementNext

\* It says all that is asked of a call.
LEMMA ManagementInvSuffices == ManagementInv => ManagementEnds
  BY DEF ManagementInv, ManagementEnds, RpcWhole, RpcHasHeader

-----------------------------------------------------------------------------
\* The Nostr class: relays in the map are the relays made for their URLs.
RelayAnswered == UNION {[urls -> BOOLEAN] : urls \in SUBSET FacadeUrls}

CallsSettling ==
  [stage : {"waiting", "over"}, asked : SUBSET FacadeUrls, results : RelayAnswered,
   success : BOOLEAN]

FacadeTypeOK ==
  /\ relayUrls \in Seq(FacadeUrls)
  /\ facadeRelays \in [FacadeUrls -> 0 .. Len(relayUrls)]
  /\ eventCallbacks \subseteq Callbacks
  /\ attached \in Seq([Callbacks -> Nat]) /\ Len(attached) = Len(relayUrls)
  /\ DOMAIN publishes = PublishCalls

\* A call of publishEvent asks finitely many relays and hears from no others.
PublishWhole(p) ==
  p.stage \in {"waiting", "over"} =>
    /\ p \in CallsSettling /\ IsFiniteSet(p.asked) /\ DOMAIN p.results \subseteq p.asked
    /\ p.stage = "over" =>
         /\ DOMAIN p.results = p.asked
         /\ p.success <=> \E u \in p.asked : p.results[u]

MapWhole ==
  \A u \in MappedUrls :
    /\ relayUrls[facadeRelays[u]] = u
    /\ \A c \in eventCallbacks : attached[facadeRelays[u]][c] >= 1

AuthenticationNamed ==
  authentication # NoAuthentication =>
    /\ authentication \in [stage : {"signing", "sent", "failed"}, relay : DOMAIN relayUrls,
                           names : FacadeUrls]
    /\ relayUrls[authentication.relay] = authentication.names

FacadeInv ==
  /\ FacadeTypeOK /\ MapWhole /\ AuthenticationNamed
  /\ \A q \in PublishCalls : PublishWhole(publishes[q])

\* The map is empty and nothing is published.
LEMMA FacadeInitially == FacadeInit => FacadeInv
<1> SUFFICES ASSUME FacadeInit PROVE FacadeInv
  OBVIOUS
<1>1. relayUrls = <<>> /\ attached = <<>> /\ Len(relayUrls) = 0 /\ Len(attached) = 0
  BY DEF FacadeInit
<1>2. facadeRelays = [u \in FacadeUrls |-> 0] /\ MappedUrls = {}
  BY DEF FacadeInit, MappedUrls, NoRelay
<1>3. FacadeTypeOK
  <2>1. relayUrls \in Seq(FacadeUrls) /\ attached \in Seq([Callbacks -> Nat])
    BY <1>1
  <2>2. QED
    BY <1>1, <1>2, <2>1 DEF FacadeTypeOK, FacadeInit
<1>4. \A q \in PublishCalls : publishes[q].stage = "idle"
  BY DEF FacadeInit
<1>5. QED
  BY <1>2, <1>3, <1>4 DEF FacadeInv, MapWhole, AuthenticationNamed, FacadeInit, PublishWhole

\* Relays are made one after the other, so finitely many are in the map.
LEMMA MapFinite == FacadeTypeOK /\ MapWhole => IsFiniteSet(MappedUrls)
<1> SUFFICES ASSUME FacadeTypeOK, MapWhole PROVE IsFiniteSet(MappedUrls)
  OBVIOUS
<1> DEFINE numbers == 1 .. Len(relayUrls)
           made == {relayUrls[r] : r \in numbers}
<1>1. IsFiniteSet(made)
  <2>1. IsFiniteSet(numbers)
    BY FS_Interval DEF FacadeTypeOK
  <2>2. relayUrls \in [numbers -> made]
    BY DEF FacadeTypeOK
  <2>3. \A u \in made : \E r \in numbers : relayUrls[r] = u
    OBVIOUS
  <2> HIDE DEF numbers, made
  <2>4. relayUrls \in Surjection(numbers, made)
    BY <2>2, <2>3 DEF Surjection
  <2>5. QED
    BY <2>1, <2>4, FS_Surjection
<1>2. MappedUrls \subseteq made
  BY DEF MappedUrls, MapWhole, FacadeTypeOK, NoRelay
<1>3. QED
  BY <1>1, <1>2, FS_Subset

\* Relays that come and go between a call and its answers do not disturb it.
LEMMA FacadeStep == FacadeInv /\ [FacadeNext]_facadeVars => FacadeInv'
<1> SUFFICES ASSUME FacadeInv, [FacadeNext]_facadeVars PROVE FacadeInv'
  OBVIOUS
<1>1. FacadeTypeOK /\ MapWhole /\ AuthenticationNamed /\ \A q \in PublishCalls : PublishWhole(publishes[q])
  BY DEF FacadeInv
<1>2. ASSUME NEW u \in FacadeUrls, addFacadeRelay(u) PROVE FacadeInv'
  <2> DEFINE n == Len(relayUrls) + 1
  <2>1. /\ relayUrls' = Append(relayUrls, u) /\ attached' = Append(attached, attachStored)
        /\ UNCHANGED <<eventCallbacks, publishes, authentication>>
    BY <1>2 DEF addFacadeRelay
  <2>2. attachStored \in [Callbacks -> Nat] /\ \A c \in eventCallbacks : attachStored[c] = 1
    BY <1>1 DEF attachStored, FacadeTypeOK
  <2>3. relayUrls \in Seq(FacadeUrls) /\ attached \in Seq([Callbacks -> Nat]) /\ Len(attached) = Len(relayUrls)
    BY <1>1 DEF FacadeTypeOK
  <2>4. /\ relayUrls' \in Seq(FacadeUrls) /\ attached' \in Seq([Callbacks -> Nat])
        /\ Len(attached') = n /\ Len(relayUrls') = n /\ n \in Nat \ {0}
        /\ relayUrls'[n] = u /\ attached'[n] = attachStored
        /\ \A r \in 1 .. Len(relayUrls) : relayUrls'[r] = relayUrls[r] /\ attached'[r] = attached[r]
        /\ DOMAIN relayUrls = 1 .. Len(relayUrls) /\ DOMAIN relayUrls' = 1 .. n
    <3> HIDE DEF n
    <3>1. n = Len(relayUrls) + 1
      BY DEF n
    <3>2. QED
      BY <2>1, <2>2, <2>3, <3>1
  <2>5. facadeRelays' = [facadeRelays EXCEPT ![u] = n]
    BY <1>2, <2>4 DEF addFacadeRelay
  <2>6. \A v \in FacadeUrls : facadeRelays'[v] = IF v = u THEN n ELSE facadeRelays[v]
    BY <1>1, <2>5 DEF FacadeTypeOK
  <2>7. FacadeTypeOK'
    BY <1>1, <2>1, <2>4, <2>5 DEF FacadeTypeOK
  <2>8. MapWhole'
    <3> SUFFICES ASSUME NEW v \in FacadeUrls, facadeRelays'[v] # 0
                 PROVE  /\ relayUrls'[facadeRelays'[v]] = v
                        /\ \A c \in eventCallbacks : attached'[facadeRelays'[v]][c] >= 1
      BY <2>1 DEF MapWhole, MappedUrls, NoRelay
    <3>1. CASE v = u
      BY <2>2, <2>4, <2>6, <3>1
    <3>2. CASE v # u
      <4>1. facadeRelays[v] \in 1 .. Len(relayUrls) /\ v \in MappedUrls
        BY <1>1, <2>6, <3>2 DEF FacadeTypeOK, MappedUrls, NoRelay
      <4>2. QED
        BY <1>1, <2>4, <2>6, <3>2, <4>1 DEF MapWhole
    <3>3. QED
      BY <3>1, <3>2
  <2>9. AuthenticationNamed'
    BY <1>1, <2>1, <2>4 DEF AuthenticationNamed
  <2>10. QED
    BY <1>1, <2>1, <2>7, <2>8, <2>9 DEF FacadeInv
<1>3. ASSUME NEW u \in FacadeUrls, removeFacadeRelay(u) PROVE FacadeInv'
  <2>1. /\ facadeRelays' = [facadeRelays EXCEPT ![u] = 0]
        /\ UNCHANGED <<relayUrls, eventCallbacks, attached, publishes, authentication>>
    BY <1>3 DEF removeFacadeRelay, NoRelay
  <2>2. FacadeTypeOK'
    BY <1>1, <2>1 DEF FacadeTypeOK
  <2>3. MapWhole'
    BY <1>1, <2>1 DEF MapWhole, MappedUrls, FacadeTypeOK, NoRelay
  <2>4. QED
    BY <1>1, <2>1, <2>2, <2>3 DEF FacadeInv, AuthenticationNamed
<1>4. ASSUME NEW c \in Callbacks, on(c) PROVE FacadeInv'
  <2>1. /\ eventCallbacks' = eventCallbacks \cup {c}
        /\ UNCHANGED <<facadeRelays, relayUrls, publishes, authentication>>
        /\ attached' = [r \in DOMAIN attached |->
                    IF facadeRelays[relayUrls[r]] = r THEN [attached[r] EXCEPT ![c] = @ + 1]
                                                      ELSE attached[r]]
    BY <1>4 DEF on
  <2>2. attached \in Seq([Callbacks -> Nat]) /\ DOMAIN attached = 1 .. Len(relayUrls) /\ Len(relayUrls) \in Nat
    BY <1>1 DEF FacadeTypeOK
  <2>3. \A r \in 1 .. Len(relayUrls) :
          /\ attached[r] \in [Callbacks -> Nat] /\ attached'[r] \in [Callbacks -> Nat]
          /\ \A d \in Callbacks : attached'[r][d] >= attached[r][d]
          /\ facadeRelays[relayUrls[r]] = r => attached'[r][c] >= 1
    BY <2>1, <2>2
  <2>4. attached' \in Seq([Callbacks -> Nat]) /\ Len(attached') = Len(relayUrls)
    BY <2>1, <2>2, <2>3
  <2>5. FacadeTypeOK'
    BY <1>1, <2>1, <2>4 DEF FacadeTypeOK
  <2>6. MapWhole'
    <3> SUFFICES ASSUME NEW u \in MappedUrls
                 PROVE  /\ relayUrls[facadeRelays[u]] = u
                        /\ \A d \in eventCallbacks \cup {c} : attached'[facadeRelays[u]][d] >= 1
      BY <2>1 DEF MapWhole, MappedUrls
    <3>1. facadeRelays[u] \in 1 .. Len(relayUrls)
      BY <1>1 DEF MappedUrls, FacadeTypeOK, NoRelay
    <3>2. relayUrls[facadeRelays[u]] = u /\ \A d \in eventCallbacks : attached[facadeRelays[u]][d] >= 1
      BY <1>1 DEF MapWhole
    <3>3. eventCallbacks \subseteq Callbacks
      BY <1>1 DEF FacadeTypeOK
    <3>4. attached'[facadeRelays[u]][c] >= 1
      BY <2>3, <3>1, <3>2
    <3>5. ASSUME NEW d \in eventCallbacks PROVE attached'[facadeRelays[u]][d] >= 1
      BY <2>3, <3>1, <3>2, <3>3
    <3>6. QED
      BY <3>2, <3>4, <3>5
  <2>7. QED
    BY <1>1, <2>1, <2>5, <2>6 DEF FacadeInv, AuthenticationNamed
<1>5. ASSUME NEW q \in PublishCalls, NEW p, PublishWhole(p),
             publishes' = [publishes EXCEPT ![q] = p],
             UNCHANGED <<facadeRelays, relayUrls, eventCallbacks, attached, authentication>>
      PROVE  FacadeInv'
  <2>1. FacadeTypeOK' /\ MapWhole' /\ AuthenticationNamed'
    BY <1>1, <1>5 DEF FacadeTypeOK, MapWhole, MappedUrls, AuthenticationNamed
  <2>2. \A r \in PublishCalls : publishes'[r] = IF r = q THEN p ELSE publishes[r]
    BY <1>1, <1>5 DEF FacadeTypeOK
  <2>3. QED
    BY <1>1, <1>5, <2>1, <2>2 DEF FacadeInv
<1>6. ASSUME NEW q \in PublishCalls, publishEvent(q) PROVE FacadeInv'
  <2> DEFINE p == [stage |-> IF MappedUrls = {} THEN "over" ELSE "waiting", asked |-> MappedUrls,
                   results |-> <<>>, success |-> FALSE]
  <2>1. /\ publishes' = [publishes EXCEPT ![q] = p]
        /\ UNCHANGED <<facadeRelays, relayUrls, eventCallbacks, attached, authentication>>
    BY <1>6 DEF publishEvent
  <2>2. MappedUrls \subseteq FacadeUrls /\ IsFiniteSet(MappedUrls)
    BY <1>1, MapFinite DEF MappedUrls
  <2>3. <<>> \in RelayAnswered /\ DOMAIN <<>> = {}
    BY DEF RelayAnswered
  <2>4. PublishWhole(p)
    BY <2>2, <2>3 DEF PublishWhole, CallsSettling
  <2> HIDE DEF p
  <2>5. QED
    BY <1>5, <2>1, <2>4
<1>7. ASSUME NEW q \in PublishCalls, RefusePublish(q) PROVE FacadeInv'
  <2>1. PublishWhole([stage |-> "refused"])
    BY DEF PublishWhole
  <2>2. QED
    BY <1>5, <1>7, <2>1 DEF RefusePublish
<1>8. ASSUME NEW q \in PublishCalls, NEW u \in FacadeUrls, NEW success \in BOOLEAN,
             RelayAnswers(q, u, success)
      PROVE  FacadeInv'
  <2> DEFINE old == publishes[q]
             results == Put(old.results, u, success)
             over == DOMAIN results = old.asked
             p == [stage |-> IF over THEN "over" ELSE "waiting", asked |-> old.asked, results |-> results,
                   success |-> over /\ \E v \in DOMAIN results : results[v]]
  <2>1. /\ publishes' = [publishes EXCEPT ![q] = p]
        /\ UNCHANGED <<facadeRelays, relayUrls, eventCallbacks, attached, authentication>>
        /\ u \in old.asked /\ old.stage = "waiting"
    BY <1>8 DEF RelayAnswers, allAnswered
  <2>2. old \in CallsSettling /\ IsFiniteSet(old.asked) /\ DOMAIN old.results \subseteq old.asked
    BY <1>1, <2>1 DEF PublishWhole
  <2>3. PICK urls \in SUBSET FacadeUrls : old.results \in [urls -> BOOLEAN]
    BY <2>2 DEF CallsSettling, RelayAnswered
  <2>4. results \in [urls \cup {u} -> BOOLEAN]
    BY <2>3 DEF Put
  <2>5. results \in RelayAnswered /\ DOMAIN results \subseteq old.asked /\ old.asked \in SUBSET FacadeUrls
    BY <2>1, <2>2, <2>3, <2>4 DEF RelayAnswered, CallsSettling
  <2> HIDE DEF results, old
  <2>6. PublishWhole(p)
    BY <2>2, <2>5 DEF PublishWhole, CallsSettling
  <2> HIDE DEF p
  <2>7. QED
    BY <1>5, <2>1, <2>6
<1>9. ASSUME NEW u \in FacadeUrls, authenticateRelay(u) PROVE FacadeInv'
  <2>1. /\ authentication' = [stage |-> "signing", relay |-> facadeRelays[u], names |-> u] /\ u \in MappedUrls
        /\ UNCHANGED <<facadeRelays, relayUrls, eventCallbacks, attached, publishes>>
    BY <1>9 DEF authenticateRelay
  <2>2. facadeRelays[u] \in DOMAIN relayUrls /\ relayUrls[facadeRelays[u]] = u
    BY <1>1, <2>1 DEF FacadeTypeOK, MapWhole, MappedUrls, NoRelay
  <2>3. QED
    BY <1>1, <2>1, <2>2 DEF FacadeInv, FacadeTypeOK, MapWhole, MappedUrls, AuthenticationNamed
<1>10. CASE Authenticated
  <2>1. authentication # NoAuthentication
    BY <1>10 DEF Authenticated, NoAuthentication
  <2>2. UNCHANGED <<facadeRelays, relayUrls, eventCallbacks, attached, publishes>>
    BY <1>10 DEF Authenticated
  <2>3. AuthenticationNamed'
    BY <1>1, <1>10, <2>1, <2>2 DEF Authenticated, AuthenticationNamed
  <2>4. QED
    BY <1>1, <2>2, <2>3 DEF FacadeInv, FacadeTypeOK, MapWhole, MappedUrls
<1>11. CASE UNCHANGED facadeVars
  BY <1>1, <1>11 DEF facadeVars, FacadeInv, FacadeTypeOK, MapWhole, MappedUrls, AuthenticationNamed
<1>12. QED
  BY <1>2, <1>3, <1>4, <1>6, <1>7, <1>8, <1>9, <1>10, <1>11 DEF FacadeNext

\* Successes and failures of a call that is over are all its relays, once each.
LEMMA FacadeInvSuffices == FacadeInv => PublishIsAccounted
<1> SUFFICES ASSUME FacadeInv PROVE PublishIsAccounted
  OBVIOUS
<1>1. ASSUME NEW q \in PublishCalls, publishes[q].stage = "over"
      PROVE  LET verdict == publishes[q]
                 details == publishDetails(verdict)
             IN  /\ DOMAIN verdict.results = verdict.asked
                 /\ verdict.success <=> \E u \in verdict.asked : verdict.results[u]
                 /\ verdict.success <=> details.successCount > 0
                 /\ details.successCount + details.failureCount = Cardinality(verdict.asked)
  <2> DEFINE verdict == publishes[q]
             approved == {u \in DOMAIN verdict.results : verdict.results[u]}
             declined == {u \in DOMAIN verdict.results : ~verdict.results[u]}
  <2>1. /\ DOMAIN verdict.results = verdict.asked /\ IsFiniteSet(verdict.asked)
        /\ verdict.success <=> \E u \in verdict.asked : verdict.results[u]
    BY <1>1 DEF FacadeInv, PublishWhole
  <2>2. publishDetails(verdict).successCount = Cardinality(approved)
        /\ publishDetails(verdict).failureCount = Cardinality(declined)
    BY DEF publishDetails
  <2>3. /\ approved \cup declined = verdict.asked /\ approved \cap declined = {}
        /\ approved \subseteq verdict.asked /\ declined \subseteq verdict.asked
        /\ verdict.success <=> approved # {}
    BY <2>1
  <2> HIDE DEF verdict, approved, declined
  <2>4. IsFiniteSet(approved) /\ IsFiniteSet(declined)
    BY <2>1, <2>3, FS_Subset
  <2>5. Cardinality(approved) + Cardinality(declined) = Cardinality(verdict.asked)
    <3>1. Cardinality(approved) \in Nat /\ Cardinality(declined) \in Nat /\ Cardinality({}) = 0
      BY <2>4, FS_CardinalityType, FS_EmptySet
    <3>2. Cardinality(verdict.asked) = Cardinality(approved) + Cardinality(declined) - 0
      BY <2>3, <2>4, <3>1, FS_Union
    <3>3. QED
      BY <3>1, <3>2
  <2>6. approved # {} <=> Cardinality(approved) > 0
    BY <2>4, FS_CardinalityType, FS_EmptySet
  <2>7. QED
    BY <2>1, <2>2, <2>3, <2>5, <2>6 DEF verdict
<1>2. QED
  BY <1>1 DEF PublishIsAccounted, FacadeInv, MapWhole, AuthenticationNamed

\* A call that is over holds nothing, succeeds only as its answers warrant and has
\* reported them all, for any number of calls, relays, callbacks and receipts.
THEOREM CallsAlwaysEndCleanly == Spec => []CallsEndCleanly
<1> DEFINE CallsInv == ZapInv /\ FacadeInv /\ ManagementInv
<1>1. Init => CallsInv
  BY ZapInitially, FacadeInitially, ManagementInitially DEF Init
<1>2. CallsInv /\ [Next]_vars => CallsInv'
  <2>1. [Next]_vars => /\ [ZapNext]_zapVars /\ [FacadeNext]_facadeVars
                       /\ [ManagementNext]_managementVars
    BY DEF Next, vars, remote, calls
  <2>2. QED
    BY <2>1, ZapStep, FacadeStep, ManagementStep
<1>3. CallsInv => CallsEndCleanly
  BY FacadeInvSuffices, ManagementInvSuffices DEF CallsEndCleanly, ZapInv
<1>4. QED
  BY <1>1, <1>2, <1>3, PTL DEF Spec

-----------------------------------------------------------------------------
\* Groups: the events a relay makes, and what a history h of them says of a pubkey.
GroupHistory ==
  UNION {[kind : {"PUT_USER"}, target : Pubkeys, roles : SUBSET Roles, at : Nat, id : Nat],
         [kind : {"REMOVE_USER", "JOIN_REQUEST", "LEAVE_REQUEST"}, target : Pubkeys, at : Nat, id : Nat],
         [kind : {"GROUP_MEMBERS"}, members : SUBSET Pubkeys, at : Nat, id : Nat],
         [kind : {"GROUP_ADMINS"}, admins : [Pubkeys -> SUBSET Roles], at : Nat, id : Nat]}

Moderation == {"PUT_USER", "REMOVE_USER"}

Moderates(h, i, p) == h[i].kind \in Moderation /\ h[i].target = p

\* Event i is the last of the first k to moderate p.
LastModerates(h, i, p, k) ==
  /\ i \in 1 .. k /\ Moderates(h, i, p)
  /\ \A j \in i + 1 .. k : ~Moderates(h, j, p)

NeverModerates(h, p, k) == \A j \in 1 .. k : ~Moderates(h, j, p)

\* Whom the first k events leave as members, and as admins.
MembersAfter(h, k, members) ==
  \A p \in Pubkeys :
    \/ NeverModerates(h, p, k) /\ p \notin members
    \/ \E i \in 1 .. k : LastModerates(h, i, p, k) /\ (p \in members <=> h[i].kind = "PUT_USER")

AdminsAfter(h, k, admins) ==
  \A p \in Pubkeys :
    \/ NeverModerates(h, p, k) /\ admins[p] = {}
    \/ \E i \in 1 .. k : /\ LastModerates(h, i, p, k)
                         /\ admins[p] = IF h[i].kind = "PUT_USER" THEN h[i].roles ELSE {}

GroupTypeOK ==
  /\ now \in Nat
  /\ groupMembers \subseteq Pubkeys /\ groupAdmins \in [Pubkeys -> SUBSET Roles]
  /\ published \in Seq(GroupHistory)

\* The relay's state, and each snapshot of it, is what the events before say.
HistoryTells(h, k) ==
  /\ h[k].kind = "GROUP_MEMBERS" => MembersAfter(h, k, h[k].members)
  /\ h[k].kind = "GROUP_ADMINS" => AdminsAfter(h, k, h[k].admins)

GroupInv ==
  /\ GroupTypeOK
  /\ MembersAfter(published, Len(published), groupMembers)
  /\ AdminsAfter(published, Len(published), groupAdmins)
  /\ \A k \in 1 .. Len(published) : HistoryTells(published, k)

\* The relay begins without members, admins and events.
LEMMA GroupInitially == now = 0 /\ GroupInit => GroupInv
<1> SUFFICES ASSUME now = 0, GroupInit PROVE GroupInv
  OBVIOUS
<1>1. published = <<>> /\ Len(published) = 0 /\ published \in Seq(GroupHistory)
  BY DEF GroupInit
<1>2. 1 .. Len(published) = {}
  BY <1>1
<1>3. QED
  BY <1>1, <1>2 DEF GroupInit, GroupInv, GroupTypeOK, MembersAfter, AdminsAfter, NoRoles, NeverModerates

\* What the first events say does not change when there are more.
LEMMA HistoryExtends ==
  ASSUME NEW h \in Seq(GroupHistory), NEW e \in GroupHistory, NEW k \in 0 .. Len(h)
  PROVE  LET g == Append(h, e)
         IN  /\ \A members : MembersAfter(h, k, members) => MembersAfter(g, k, members)
             /\ \A admins : AdminsAfter(h, k, admins) => AdminsAfter(g, k, admins)
             /\ HistoryTells(h, k) /\ k # 0 => HistoryTells(g, k)
             /\ g \in Seq(GroupHistory) /\ Len(g) = Len(h) + 1 /\ g[Len(h) + 1] = e
<1> DEFINE g == Append(h, e)
<1>1. g \in Seq(GroupHistory) /\ Len(g) = Len(h) + 1 /\ g[Len(h) + 1] = e /\ Len(h) \in Nat
  OBVIOUS
<1>2. \A i \in 1 .. Len(h) : g[i] = h[i]
  OBVIOUS
<1> HIDE DEF g
<1>3. \A i \in 1 .. k : g[i] = h[i]
  BY <1>1, <1>2
<1>4. \A p : \A i \in 1 .. k : Moderates(g, i, p) <=> Moderates(h, i, p)
  BY <1>3 DEF Moderates
<1>5. \A p : NeverModerates(g, p, k) <=> NeverModerates(h, p, k)
  BY <1>4 DEF NeverModerates
<1>6. ASSUME NEW p, NEW i \in 1 .. k PROVE LastModerates(g, i, p, k) <=> LastModerates(h, i, p, k)
  <2>1. i + 1 .. k \subseteq 1 .. k
    BY <1>1
  <2>2. QED
    BY <1>4, <2>1 DEF LastModerates
<1>7. ASSUME NEW members, MembersAfter(h, k, members) PROVE MembersAfter(g, k, members)
  BY <1>3, <1>5, <1>6, <1>7 DEF MembersAfter
<1>8. ASSUME NEW admins, AdminsAfter(h, k, admins) PROVE AdminsAfter(g, k, admins)
  BY <1>3, <1>5, <1>6, <1>8 DEF AdminsAfter
<1>9. HistoryTells(h, k) /\ k # 0 => HistoryTells(g, k)
  BY <1>3, <1>7, <1>8 DEF HistoryTells
<1>10. QED
  BY <1>1, <1>7, <1>8, <1>9 DEF g

\* An event that moderates nobody says nothing new.
LEMMA UnmoderatedAfter ==
  ASSUME NEW h \in Seq(GroupHistory), NEW k \in 1 .. Len(h), h[k].kind \notin Moderation
  PROVE  /\ \A members : MembersAfter(h, k - 1, members) => MembersAfter(h, k, members)
         /\ \A admins : AdminsAfter(h, k - 1, admins) => AdminsAfter(h, k, admins)
<1>1. k \in Nat /\ 1 .. k = 1 .. k - 1 \cup {k}
  OBVIOUS
<1>2. \A p : ~Moderates(h, k, p)
  BY DEF Moderates
<1>3. \A p : NeverModerates(h, p, k - 1) => NeverModerates(h, p, k)
  BY <1>1, <1>2 DEF NeverModerates
<1>4. ASSUME NEW p, NEW i \in 1 .. k - 1, LastModerates(h, i, p, k - 1)
      PROVE  i \in 1 .. k /\ LastModerates(h, i, p, k)
  <2>1. i + 1 .. k = i + 1 .. k - 1 \cup {k}
    BY <1>1
  <2>2. QED
    BY <1>1, <1>2, <1>4, <2>1 DEF LastModerates
<1>5. QED
  BY <1>3, <1>4 DEF MembersAfter, AdminsAfter

\* One that moderates p decides about p and about nobody else.
LEMMA ModeratedAfter ==
  ASSUME NEW h \in Seq(GroupHistory), NEW k \in 1 .. Len(h), NEW p \in Pubkeys, Moderates(h, k, p),
         NEW roles
  PROVE  /\ \A members :
              MembersAfter(h, k - 1, members) =>
                MembersAfter(h, k, IF h[k].kind = "PUT_USER" THEN members \cup {p} ELSE members \ {p})
         /\ \A admins \in [Pubkeys -> SUBSET Roles] :
              AdminsAfter(h, k - 1, admins)
              /\ roles = (IF h[k].kind = "PUT_USER" THEN h[k].roles ELSE {}) =>
                AdminsAfter(h, k, [admins EXCEPT ![p] = roles])
<1>1. k \in Nat /\ 1 .. k = 1 .. k - 1 \cup {k} /\ k + 1 .. k = {}
  OBVIOUS
<1>2. LastModerates(h, k, p, k) /\ k \in 1 .. k
  BY <1>1 DEF LastModerates
<1>3. \A q : q # p => ~Moderates(h, k, q)
  BY DEF Moderates
<1>4. \A q : q # p /\ NeverModerates(h, q, k - 1) => NeverModerates(h, q, k)
  BY <1>1, <1>3 DEF NeverModerates
<1>5. ASSUME NEW q, q # p, NEW i \in 1 .. k - 1, LastModerates(h, i, q, k - 1)
      PROVE  i \in 1 .. k /\ LastModerates(h, i, q, k)
  <2>1. i + 1 .. k = i + 1 .. k - 1 \cup {k}
    BY <1>1
  <2>2. QED
    BY <1>1, <1>3, <1>5, <2>1 DEF LastModerates
<1>6. ASSUME NEW members, MembersAfter(h, k - 1, members)
      PROVE  MembersAfter(h, k, IF h[k].kind = "PUT_USER" THEN members \cup {p} ELSE members \ {p})
  <2> DEFINE left == IF h[k].kind = "PUT_USER" THEN members \cup {p} ELSE members \ {p}
  <2>1. (p \in left <=> h[k].kind = "PUT_USER") /\ \A q : q # p => (q \in left <=> q \in members)
    OBVIOUS
  <2> HIDE DEF left
  <2>2. ASSUME NEW q \in Pubkeys
        PROVE  \/ NeverModerates(h, q, k) /\ q \notin left
               \/ \E i \in 1 .. k : LastModerates(h, i, q, k) /\ (q \in left <=> h[i].kind = "PUT_USER")
    <3>1. CASE q = p
      BY <1>2, <2>1, <3>1
    <3>2. CASE q # p
      BY <1>4, <1>5, <1>6, <2>1, <3>2 DEF MembersAfter
    <3>3. QED
      BY <3>1, <3>2
  <2>3. MembersAfter(h, k, left)
    BY <2>2 DEF MembersAfter
  <2>4. QED
    BY <2>3 DEF left
<1>7. ASSUME NEW admins \in [Pubkeys -> SUBSET Roles], AdminsAfter(h, k - 1, admins),
             roles = IF h[k].kind = "PUT_USER" THEN h[k].roles ELSE {}
      PROVE  AdminsAfter(h, k, [admins EXCEPT ![p] = roles])
  <2> DEFINE left == [admins EXCEPT ![p] = roles]
  <2>1. left[p] = roles /\ \A q \in Pubkeys : q # p => left[q] = admins[q]
    OBVIOUS
  <2> HIDE DEF left
  <2>2. ASSUME NEW q \in Pubkeys
        PROVE  \/ NeverModerates(h, q, k) /\ left[q] = {}
               \/ \E i \in 1 .. k : /\ LastModerates(h, i, q, k)
                                    /\ left[q] = IF h[i].kind = "PUT_USER" THEN h[i].roles ELSE {}
    <3>1. CASE q = p
      BY <1>2, <1>7, <2>1, <3>1
    <3>2. CASE q # p
      BY <1>4, <1>5, <1>7, <2>1, <3>2 DEF AdminsAfter
    <3>3. QED
      BY <3>1, <3>2
  <2>3. AdminsAfter(h, k, left)
    BY <2>2 DEF AdminsAfter
  <2>4. QED
    BY <2>3 DEF left
<1>8. QED
  BY <1>6, <1>7

\* Everything the relay does keeps its state and its snapshots what its events say.
LEMMA GroupStep ==
  ASSUME GroupInv, GroupNext \/ (UNCHANGED groupVars /\ now' \in {now, now + 1})
  PROVE  GroupInv'
<1> DEFINE n == Len(published)
<1>1. /\ now \in Nat /\ groupMembers \subseteq Pubkeys /\ groupAdmins \in [Pubkeys -> SUBSET Roles]
      /\ published \in Seq(GroupHistory) /\ n \in Nat
      /\ MembersAfter(published, n, groupMembers) /\ AdminsAfter(published, n, groupAdmins)
      /\ \A k \in 1 .. n : HistoryTells(published, k)
  BY DEF GroupInv, GroupTypeOK
<1>2. ASSUME NEW e \in GroupHistory, published' = Append(published, e), UNCHANGED now,
             groupMembers' \subseteq Pubkeys, groupAdmins' \in [Pubkeys -> SUBSET Roles],
             MembersAfter(published', n + 1, groupMembers'),
             AdminsAfter(published', n + 1, groupAdmins'),
             HistoryTells(published', n + 1)
      PROVE  GroupInv'
  <2>1. published' \in Seq(GroupHistory) /\ Len(published') = n + 1
    BY <1>1, <1>2
  <2>2. \A k \in 1 .. n : HistoryTells(published', k)
    BY <1>1, <1>2, HistoryExtends
  <2>3. \A k \in 1 .. n + 1 : HistoryTells(published', k)
    BY <1>1, <1>2, <2>2
  <2>4. QED
    BY <1>1, <1>2, <2>1, <2>3 DEF GroupInv, GroupTypeOK
<1>3. ASSUME NEW e \in GroupHistory, e.kind \notin Moderation, published' = Append(published, e),
             UNCHANGED <<now, groupMembers, groupAdmins>>,
             e.kind = "GROUP_MEMBERS" => e.members = groupMembers,
             e.kind = "GROUP_ADMINS" => e.admins = groupAdmins
      PROVE  GroupInv'
  <2>1. /\ published' \in Seq(GroupHistory) /\ Len(published') = n + 1 /\ published'[n + 1] = e
        /\ MembersAfter(published', n, groupMembers) /\ AdminsAfter(published', n, groupAdmins)
    BY <1>1, <1>3, HistoryExtends
  <2>2. n + 1 \in 1 .. Len(published') /\ (n + 1) - 1 = n
    BY <1>1, <2>1
  <2>3. MembersAfter(published', n + 1, groupMembers) /\ AdminsAfter(published', n + 1, groupAdmins)
    BY <1>3, <2>1, <2>2, UnmoderatedAfter
  <2>4. HistoryTells(published', n + 1)
    BY <1>3, <2>1, <2>3 DEF HistoryTells
  <2>5. QED
    BY <1>1, <1>2, <1>3, <2>3, <2>4
<1>4. ASSUME NEW e \in GroupHistory, NEW p \in Pubkeys, NEW roles \in SUBSET Roles,
             e.kind \in Moderation, e.target = p, published' = Append(published, e), UNCHANGED now,
             groupMembers' = (IF e.kind = "PUT_USER" THEN groupMembers \cup {p} ELSE groupMembers \ {p}),
             groupAdmins' = [groupAdmins EXCEPT ![p] = roles],
             roles = IF e.kind = "PUT_USER" THEN e.roles ELSE {}
      PROVE  GroupInv'
  <2>1. /\ published' \in Seq(GroupHistory) /\ Len(published') = n + 1 /\ published'[n + 1] = e
        /\ MembersAfter(published', n, groupMembers) /\ AdminsAfter(published', n, groupAdmins)
    BY <1>1, <1>4, HistoryExtends
  <2>2. n + 1 \in 1 .. Len(published') /\ (n + 1) - 1 = n /\ Moderates(published', n + 1, p)
    BY <1>1, <1>4, <2>1 DEF Moderates
  <2>3. MembersAfter(published', n + 1, groupMembers') /\ AdminsAfter(published', n + 1, groupAdmins')
    <3> DEFINE h == published'
               k == n + 1
    <3>1. /\ h \in Seq(GroupHistory) /\ k \in 1 .. Len(h) /\ Moderates(h, k, p) /\ h[k] = e
          /\ MembersAfter(h, k - 1, groupMembers) /\ AdminsAfter(h, k - 1, groupAdmins)
      BY <2>1, <2>2
    <3> HIDE DEF h, k
    <3>2. MembersAfter(h, k, IF h[k].kind = "PUT_USER" THEN groupMembers \cup {p}
                                                      ELSE groupMembers \ {p})
      BY <3>1, ModeratedAfter
    <3>3. roles = IF h[k].kind = "PUT_USER" THEN h[k].roles ELSE {}
      BY <1>4, <3>1
    <3>4. AdminsAfter(h, k, [groupAdmins EXCEPT ![p] = roles])
      BY <1>1, <3>1, <3>3, ModeratedAfter
    <3>5. QED
      BY <1>4, <3>1, <3>2, <3>4 DEF h, k
  <2>4. HistoryTells(published', n + 1)
    BY <1>4, <2>1 DEF HistoryTells, Moderation
  <2>5. groupMembers' \subseteq Pubkeys /\ groupAdmins' \in [Pubkeys -> SUBSET Roles]
    BY <1>1, <1>4
  <2>6. QED
    BY <1>2, <1>4, <2>3, <2>4, <2>5
<1>5. Ids \subseteq Nat
  BY GroupAssumption
<1> HIDE DEF n
<1>6. ASSUME NEW p \in Pubkeys, NEW roles \in SUBSET Roles, PutUser(p, roles), UNCHANGED now
      PROVE  GroupInv'
  <2>1. PICK id \in Ids :
          PublishGroupEvent([kind |-> "PUT_USER", target |-> p, roles |-> roles, at |-> now, id |-> id])
    BY <1>6 DEF PutUser
  <2> DEFINE e == [kind |-> "PUT_USER", target |-> p, roles |-> roles, at |-> now, id |-> id]
  <2>2. e \in GroupHistory /\ e.kind = "PUT_USER" /\ e.target = p /\ e.roles = roles
    BY <1>1, <1>5 DEF GroupHistory
  <2>3. /\ published' = Append(published, e)
        /\ groupMembers' = groupMembers \cup {p} /\ groupAdmins' = [groupAdmins EXCEPT ![p] = roles]
    BY <1>6, <2>1 DEF PutUser, PublishGroupEvent
  <2> HIDE DEF e
  <2>4. QED
    BY <1>4, <1>6, <2>2, <2>3 DEF Moderation
<1>7. ASSUME NEW p \in Pubkeys, RemoveUser(p), UNCHANGED now PROVE GroupInv'
  <2>1. PICK id \in Ids :
          PublishGroupEvent([kind |-> "REMOVE_USER", target |-> p, at |-> now, id |-> id])
    BY <1>7 DEF RemoveUser
  <2> DEFINE e == [kind |-> "REMOVE_USER", target |-> p, at |-> now, id |-> id]
  <2>2. e \in GroupHistory /\ e.kind = "REMOVE_USER" /\ e.target = p
    BY <1>1, <1>5 DEF GroupHistory
  <2>3. /\ published' = Append(published, e) /\ {} \in SUBSET Roles
        /\ groupMembers' = groupMembers \ {p} /\ groupAdmins' = [groupAdmins EXCEPT ![p] = {}]
    BY <1>7, <2>1 DEF RemoveUser, PublishGroupEvent
  <2> HIDE DEF e
  <2>4. QED
    BY <1>4, <1>7, <2>2, <2>3 DEF Moderation
<1>8. ASSUME NEW p \in Pubkeys, NEW kind \in {"JOIN_REQUEST", "LEAVE_REQUEST"}, Request(kind, p),
             UNCHANGED now
      PROVE  GroupInv'
  <2>1. PICK id \in Ids : PublishGroupEvent([kind |-> kind, target |-> p, at |-> now, id |-> id])
    BY <1>8 DEF Request
  <2> DEFINE e == [kind |-> kind, target |-> p, at |-> now, id |-> id]
  <2>2. e \in GroupHistory /\ e.kind = kind
    BY <1>1, <1>5 DEF GroupHistory
  <2>3. published' = Append(published, e) /\ UNCHANGED <<groupMembers, groupAdmins>>
    BY <1>8, <2>1 DEF Request, PublishGroupEvent
  <2> HIDE DEF e
  <2>4. QED
    BY <1>3, <1>8, <2>2, <2>3 DEF Moderation
<1>9. ASSUME MembersSnapshot, UNCHANGED now PROVE GroupInv'
  <2>1. PICK id \in Ids :
          PublishGroupEvent([kind |-> "GROUP_MEMBERS", members |-> groupMembers, at |-> now, id |-> id])
    BY <1>9 DEF MembersSnapshot
  <2> DEFINE e == [kind |-> "GROUP_MEMBERS", members |-> groupMembers, at |-> now, id |-> id]
  <2>2. e \in GroupHistory /\ e.kind = "GROUP_MEMBERS" /\ e.members = groupMembers
    BY <1>1, <1>5 DEF GroupHistory
  <2>3. published' = Append(published, e) /\ UNCHANGED <<groupMembers, groupAdmins>>
    BY <1>9, <2>1 DEF MembersSnapshot, PublishGroupEvent
  <2> HIDE DEF e
  <2>4. QED
    BY <1>3, <1>9, <2>2, <2>3 DEF Moderation
<1>10. ASSUME AdminsSnapshot, UNCHANGED now PROVE GroupInv'
  <2>1. PICK id \in Ids :
          PublishGroupEvent([kind |-> "GROUP_ADMINS", admins |-> groupAdmins, at |-> now, id |-> id])
    BY <1>10 DEF AdminsSnapshot
  <2> DEFINE e == [kind |-> "GROUP_ADMINS", admins |-> groupAdmins, at |-> now, id |-> id]
  <2>2. e \in GroupHistory /\ e.kind = "GROUP_ADMINS" /\ e.admins = groupAdmins
    BY <1>1, <1>5 DEF GroupHistory
  <2>3. published' = Append(published, e) /\ UNCHANGED <<groupMembers, groupAdmins>>
    BY <1>10, <2>1 DEF AdminsSnapshot, PublishGroupEvent
  <2> HIDE DEF e
  <2>4. QED
    BY <1>3, <1>10, <2>2, <2>3 DEF Moderation
<1>11. CASE UNCHANGED groupVars /\ now' \in {now, now + 1}
  BY <1>1, <1>11 DEF groupVars, GroupInv, GroupTypeOK, n
<1>12. QED
  BY <1>6, <1>7, <1>8, <1>9, <1>10, <1>11 DEF GroupNext, Tick, groupVars

\* Of events whose ids broke the ties the way the relay made them, the latest is
\* the last that was made.
LEMMA LatestIsLast ==
  ASSUME GroupTypeOK, NEW indices \in SUBSET DOMAIN published, InOrder(indices),
         NEW J \in SUBSET indices, NEW m \in J, \A j \in J : j <= m
  PROVE  EventsAt(J) # {} /\ Latest(EventsAt(J)) = published[m]
<1>1. published \in Seq(GroupHistory) /\ DOMAIN published = 1 .. Len(published) /\ Len(published) \in Nat
  BY DEF GroupTypeOK
<1>2. \A e \in GroupHistory : e.at \in Nat /\ e.id \in Nat
  BY DEF GroupHistory
<1>3. \A j \in J : j \in Nat /\ published[j].at \in Nat /\ published[j].id \in Nat
  <2>1. \A j \in J : published[j] \in GroupHistory /\ j \in Nat
    BY <1>1
  <2>2. QED
    BY <1>2, <2>1
<1>4. \A j \in J : j # m => compareEventsAsc(published[j], published[m])
  BY <1>3 DEF InOrder
<1>5. \A j \in J : compareEventsAsc(published[j], published[m])
                     => ~compareEventsAsc(published[m], published[j]) /\ published[j] # published[m]
  BY <1>3 DEF compareEventsAsc
<1>6. published[m] \in EventsAt(J)
  BY DEF EventsAt
<1>7. \A f \in EventsAt(J) \ {published[m]} : compareEventsAsc(f, published[m])
  BY <1>4 DEF EventsAt
<1>8. \A e \in EventsAt(J) :
        (\A f \in EventsAt(J) \ {e} : compareEventsAsc(f, e)) => e = published[m]
  <2> SUFFICES ASSUME NEW j \in J, published[j] # published[m],
                      compareEventsAsc(published[m], published[j])
               PROVE  FALSE
    BY <1>6 DEF EventsAt
  <2>1. QED
    BY <1>4, <1>5
<1>9. Latest(EventsAt(J)) = published[m]
  BY <1>6, <1>7, <1>8 DEF Latest
<1>10. QED
  BY <1>6, <1>9

\* A set of event numbers has a last one.
LEMMA LastNumber ==
  ASSUME NEW k \in Nat, NEW J \in SUBSET (1 .. k), J # {}
  PROVE  \E m \in J : \A j \in J : j <= m
<1> DEFINE T == {k - j : j \in J}
<1>1. T \subseteq Nat
  OBVIOUS
<1>2. \A j \in J : k - j \in T
  OBVIOUS
<1>3. \A t \in T : \E j \in J : t = k - j
  OBVIOUS
<1> HIDE DEF T
<1>4. PICK t \in T : \A u \in T : t <= u
  BY <1>1, <1>2, LeastNumber
<1>5. PICK m \in J : t = k - m
  BY <1>3
<1>6. QED
  BY <1>2, <1>4, <1>5

\* What a client finds: the last snapshot s it has, or none, and after it every
\* event that moderates p.
LEMMA ClientFinds ==
  ASSUME GroupTypeOK, NEW indices \in SUBSET DOMAIN published, InOrder(indices),
         NEW kind \in {"GROUP_MEMBERS", "GROUP_ADMINS"}, Covers(indices, kind), NEW p \in Pubkeys
  PROVE  LET events == EventsAt(indices)
             moderation == Concerning(moderationEvents(events, kind), p)
         IN  \E s \in 0 .. Len(published) :
               /\ s = 0 => Snapshots(events, kind) = {}
               /\ s # 0 => /\ Snapshots(events, kind) # {} /\ published[s].kind = kind
                           /\ Latest(Snapshots(events, kind)) = published[s]
               /\ moderation = {} => \A i \in s + 1 .. Len(published) : ~Moderates(published, i, p)
               /\ moderation # {} =>
                    \E i \in 1 .. Len(published) : /\ LastModerates(published, i, p, Len(published))
                                                   /\ Latest(moderation) = published[i]
<1> DEFINE events == EventsAt(indices)
           moderation == Concerning(moderationEvents(events, kind), p)
           n == Len(published)
           S == {i \in indices : published[i].kind = kind}
<1>1. published \in Seq(GroupHistory) /\ DOMAIN published = 1 .. n /\ n \in Nat /\ indices \subseteq 1 .. n
  BY DEF GroupTypeOK
<1>2. Snapshots(events, kind) = EventsAt(S)
  BY DEF Snapshots, EventsAt
<1>3. kind \notin Moderation
  BY DEF Moderation
<1>4. \A i \in indices : /\ published[i] \in GroupHistory /\ i \in 1 .. n
                         /\ published[i].at \in Nat /\ published[i].id \in Nat
  <2>1. \A e \in GroupHistory : e.at \in Nat /\ e.id \in Nat
    BY DEF GroupHistory
  <2>2. \A i \in indices : published[i] \in GroupHistory
    BY <1>1
  <2>3. QED
    BY <1>1, <2>1, <2>2
<1>5. \A i, j \in indices : i # j => (compareEventsAsc(published[i], published[j]) <=> i < j)
  <2>1. \A i, j \in indices : compareEventsAsc(published[i], published[j])
                                => ~compareEventsAsc(published[j], published[i])
    BY <1>4 DEF compareEventsAsc
  <2>2. \A i, j \in indices : i # j => i < j \/ j < i
    BY <1>1
  <2>3. QED
    BY <2>1, <2>2 DEF InOrder
<1>6. PICK s \in 0 .. n :
        /\ s = 0 => S = {}
        /\ s # 0 => s \in S
        /\ \A j \in S : j <= s
  <2>1. CASE S = {}
    BY <1>1, <2>1
  <2>2. CASE S # {}
    <3>1. S \in SUBSET (1 .. n)
      BY <1>1
    <3> HIDE DEF S
    <3>2. PICK m \in S : \A j \in S : j <= m
      BY <1>1, <2>2, <3>1, LastNumber
    <3>3. QED
      BY <1>1, <3>1, <3>2
  <2>3. QED
    BY <2>1, <2>2
<1>7. s # 0 => Latest(EventsAt(S)) = published[s] /\ EventsAt(S) # {}
  BY <1>6, LatestIsLast
<1>8. s = 0 => EventsAt(S) = {}
  BY <1>6 DEF EventsAt
<1> DEFINE J == {i \in indices : Moderates(published, i, p) /\ s < i}
<1>9. moderation = EventsAt(J)
  <2>1. ASSUME NEW i \in indices, Moderates(published, i, p)
        PROVE  (Snapshots(events, kind) # {} => compareEventsAsc(Latest(Snapshots(events, kind)), published[i]))
                 <=> s < i
    <3>1. CASE s = 0
      BY <1>2, <1>4, <1>8, <3>1
    <3>2. CASE s # 0
      <4>1. s \in indices /\ published[s].kind = kind
        BY <1>6, <3>2
      <4>2. s # i
        BY <1>3, <2>1, <4>1 DEF Moderates
      <4>3. QED
        BY <1>2, <1>5, <1>7, <3>2, <4>1, <4>2
    <3>3. QED
      BY <3>1, <3>2
  <2>2. moderation = {e \in events : /\ e.kind \in Moderation /\ e.target = p
                                     /\ Snapshots(events, kind) # {} =>
                                          compareEventsAsc(Latest(Snapshots(events, kind)), e)}
    BY DEF Concerning, moderationEvents, Moderation
  <2> HIDE DEF moderation
  <2>3. QED
    BY <2>1, <2>2 DEF EventsAt, Moderates
<1>10. ASSUME NEW i \in s + 1 .. n, Moderates(published, i, p) PROVE i \in J
  <2>1. i \in 1 .. n /\ s < i
    BY <1>1
  <2>2. CASE i \notin indices
    <3>1. PICK j \in indices : j > i /\ published[j].kind = kind
      BY <1>1, <1>10, <2>1, <2>2 DEF Covers, Moderates, Moderation
    <3>2. j \in S /\ j \in 1 .. n
      BY <1>1, <3>1
    <3>3. j <= s
      BY <1>6, <3>2
    <3>4. QED
      BY <1>1, <2>1, <3>1, <3>2, <3>3
  <2>3. QED
    BY <1>10, <2>1, <2>2
<1>11. J \in SUBSET indices /\ J \in SUBSET (1 .. n) /\ \A i \in J : Moderates(published, i, p) /\ s < i
  BY <1>1
<1> HIDE DEF J, moderation, events
<1>12. moderation = {} => \A i \in s + 1 .. n : ~Moderates(published, i, p)
  BY <1>9, <1>10 DEF EventsAt
<1>13. ASSUME moderation # {}
       PROVE  \E i \in 1 .. n : LastModerates(published, i, p, n) /\ Latest(moderation) = published[i]
  <2>1. J # {}
    BY <1>9, <1>13 DEF EventsAt
  <2>2. PICK m \in J : \A j \in J : j <= m
    BY <1>1, <1>11, <2>1, LastNumber
  <2>3. Latest(moderation) = published[m]
    BY <1>9, <1>11, <2>2, LatestIsLast
  <2>4. \A j \in m + 1 .. n : ~Moderates(published, j, p)
    <3>1. SUFFICES ASSUME NEW j \in m + 1 .. n, Moderates(published, j, p) PROVE FALSE
      OBVIOUS
    <3>2. j \in s + 1 .. n /\ m \in 1 .. n /\ m < j
      BY <1>1, <1>11, <2>2
    <3>3. QED
      BY <1>10, <2>2, <3>1, <3>2
  <2>5. m \in 1 .. n /\ LastModerates(published, m, p, n)
    BY <1>11, <2>4 DEF LastModerates
  <2>6. QED
    BY <2>3, <2>5
<1>14. QED
  BY <1>2, <1>6, <1>7, <1>8, <1>12, <1>13 DEF events, moderation

\* Nobody has two last moderations.
LEMMA LastIsUnique ==
  ASSUME NEW h, NEW p, NEW k \in Nat, NEW i, NEW j,
         LastModerates(h, i, p, k), LastModerates(h, j, p, k)
  PROVE  i = j
<1>1. i \in 1 .. k /\ j \in 1 .. k
  BY DEF LastModerates
<1>2. ~(i < j) /\ ~(j < i)
  <2>1. i < j => j \in i + 1 .. k
    BY <1>1
  <2>2. j < i => i \in j + 1 .. k
    BY <1>1
  <2>3. QED
    BY <2>1, <2>2 DEF LastModerates
<1>3. QED
  BY <1>1, <1>2

\* What was last said of p by event s or before stands if nothing was said since.
LEMMA LastStands ==
  ASSUME NEW h, NEW n \in Nat, NEW s \in 0 .. n, NEW p, \A i \in s + 1 .. n : ~Moderates(h, i, p)
  PROVE  /\ NeverModerates(h, p, s) => NeverModerates(h, p, n)
         /\ \A i \in 1 .. s : LastModerates(h, i, p, s) => i \in 1 .. n /\ LastModerates(h, i, p, n)
<1>1. \A j \in 1 .. n : j \in 1 .. s \/ j \in s + 1 .. n
  OBVIOUS
<1>2. NeverModerates(h, p, s) => NeverModerates(h, p, n)
  BY <1>1 DEF NeverModerates
<1>3. ASSUME NEW i \in 1 .. s, LastModerates(h, i, p, s)
      PROVE  i \in 1 .. n /\ LastModerates(h, i, p, n)
  <2>1. \A j \in i + 1 .. n : j \in i + 1 .. s \/ j \in s + 1 .. n
    OBVIOUS
  <2>2. i \in 1 .. n
    OBVIOUS
  <2>3. QED
    BY <1>3, <2>1, <2>2 DEF LastModerates
<1>4. QED
  BY <1>2, <1>3

\* Never and at last exclude each other.
LEMMA NeverOrLast ==
  ASSUME NEW h, NEW p, NEW k \in Nat, NeverModerates(h, p, k)
  PROVE  \A i : ~LastModerates(h, i, p, k)
BY DEF NeverModerates, LastModerates

\* Members as the reducer finds them are the relay's own.
LEMMA MembersFound ==
  ASSUME GroupInv, NEW indices \in SUBSET DOMAIN published, InOrder(indices),
         Covers(indices, "GROUP_MEMBERS")
  PROVE  reduceGroupMembers(EventsAt(indices)) = groupMembers
<1> DEFINE n == Len(published)
           events == EventsAt(indices)
           snapshots == Snapshots(events, "GROUP_MEMBERS")
           moderation(p) == Concerning(moderationEvents(events, "GROUP_MEMBERS"), p)
           found(p) == IF moderation(p) = {} THEN snapshots # {} /\ p \in Latest(snapshots).members
                       ELSE Latest(moderation(p)).kind = "PUT_USER"
<1>1. /\ GroupTypeOK /\ n \in Nat /\ groupMembers \subseteq Pubkeys
      /\ MembersAfter(published, n, groupMembers)
      /\ \A k \in 1 .. n : HistoryTells(published, k)
  BY DEF GroupInv, GroupTypeOK
<1>2. ASSUME NEW p \in Pubkeys PROVE found(p) <=> p \in groupMembers
  <2>1. PICK s \in 0 .. n :
          /\ s = 0 => snapshots = {}
          /\ s # 0 => /\ snapshots # {} /\ published[s].kind = "GROUP_MEMBERS"
                      /\ Latest(snapshots) = published[s]
          /\ moderation(p) = {} => \A i \in s + 1 .. n : ~Moderates(published, i, p)
          /\ moderation(p) # {} => \E i \in 1 .. n : /\ LastModerates(published, i, p, n)
                                                     /\ Latest(moderation(p)) = published[i]
    BY <1>1, ClientFinds
  <2> HIDE DEF snapshots, moderation, n
  <2>2. CASE moderation(p) # {}
    <3>1. PICK i \in 1 .. n : LastModerates(published, i, p, n) /\ Latest(moderation(p)) = published[i]
      BY <2>1, <2>2
    <3>2. p \in groupMembers <=> published[i].kind = "PUT_USER"
      BY <1>1, <3>1, LastIsUnique, NeverOrLast DEF MembersAfter
    <3>3. QED
      BY <2>2, <3>1, <3>2
  <2>3. CASE moderation(p) = {} /\ s = 0
    <3>1. NeverModerates(published, p, n)
      BY <2>1, <2>3 DEF NeverModerates
    <3>2. p \notin groupMembers
      BY <1>1, <3>1, NeverOrLast DEF MembersAfter
    <3>3. QED
      BY <2>1, <2>3, <3>2
  <2>4. CASE moderation(p) = {} /\ s # 0
    <3>1. s \in 1 .. n /\ MembersAfter(published, s, published[s].members)
      BY <1>1, <2>1, <2>4 DEF HistoryTells
    <3>2. p \in published[s].members <=> p \in groupMembers
      <4>1. CASE NeverModerates(published, p, s) /\ p \notin published[s].members
        <5>1. NeverModerates(published, p, n)
          BY <1>1, <2>1, <2>4, <4>1, LastStands
        <5>2. QED
          BY <1>1, <4>1, <5>1, NeverOrLast DEF MembersAfter
      <4>2. ASSUME NEW i \in 1 .. s, LastModerates(published, i, p, s),
                   p \in published[s].members <=> published[i].kind = "PUT_USER"
            PROVE  p \in published[s].members <=> p \in groupMembers
        <5>1. LastModerates(published, i, p, n)
          BY <1>1, <2>1, <2>4, <4>2, LastStands
        <5>2. QED
          BY <1>1, <4>2, <5>1, LastIsUnique, NeverOrLast DEF MembersAfter
      <4>3. QED
        BY <3>1, <4>1, <4>2 DEF MembersAfter
    <3>3. QED
      BY <2>1, <2>4, <3>2
  <2>5. QED
    BY <2>2, <2>3, <2>4
<1>3. reduceGroupMembers(events) = {p \in Pubkeys : found(p)}
  BY DEF reduceGroupMembers
<1> HIDE DEF found
<1>4. QED
  BY <1>1, <1>2, <1>3

\* Admins as the reducer finds them are the relay's own, with their roles.
LEMMA AdminsFound ==
  ASSUME GroupInv, NEW indices \in SUBSET DOMAIN published, InOrder(indices),
         Covers(indices, "GROUP_ADMINS")
  PROVE  reduceGroupAdmins(EventsAt(indices)) = groupAdmins
<1> DEFINE n == Len(published)
           events == EventsAt(indices)
           snapshots == Snapshots(events, "GROUP_ADMINS")
           listed == IF snapshots = {} THEN NoRoles ELSE Latest(snapshots).admins
           moderation(p) == Concerning(moderationEvents(events, "GROUP_ADMINS"), p)
           found(p) == CASE moderation(p) = {} -> listed[p]
                         [] moderation(p) # {} /\ Latest(moderation(p)).kind = "REMOVE_USER" -> {}
                         [] OTHER -> Latest(moderation(p)).roles
<1>1. /\ GroupTypeOK /\ n \in Nat /\ groupAdmins \in [Pubkeys -> SUBSET Roles]
      /\ AdminsAfter(published, n, groupAdmins)
      /\ \A k \in 1 .. n : HistoryTells(published, k)
  BY DEF GroupInv, GroupTypeOK
<1>2. ASSUME NEW p \in Pubkeys PROVE found(p) = groupAdmins[p]
  <2>1. PICK s \in 0 .. n :
          /\ s = 0 => snapshots = {}
          /\ s # 0 => /\ snapshots # {} /\ published[s].kind = "GROUP_ADMINS"
                      /\ Latest(snapshots) = published[s]
          /\ moderation(p) = {} => \A i \in s + 1 .. n : ~Moderates(published, i, p)
          /\ moderation(p) # {} => \E i \in 1 .. n : /\ LastModerates(published, i, p, n)
                                                     /\ Latest(moderation(p)) = published[i]
    BY <1>1, ClientFinds
  <2>2. listed = IF snapshots = {} THEN NoRoles ELSE Latest(snapshots).admins
    OBVIOUS
  <2> HIDE DEF snapshots, moderation, n, listed
  <2>3. CASE moderation(p) # {}
    <3>1. PICK i \in 1 .. n : LastModerates(published, i, p, n) /\ Latest(moderation(p)) = published[i]
      BY <2>1, <2>3
    <3>2. groupAdmins[p] = IF published[i].kind = "PUT_USER" THEN published[i].roles ELSE {}
      BY <1>1, <3>1, LastIsUnique, NeverOrLast DEF AdminsAfter
    <3>3. published[i].kind \in Moderation
      BY <3>1 DEF LastModerates, Moderates
    <3>4. CASE published[i].kind = "REMOVE_USER"
      BY <2>3, <3>1, <3>2, <3>4
    <3>5. CASE published[i].kind = "PUT_USER"
      BY <2>3, <3>1, <3>2, <3>5
    <3>6. QED
      BY <3>3, <3>4, <3>5 DEF Moderation
  <2>4. CASE moderation(p) = {} /\ s = 0
    <3>1. NeverModerates(published, p, n)
      BY <2>1, <2>4 DEF NeverModerates
    <3>2. groupAdmins[p] = {}
      BY <1>1, <3>1, NeverOrLast DEF AdminsAfter
    <3>3. listed[p] = {}
      BY <2>1, <2>2, <2>4 DEF NoRoles
    <3>4. QED
      BY <2>4, <3>2, <3>3
  <2>5. CASE moderation(p) = {} /\ s # 0
    <3>1. s \in 1 .. n /\ AdminsAfter(published, s, published[s].admins)
      BY <1>1, <2>1, <2>5 DEF HistoryTells
    <3>2. published[s].admins[p] = groupAdmins[p]
      <4>1. CASE NeverModerates(published, p, s) /\ published[s].admins[p] = {}
        <5>1. NeverModerates(published, p, n)
          BY <1>1, <2>1, <2>5, <4>1, LastStands
        <5>2. QED
          BY <1>1, <4>1, <5>1, NeverOrLast DEF AdminsAfter
      <4>2. ASSUME NEW i \in 1 .. s, LastModerates(published, i, p, s),
                   published[s].admins[p] = IF published[i].kind = "PUT_USER" THEN published[i].roles ELSE {}
            PROVE  published[s].admins[p] = groupAdmins[p]
        <5>1. LastModerates(published, i, p, n)
          BY <1>1, <2>1, <2>5, <4>2, LastStands
        <5>2. QED
          BY <1>1, <4>2, <5>1, LastIsUnique, NeverOrLast DEF AdminsAfter
      <4>3. QED
        BY <3>1, <4>1, <4>2 DEF AdminsAfter
    <3>3. QED
      BY <2>1, <2>2, <2>5, <3>2
  <2>6. QED
    BY <2>3, <2>4, <2>5
<1>3. reduceGroupAdmins(events) = [p \in Pubkeys |-> found(p)]
  BY DEF reduceGroupAdmins
<1> HIDE DEF found
<1>4. QED
  BY <1>1, <1>2, <1>3

\* With all events, a pubkey's status is granted to the members and pending for
\* those whose request to join is still unanswered.
LEMMA StatusFound ==
  ASSUME GroupInv, InOrder(DOMAIN published), NEW p \in Pubkeys
  PROVE  LET status == reduceGroupMembershipStatus(EventsAt(DOMAIN published), p)
         IN /\ (status = "granted") <=> (p \in groupMembers)
            /\ (status = "pending") <=>
                 /\ p \notin groupMembers
                 /\ \E i \in DOMAIN published :
                      /\ published[i].kind = "JOIN_REQUEST" /\ published[i].target = p
                      /\ \A j \in i + 1 .. Len(published) :
                           ~(/\ published[j].kind \in {"LEAVE_REQUEST", "REMOVE_USER"}
                             /\ published[j].target = p)
<1> DEFINE n == Len(published)
           events == EventsAt(DOMAIN published)
           kinds == {"JOIN_REQUEST", "LEAVE_REQUEST", "PUT_USER", "REMOVE_USER"}
           relevant == Concerning({e \in events : e.kind \in kinds}, p)
           R == {i \in DOMAIN published : published[i].kind \in kinds /\ published[i].target = p}
           last == IF relevant = {} THEN "none" ELSE Latest(relevant).kind
           status == reduceGroupMembershipStatus(events, p)
           asks == \E i \in DOMAIN published :
                      /\ published[i].kind = "JOIN_REQUEST" /\ published[i].target = p
                      /\ \A j \in i + 1 .. Len(published) :
                           ~(/\ published[j].kind \in {"LEAVE_REQUEST", "REMOVE_USER"}
                             /\ published[j].target = p)
<1>1. /\ GroupTypeOK /\ n \in Nat /\ DOMAIN published = 1 .. n
      /\ MembersAfter(published, n, groupMembers)
  BY DEF GroupInv, GroupTypeOK
<1>2. reduceGroupMembers(events) = groupMembers
  <2>1. Covers(DOMAIN published, "GROUP_MEMBERS")
    BY DEF Covers
  <2>2. QED
    BY <2>1, MembersFound
<1>3. status = CASE p \in groupMembers \/ last = "PUT_USER" -> "granted"
                 [] p \notin groupMembers /\ last = "JOIN_REQUEST" -> "pending"
                 [] OTHER -> "initial"
  BY <1>2 DEF reduceGroupMembershipStatus
<1>4. relevant = EventsAt(R)
  BY DEF Concerning, EventsAt
<1>5. /\ last = "PUT_USER" => p \in groupMembers
      /\ p \notin groupMembers => (last = "JOIN_REQUEST" <=> asks)
  <2>1. CASE R = {}
    <3>1. last = "none"
      BY <1>4, <2>1 DEF EventsAt
    <3>2. ~asks
      BY <2>1
    <3>3. QED
      BY <3>1, <3>2
  <2>2. CASE R # {}
    <3>1. R \in SUBSET (1 .. n) /\ R \in SUBSET DOMAIN published
      BY <1>1
    <3>2. \A i \in R : published[i].kind \in kinds /\ published[i].target = p
      OBVIOUS
    <3>3. \A i \in 1 .. n : published[i].kind \in kinds /\ published[i].target = p => i \in R
      BY <1>1
    <3> HIDE DEF R, relevant
    <3>4. PICK m \in R : \A i \in R : i <= m
      BY <1>1, <2>2, <3>1, LastNumber
    <3>5. last = published[m].kind
      BY <1>1, <1>4, <3>1, <3>4, LatestIsLast
    <3> HIDE DEF last
    <3>6. \A j \in m + 1 .. n : ~(published[j].kind \in kinds /\ published[j].target = p)
      <4>1. SUFFICES ASSUME NEW j \in m + 1 .. n, published[j].kind \in kinds, published[j].target = p
                     PROVE  FALSE
        OBVIOUS
      <4>2. m \in 1 .. n /\ j \in 1 .. n /\ m < j
        BY <1>1, <3>1, <3>4
      <4>3. j <= m
        BY <3>3, <3>4, <4>1, <4>2
      <4>4. QED
        BY <4>2, <4>3
    <3>7. ASSUME last = "PUT_USER" PROVE p \in groupMembers
      <4>1. Moderates(published, m, p) /\ m \in 1 .. n
        BY <3>1, <3>2, <3>4, <3>5, <3>7 DEF Moderates, Moderation
      <4>2. LastModerates(published, m, p, n)
        BY <3>6, <4>1 DEF LastModerates, Moderates, Moderation
      <4>3. QED
        BY <1>1, <3>5, <3>7, <4>2, LastIsUnique, NeverOrLast DEF MembersAfter
    <3>8. ASSUME last = "JOIN_REQUEST" PROVE asks
      <4>1. m \in DOMAIN published /\ published[m].kind = "JOIN_REQUEST" /\ published[m].target = p
        BY <1>1, <3>1, <3>2, <3>4, <3>5, <3>8
      <4>2. QED
        BY <3>6, <4>1
    <3>9. ASSUME asks, p \notin groupMembers PROVE last = "JOIN_REQUEST"
      <4>1. PICK i \in 1 .. n :
              /\ published[i].kind = "JOIN_REQUEST" /\ published[i].target = p
              /\ \A j \in i + 1 .. n : ~(/\ published[j].kind \in {"LEAVE_REQUEST", "REMOVE_USER"}
                                         /\ published[j].target = p)
        BY <1>1, <3>9
      <4>2. i \in R /\ i <= m /\ m \in 1 .. n
        BY <3>1, <3>3, <3>4, <4>1
      <4>3. m = i \/ m \in i + 1 .. n
        BY <1>1, <4>2
      <4>4. published[m].kind \notin {"LEAVE_REQUEST", "REMOVE_USER"}
        BY <3>2, <3>4, <4>1, <4>3
      <4>5. last # "PUT_USER"
        BY <3>7, <3>9
      <4>6. QED
        BY <3>2, <3>4, <3>5, <4>4, <4>5
    <3>10. QED
      BY <3>7, <3>8, <3>9
  <2>3. QED
    BY <2>1, <2>2
<1> HIDE DEF last, asks, status, R, relevant
<1>6. (status = "granted" <=> p \in groupMembers) /\ (status = "pending" <=> p \notin groupMembers /\ asks)
  BY <1>3, <1>5
<1>7. QED
  BY <1>6 DEF status, asks

\* So the invariant gives what is asked of the reducers.
LEMMA GroupInvSuffices == GroupInv => GroupIsReconstructed
  BY MembersFound, AdminsFound, StatusFound DEF GroupIsReconstructed


\* Members, admins and open requests are found again from any events that suffice,
\* for any number of pubkeys, roles, snapshots and moderations, and lost events.
THEOREM GroupAlwaysReconstructed == Spec => []GroupIsReconstructed
<1>1. Init => GroupInv
  BY GroupInitially DEF Init
<1>2. GroupInv /\ [Next]_vars => GroupInv'
  <2>1. [Next]_vars => GroupNext \/ (UNCHANGED groupVars /\ now' \in {now, now + 1})
    <3>1. [Next]_vars => GroupNext \/ UNCHANGED groupVars
      BY DEF Next, vars, groups
    <3>2. QED
      BY <3>1, ClockAdvances
  <2>2. QED
    BY <2>1, GroupStep
<1>3. QED
  BY <1>1, <1>2, GroupInvSuffices, PTL DEF Spec

-----------------------------------------------------------------------------
\* Forgeries: what is refused, for every sample.
\*
\* Hashes and signatures name what they are of, so a changed field no longer fits
\* the id, and a changed id the signature.  A receipt leads to its parts through
\* the first tag of a name, which FilterPicks gives; a wrap can be opened by its
\* receiver, so what decides is what the seal and the rumor say.

\* What a throw is modelled by is neither an event nor a text.
RefusedIsApart ==
  /\ \A pubkey, kind, tags, content, at : Unsigned(pubkey, kind, tags, content, at) # Refused
  /\ \A pubkey, kind, tags, content, at, id, sig :
       [pubkey |-> pubkey, kind |-> kind, tags |-> tags, content |-> content,
        created_at |-> at, id |-> id, sig |-> sig] # Refused
  /\ \A text : <<text>> # Refused

\* One more element makes another sequence, and so does one less.
LEMMA SequencesDiffer ==
  ASSUME NEW S, NEW s \in Seq(S)
  PROVE  /\ \A x : Append(s, x) # s
         /\ \A i \in DOMAIN s : RemoveAt(s, i) # s
<1>1. ASSUME NEW x PROVE Append(s, x) # s
  <2>1. s \in Seq(S \cup {x}) /\ x \in S \cup {x}
    OBVIOUS
  <2>2. Len(Append(s, x)) = Len(s) + 1 /\ Len(s) \in Nat
    BY <2>1
  <2>. QED
    BY <2>2
<1>2. ASSUME NEW i \in DOMAIN s PROVE RemoveAt(s, i) # s
  <2>1. i \in 1 .. Len(s) /\ Len(s) \in Nat
    OBVIOUS
  <2>2. SubSeq(s, 1, i - 1) \in Seq(S) /\ Len(SubSeq(s, 1, i - 1)) = i - 1
    BY <2>1
  <2>3. SubSeq(s, i + 1, Len(s)) \in Seq(S) /\ Len(SubSeq(s, i + 1, Len(s))) = Len(s) - i
    BY <2>1
  <2>4. Len(RemoveAt(s, i)) = Len(s) - 1
    BY <2>1, <2>2, <2>3 DEF RemoveAt
  <2>. QED
    BY <2>1, <2>4
<1>. QED
  BY <1>1, <1>2

\* The fields and the parts of what createSignedEvent returns.
IsSigned(event) ==
  \E pubkey, T, C :
    \E kind \in Int, created_at \in Int, tags \in Seq(T), content \in Seq(C) :
      LET id == <<0, pubkey, created_at, kind, tags, content>>
      IN  event = [pubkey |-> pubkey, kind |-> kind, tags |-> tags, content |-> content,
                   created_at |-> created_at, id |-> id, sig |-> <<pubkey, id>>]

\* One field changed: the event is another one, and its id or signature does not fit.
LEMMA AlteredIsRefused ==
  ASSUME NEW event, IsSigned(event), NEW forged \in Altered(event)
  PROVE  forged # event /\ ~IdAndSignature(forged)
<1>1. PICK p, T, C : \E kind \in Int, at \in Int, tags \in Seq(T), content \in Seq(C) :
        LET id == <<0, p, at, kind, tags, content>>
        IN  event = [pubkey |-> p, kind |-> kind, tags |-> tags, content |-> content,
                     created_at |-> at, id |-> id, sig |-> <<p, id>>]
  BY DEF IsSigned
<1>2. PICK kind \in Int, at \in Int, tags \in Seq(T), content \in Seq(C) :
        LET id == <<0, p, at, kind, tags, content>>
        IN  event = [pubkey |-> p, kind |-> kind, tags |-> tags, content |-> content,
                     created_at |-> at, id |-> id, sig |-> <<p, id>>]
  BY <1>1
<1>. DEFINE id == <<0, p, at, kind, tags, content>>
<1>3. event = [pubkey |-> p, kind |-> kind, tags |-> tags, content |-> content,
               created_at |-> at, id |-> id, sig |-> <<p, id>>]
  BY <1>2
<1>4. CASE \E other \in PublicKeys \ {event.pubkey} : forged = [event EXCEPT !.pubkey = other]
  BY <1>3, <1>4 DEF IdAndSignature, calculateEventHash
<1>5. CASE forged = [event EXCEPT !.created_at = @ + 1]
  BY <1>3, <1>5 DEF IdAndSignature, calculateEventHash
<1>6. CASE forged = [event EXCEPT !.kind = @ + 1]
  BY <1>3, <1>6 DEF IdAndSignature, calculateEventHash
<1>7. CASE forged = [event EXCEPT !.tags = Append(@, <<"t", "x">>)]
  <2>1. Append(tags, <<"t", "x">>) # tags
    BY SequencesDiffer
  <2>. QED
    BY <1>3, <1>7, <2>1 DEF IdAndSignature, calculateEventHash
<1>8. CASE forged = [event EXCEPT !.content = Append(@, "x")]
  <2>1. Append(content, "x") # content
    BY SequencesDiffer
  <2>. QED
    BY <1>3, <1>8, <2>1 DEF IdAndSignature, calculateEventHash
<1>9. CASE forged = [event EXCEPT !.sig = <<@[1], Append(@[2], 1)>>]
  <2>1. id \in Seq({0, p, at, kind, tags, content})
    OBVIOUS
  <2>2. Append(id, 1) # id
    BY <2>1, SequencesDiffer
  <2>. QED
    BY <1>3, <1>9, <2>2 DEF IdAndSignature, calculateEventHash, verifySignature
<1>10. CASE \E i \in DOMAIN event.tags : forged = [event EXCEPT !.tags = RemoveAt(@, i)]
  <2>1. \A i \in DOMAIN tags : RemoveAt(tags, i) # tags
    BY SequencesDiffer
  <2>. QED
    BY <1>3, <1>10, <2>1 DEF IdAndSignature, calculateEventHash
<1>11. CASE \E s \in {k \in SecretKeys : PublicKeyOf[k] # event.pubkey} :
              forged = [event EXCEPT !.sig = signEvent(event.id, s)]
  BY <1>3, <1>11 DEF IdAndSignature, calculateEventHash, verifySignature, signEvent
<1>12. \/ \E other \in PublicKeys \ {event.pubkey} : forged = [event EXCEPT !.pubkey = other]
       \/ forged = [event EXCEPT !.created_at = @ + 1]
       \/ forged = [event EXCEPT !.kind = @ + 1]
       \/ forged = [event EXCEPT !.tags = Append(@, <<"t", "x">>)]
       \/ forged = [event EXCEPT !.content = Append(@, "x")]
       \/ forged = [event EXCEPT !.sig = <<@[1], Append(@[2], 1)>>]
       \/ \E i \in DOMAIN event.tags : forged = [event EXCEPT !.tags = RemoveAt(@, i)]
       \/ \E s \in {k \in SecretKeys : PublicKeyOf[k] # event.pubkey} :
            forged = [event EXCEPT !.sig = signEvent(event.id, s)]
  BY Zenon DEF Altered
<1>. QED
  BY <1>4, <1>5, <1>6, <1>7, <1>8, <1>9, <1>10, <1>11, <1>12

\* Nobody but the author makes another event of a signed one.
LEMMA SignedIsUnforgeable ==
  ASSUME NEW event, IsSigned(event)
  PROVE  Unforgeable(event)
<1>1. \A forged \in Altered(event) : ~IdAndSignature(forged)
  BY AlteredIsRefused
<1>2. \A forged : ~IdAndSignature(forged) => ~RelayAccepts(forged, UnixTime)
  BY DEF RelayAccepts, validateNIP46Event, validateEvent, validateEventWithin
<1>3. \A forged : ~IdAndSignature(forged) => ~validateRelayIngressEvent(forged, UnixTime)
  BY DEF validateRelayIngressEvent
<1>. QED
  BY <1>1, <1>2, <1>3 DEF Unforgeable

\* What a builder returns, signed by its author.
LEMMA SigningSigns ==
  ASSUME NEW secret, NEW T, NEW C, NEW tags \in Seq(T), NEW content \in Seq(C),
         NEW kind \in Int, NEW at \in Int, NEW event,
         event = Unsigned(PublicKeyOf[secret], kind, tags, content, at),
         createSignedEvent(event, secret) # Refused
  PROVE  IsSigned(createSignedEvent(event, secret))
<1>. DEFINE p == PublicKeyOf[secret]
            id == <<0, p, at, kind, tags, content>>
            signed == createSignedEvent(event, secret)
<1>1. signed = [pubkey |-> p, kind |-> kind, tags |-> tags, content |-> content,
                created_at |-> at, id |-> id, sig |-> <<p, id>>]
  BY DEF createSignedEvent, Unsigned, calculateEventHash, signEvent
<1>. HIDE DEF signed, p
<1>2. IsSigned(signed)
  BY <1>1 DEF IsSigned
<1>. QED
  BY <1>2 DEF signed, p

LEMMA AddressableMade ==
  ASSUME NEW kind, NEW d, NEW content, NEW secret, NEW tags,
         createAddressableEvent(kind, d, content, secret, tags) # Refused
  PROVE  createAddressableEvent(kind, d, content, secret, tags)
           = Unsigned(PublicKeyOf[secret], kind, <<<<"d", d>>>> \o tags, content, UnixTime)
  BY DEF createAddressableEvent

LEMMA SampleIsUnforgeable ==
  ASSUME NEW s \in EventSamples, createSignedEvent(Made(s), s.secret) # Refused
  PROVE  MadeIsUnforgeable(s)
<1>. DEFINE signed == createSignedEvent(Made(s), s.secret)
<1>1. Made(s) # Refused
  BY DEF createSignedEvent
<1>. SUFFICES \E T, C : \E tags \in Seq(T), content \in Seq(C), kind \in Int :
                Made(s) = Unsigned(PublicKeyOf[s.secret], kind, tags, content, UnixTime)
  <2>1. PICK T, C : \E tags \in Seq(T), content \in Seq(C), kind \in Int :
               Made(s) = Unsigned(PublicKeyOf[s.secret], kind, tags, content, UnixTime)
    OBVIOUS
  <2>2. PICK tags \in Seq(T), content \in Seq(C), kind \in Int :
               Made(s) = Unsigned(PublicKeyOf[s.secret], kind, tags, content, UnixTime)
    BY <2>1
  <2>3. UnixTime \in Nat
    BY ConversionAssumption, Zenon
  <2>4. UnixTime \in Int
    BY <2>3
  <2>5. IsSigned(signed)
    BY <2>2, <2>4, SigningSigns, Zenon
  <2>. QED
    BY <2>5, SignedIsUnforgeable DEF MadeIsUnforgeable
<1>2. CASE s.make = "note"
  <2>1. s.tags \in Seq(Seq(STRING)) /\ s.content \in Seq(STRING)
    BY <1>2 DEF EventSamples
  <2>2. Made(s) = createTextNote(s.content, s.secret, s.tags)
    BY <1>2 DEF Made
  <2>3. Made(s) = Unsigned(PublicKeyOf[s.secret], 1, s.tags, s.content, UnixTime)
    BY <1>1, <2>2 DEF createTextNote, NostrKind
  <2>. QED
    BY <2>1, <2>3
<1>3. CASE s.make = "message"
  <2>. DEFINE tags == <<<<"p", s.to>>>> \o s.tags
              content == Cipher("nip04", s.secret, s.to, s.content)
  <2>1. s.tags \in Seq(Seq(STRING)) /\ s.content \in Seq(STRING)
    BY <1>3 DEF EventSamples
  <2>2. Made(s) = createDirectMessage(s.content, s.to, s.secret, s.tags)
    BY <1>3 DEF Made
  <2>3. Made(s) = Unsigned(PublicKeyOf[s.secret], 4, tags, content, UnixTime)
    BY <1>1, <2>2 DEF createDirectMessage, NostrKind
  <2>4. tags \in Seq(Seq(STRING) \cup {<<"p", s.to>>})
    BY <2>1
  <2>5. content \in Seq({"nip04", {PublicKeyOf[s.secret], s.to}, s.content})
    BY DEF Cipher
  <2>. HIDE DEF tags, content
  <2>. QED
    BY <2>3, <2>4, <2>5
<1>4. CASE s.make = "metadata"
  <2>1. s.content \in Seq(STRING) /\ <<>> \in Seq(Seq(STRING)) /\ 0 \in Int
    BY <1>4 DEF EventSamples
  <2>2. Made(s) = createMetadataEvent(s.content, s.secret)
    BY <1>4 DEF Made
  <2>3. Made(s) = Unsigned(PublicKeyOf[s.secret], 0, <<>>, s.content, UnixTime)
    BY <1>1, <2>2 DEF createMetadataEvent, NostrKind
  <2>. QED
    BY <2>1, <2>3
<1>5. CASE s.make = "addressable"
  <2>. DEFINE tags == <<<<"d", s.d>>>> \o s.tags
  <2>1. s.tags \in Seq(Seq(STRING)) /\ s.content \in Seq(STRING) /\ s.kind \in Int
    BY <1>5 DEF EventSamples
  <2>2. Made(s) = createAddressableEvent(s.kind, s.d, s.content, s.secret, s.tags)
    BY <1>5 DEF Made
  <2>3. Made(s) = Unsigned(PublicKeyOf[s.secret], s.kind, tags, s.content, UnixTime)
    <3>1. createAddressableEvent(s.kind, s.d, s.content, s.secret, s.tags) # Refused
      BY <1>1, <2>2
    <3>2. createAddressableEvent(s.kind, s.d, s.content, s.secret, s.tags)
            = Unsigned(PublicKeyOf[s.secret], s.kind, tags, s.content, UnixTime)
      BY <3>1, AddressableMade
    <3>. QED
      BY <2>2, <3>2
  <2>4. tags \in Seq(Seq(STRING) \cup {<<"d", s.d>>})
    BY <2>1
  <2>. HIDE DEF tags
  <2>. QED
    BY <2>1, <2>3, <2>4
<1>6. CASE s.make = "event"
  <2>1. s.tags \in Seq(Seq(STRING)) /\ s.content \in Seq(STRING) /\ s.kind \in Int
    BY <1>6 DEF EventSamples
  <2>2. Made(s) = createEvent([kind |-> s.kind, tags |-> s.tags, content |-> s.content,
                               created_at |-> 0], PublicKeyOf[s.secret])
    BY <1>6 DEF Made
  <2>3. Made(s) = Unsigned(PublicKeyOf[s.secret], s.kind, s.tags, s.content, UnixTime)
    BY <1>1, <2>2 DEF createEvent
  <2>. QED
    BY <2>1, <2>3
<1>7. s.make \in {"note", "message", "metadata", "addressable", "event"}
  BY DEF EventSamples
<1>. QED
  BY <1>2, <1>3, <1>4, <1>5, <1>6, <1>7

LEMMA SameFilter == \A s, kept : Array!filter(s, kept) = filter(s, kept)
  BY DEF Array!filter, filter

Named(tag, name) == tag # <<>> /\ tag[1] = name

\* TagsNamed begins with the first tag of the name.
LEMMA FirstNamed ==
  ASSUME NEW T, NEW tags \in Seq(T), NEW name, NEW i \in DOMAIN tags, Named(tags[i], name),
         \A j \in 1 .. i - 1 : ~Named(tags[j], name)
  PROVE  TagsNamed(tags, name) # <<>> /\ TagsNamed(tags, name)[1] = tags[i]
<1>. DEFINE kept == {tag \in Range(tags) : tag # <<>> /\ tag[1] = name}
            found == TagsNamed(tags, name)
<1>1. found = filter(tags, kept)
  BY SameFilter DEF TagsNamed
<1>2. \A j \in DOMAIN tags : tags[j] \in kept <=> Named(tags[j], name)
  BY DEF Named, Range
<1>3. DOMAIN tags = 1 .. Len(tags) /\ Len(tags) \in Nat
  OBVIOUS
<1>. HIDE DEF kept, found
<1>4. found \in Seq(T) /\ \E pos : Picks(pos, tags, kept, Len(tags), found)
  BY <1>1, FilterPicks
<1>5. PICK pos : Picks(pos, tags, kept, Len(tags), found)
  BY <1>4
<1>6. PICK k \in 1 .. Len(found) : pos[k] = i
  BY <1>2, <1>3, <1>5 DEF Picks
<1>7. Len(found) \in Nat /\ 1 \in 1 .. Len(found)
  BY <1>4, <1>6
<1>8. pos[1] \in 1 .. Len(tags) /\ found[1] = tags[pos[1]] /\ tags[pos[1]] \in kept
  BY <1>5, <1>7 DEF Picks
<1>9. pos[1] <= i
  <2>1. CASE k = 1
    BY <1>3, <1>6, <2>1
  <2>2. CASE k # 1
    <3>1. 1 < k
      BY <1>6, <1>7, <2>2
    <3>. QED
      BY <1>3, <1>5, <1>6, <1>7, <1>8, <3>1 DEF Picks
  <2>. QED
    BY <2>1, <2>2
<1>10. ~(pos[1] < i)
  <2>1. Named(tags[pos[1]], name)
    BY <1>2, <1>3, <1>8
  <2>. QED
    BY <1>3, <1>8, <2>1
<1>11. pos[1] = i
  BY <1>3, <1>8, <1>9, <1>10
<1>12. found # <<>>
  BY <1>4, <1>7
<1>. QED
  BY <1>8, <1>11, <1>12 DEF found

\* A tag of a single value, or none.
LEMMA TagIfTyped ==
  ASSUME NEW name, NEW value
  PROVE  TagIf(name, value) \in Seq({<<name, value>>})
<1>1. CASE value = ""
  <2>1. TagIf(name, value) = <<>>
    BY <1>1 DEF TagIf
  <2>. QED
    BY <2>1
<1>2. CASE value # ""
  <2>1. TagIf(name, value) = <<<<name, value>>>>
    BY <1>2 DEF TagIf
  <2>. QED
    BY <2>1
<1>. QED
  BY <1>1, <1>2

\* Nothing in s is named, and the k-th of what follows is the first that is.
LEMMA FirstAfter ==
  ASSUME NEW T, NEW s \in Seq(T), NEW rest \in Seq(T), NEW name, NEW k \in DOMAIN rest,
         Named(rest[k], name), \A j \in 1 .. k - 1 : ~Named(rest[j], name),
         \A j \in DOMAIN s : ~Named(s[j], name)
  PROVE  TagsNamed(s \o rest, name) # <<>> /\ TagsNamed(s \o rest, name)[1] = rest[k]
<1>. DEFINE tags == s \o rest
            i == Len(s) + k
<1>1. tags \in Seq(T) /\ i \in DOMAIN tags /\ tags[i] = rest[k]
  OBVIOUS
<1>2. ASSUME NEW j \in 1 .. i - 1 PROVE ~Named(tags[j], name)
  <2>1. CASE j <= Len(s)
    <3>1. j \in DOMAIN s /\ tags[j] = s[j]
      BY <2>1
    <3>. QED
      BY <3>1
  <2>2. CASE j > Len(s)
    <3>1. j - Len(s) \in 1 .. k - 1 /\ tags[j] = rest[j - Len(s)]
      BY <2>2
    <3>. QED
      BY <3>1
  <2>. QED
    BY <2>1, <2>2
<1>. HIDE DEF tags, i
<1>3. TagsNamed(tags, name) # <<>> /\ TagsNamed(tags, name)[1] = tags[i]
  BY <1>1, <1>2, FirstNamed, Zenon
<1>. QED
  BY <1>1, <1>3 DEF tags

LEMMA ReceiptTags ==
  ASSUME NEW options, NEW invoice, NEW request, NEW provider \in PublicKeys
  PROVE  LET receipt == createZapReceipt(options, invoice, request, provider)
         IN  /\ receipt.pubkey = provider
             /\ FirstTag(receipt, "p")[2] = options.recipientPubkey
             /\ FirstTag(receipt, "bolt11")[2] = invoice
             /\ FirstTag(receipt, "description")[2] = request
<1>. DEFINE p == <<"p", options.recipientPubkey>>
            e == <<"e", options.eventId>>
            P == <<"P", options.senderPubkey>>
            a == <<"a", options.aTag>>
            pre == <<p>> \o TagIf("e", options.eventId) \o TagIf("P", options.senderPubkey)
                     \o TagIf("a", options.aTag)
            rest == <<<<"bolt11", invoice>>, <<"description", request>>>>
            tags == pre \o rest
            T == {p, e, P, a, <<"bolt11", invoice>>, <<"description", request>>}
            receipt == createZapReceipt(options, invoice, request, provider)
<1>1. receipt = Unsigned(provider, ZAP_RECEIPT_KIND, tags, <<>>, UnixTime)
  BY DEF createZapReceipt, createEvent
<1>2. receipt.pubkey = provider /\ receipt.tags = tags
  BY <1>1 DEF Unsigned
<1>3. /\ TagIf("e", options.eventId) \in Seq({e})
      /\ TagIf("P", options.senderPubkey) \in Seq({P})
      /\ TagIf("a", options.aTag) \in Seq({a})
  BY TagIfTyped
<1>4. pre \in Seq({p, e, P, a}) /\ pre # <<>> /\ pre[1] = p
  <2>. HIDE DEF p, e, P, a
  <2>. QED
    BY <1>3
<1>5. \A name \in {"bolt11", "description"}, tag \in {p, e, P, a} : ~Named(tag, name)
  BY DEF Named
<1>6. Named(p, "p") /\ Named(rest[1], "bolt11") /\ Named(rest[2], "description")
      /\ ~Named(rest[1], "description")
  BY DEF Named
<1>7. rest \in Seq(T) /\ DOMAIN rest = 1 .. 2
  OBVIOUS
<1>8. rest[1] = <<"bolt11", invoice>> /\ rest[2] = <<"description", request>>
  OBVIOUS
<1>9. {p, e, P, a} \subseteq T
  OBVIOUS
<1>10. p[2] = options.recipientPubkey /\ rest[1][2] = invoice /\ rest[2][2] = request
  OBVIOUS
<1>. HIDE DEF p, e, P, a, pre, rest, T, receipt
<1>11. pre \in Seq(T) /\ DOMAIN pre = 1 .. Len(pre) /\ Len(pre) \in Nat
  BY <1>4, <1>9
<1>12. \A j \in DOMAIN pre : pre[j] \in {p, e, P, a}
  BY <1>4
<1>13. TagsNamed(tags, "p")[1] = p
  <2>1. tags \in Seq(T) /\ 1 \in DOMAIN tags /\ tags[1] = p
    BY <1>4, <1>7, <1>11
  <2>2. \A j \in 1 .. 1 - 1 : ~Named(tags[j], "p")
    OBVIOUS
  <2>3. Named(tags[1], "p")
    BY <1>6, <2>1
  <2>. HIDE DEF tags
  <2>4. TagsNamed(tags, "p")[1] = tags[1]
    BY <2>1, <2>2, <2>3, FirstNamed, Zenon
  <2>. QED
    BY <2>1, <2>4
<1>14. TagsNamed(tags, "bolt11")[1] = rest[1]
  <2>1. 1 \in DOMAIN rest /\ \A j \in 1 .. 1 - 1 : ~Named(rest[j], "bolt11")
    BY <1>7
  <2>2. \A j \in DOMAIN pre : ~Named(pre[j], "bolt11")
    BY <1>5, <1>12
  <2>. QED
    BY <1>6, <1>7, <1>11, <2>1, <2>2, FirstAfter
<1>15. TagsNamed(tags, "description")[1] = rest[2]
  <2>1. 2 \in DOMAIN rest /\ \A j \in 1 .. 2 - 1 : ~Named(rest[j], "description")
    BY <1>6, <1>7
  <2>2. \A j \in DOMAIN pre : ~Named(pre[j], "description")
    BY <1>5, <1>12
  <2>. QED
    BY <1>6, <1>7, <1>11, <2>1, <2>2, FirstAfter
<1>. QED
  BY <1>2, <1>10, <1>13, <1>14, <1>15 DEF FirstTag, receipt

LEMMA BeginsWith ==
  ASSUME NEW S, NEW s \in Seq(S), NEW x
  PROVE  <<x>> \o s # <<>>
<1>. DEFINE T == S \cup {x}
<1>1. s \in Seq(T) /\ x \in T
  OBVIOUS
<1>. HIDE DEF T
<1>2. Len(<<x>> \o s) = 1 + Len(s) /\ Len(s) \in Nat
  BY <1>1
<1>. QED
  BY <1>2

\* A zap request of a client is made, signed and names its recipient.
LEMMA RequestSigned ==
  ASSUME RefusedIsApart, NEW s \in ZapSamples
  PROVE  LET made == createZapRequest(s.options, PublicKeyOf[s.secret])
             request == createSignedEvent(made, s.secret)
         IN  IsSigned(request) /\ FirstTag(request, "p")[2] = s.options.recipientPubkey
<1>. DEFINE options == s.options
            signer == PublicKeyOf[s.secret]
            made == createZapRequest(options, signer)
            request == createSignedEvent(made, s.secret)
            p == <<"p", options.recipientPubkey>>
            r == <<"relays">> \o options.relays
            amount == <<"amount", Decimal(options.amount)>>
            T == {p, r, <<"e", options.eventId>>, amount, <<"lnurl", options.lnurl>>,
                  <<"a", options.aTag>>, <<"P", options.senderPubkey>>}
            tags == <<p, r>> \o TagIf("e", options.eventId) \o AmountTag(options.amount)
                      \o TagIf("lnurl", options.lnurl) \o TagIf("a", options.aTag)
                      \o SenderTag(options, signer)
<1>1. s.secret \in SecretKeys /\ signer \in PublicKeys /\ UnixTime \in Nat
  BY ConversionAssumption DEF ZapSamples
<1>2. options.relays \in Seq(STRING) /\ options.content \in Seq(STRING)
  BY DEF ZapSamples
<1>3. made = Unsigned(signer, 9734, tags, options.content, UnixTime)
  BY <1>1 DEF createZapRequest, createEvent, ZAP_REQUEST_KIND
<1>4. r # <<>> /\ p # <<>> /\ amount # <<>>
  <2>1. r # <<>>
    BY <1>2, BeginsWith
  <2>. QED
    BY <2>1
<1>5. \A t \in T : t # <<>>
  BY <1>4
<1>6. Named(p, "p") /\ p[2] = options.recipientPubkey
  BY DEF Named
<1>7. /\ TagIf("e", options.eventId) \in Seq(T) /\ TagIf("lnurl", options.lnurl) \in Seq(T)
      /\ TagIf("a", options.aTag) \in Seq(T) /\ TagIf("P", options.senderPubkey) \in Seq(T)
  <2>1. /\ TagIf("e", options.eventId) \in Seq({<<"e", options.eventId>>})
        /\ TagIf("lnurl", options.lnurl) \in Seq({<<"lnurl", options.lnurl>>})
        /\ TagIf("a", options.aTag) \in Seq({<<"a", options.aTag>>})
        /\ TagIf("P", options.senderPubkey) \in Seq({<<"P", options.senderPubkey>>})
    BY TagIfTyped
  <2>2. \A x \in T : Seq({x}) \subseteq Seq(T)
    <3>. HIDE DEF T
    <3>. QED
      OBVIOUS
  <2>. QED
    BY <2>1, <2>2
<1>8. AmountTag(options.amount) \in Seq(T)
  <2>1. CASE options.amount = 0
    <3>1. AmountTag(options.amount) = <<>>
      BY <2>1 DEF AmountTag
    <3>. QED
      BY <3>1
  <2>2. CASE options.amount # 0
    <3>1. AmountTag(options.amount) = <<amount>> /\ amount \in T
      BY <2>2 DEF AmountTag
    <3>. HIDE DEF T, amount
    <3>. QED
      BY <3>1
  <2>. QED
    BY <2>1, <2>2
<1>9. SenderTag(options, signer) \in Seq(T)
  <2>1. CASE options.senderPubkey # signer
    BY <1>7, <2>1 DEF SenderTag
  <2>2. CASE options.senderPubkey = signer
    <3>1. SenderTag(options, signer) = <<>>
      BY <2>2 DEF SenderTag
    <3>. QED
      BY <3>1
  <2>. QED
    BY <2>1, <2>2
<1>10. p \in T /\ r \in T
  OBVIOUS
<1>. HIDE DEF T, p, r, amount
<1>11. tags \in Seq(T) /\ tags # <<>> /\ tags[1] = p
  BY <1>7, <1>8, <1>9, <1>10
<1>. HIDE DEF tags
<1>12. request # Refused /\ request.tags = tags
  <2>1. made # Refused
    BY <1>3 DEF RefusedIsApart
  <2>2. \A i \in DOMAIN made.tags : made.tags[i] # <<>>
    BY <1>3, <1>5, <1>11 DEF Unsigned
  <2>3. validateNostrEventPayload(made, FALSE)
    BY <1>1, <1>3, <2>2 DEF Unsigned, validateNostrEventPayload
  <2>4. request = [pubkey |-> made.pubkey, kind |-> made.kind, tags |-> made.tags,
                   content |-> made.content, created_at |-> made.created_at,
                   id |-> calculateEventHash(made),
                   sig |-> signEvent(calculateEventHash(made), s.secret)]
    BY <1>1, <2>1, <2>3 DEF createSignedEvent
  <2>5. request.tags = tags
    BY <1>3, <2>4 DEF Unsigned
  <2>6. request # Refused
    BY <2>4 DEF RefusedIsApart
  <2>. QED
    BY <2>5, <2>6
<1>13. IsSigned(request)
  <2>1. PICK kind \in Int : made = Unsigned(signer, kind, tags, options.content, UnixTime)
    BY <1>3
  <2>2. UnixTime \in Int
    BY <1>1
  <2>. HIDE DEF options, made
  <2>. QED
    BY <1>2, <1>11, <1>12, <2>1, <2>2, SigningSigns, Zenon
<1>14. TagsNamed(tags, "p")[1] = p
  <2>1. 1 \in DOMAIN tags /\ (\A j \in 1 .. 1 - 1 : ~Named(tags[j], "p"))
    <3>1. Len(tags) \in Nat /\ Len(tags) # 0
      BY <1>11
    <3>. QED
      BY <1>11, <3>1
  <2>2. Named(tags[1], "p")
    BY <1>6, <1>11
  <2>3. TagsNamed(tags, "p")[1] = tags[1]
    BY <1>11, <2>1, <2>2, FirstNamed
  <2>. QED
    BY <1>11, <2>3
<1>. QED
  BY <1>6, <1>12, <1>13, <1>14 DEF FirstTag

LEMMA SampleIsAttributed ==
  ASSUME RefusedIsApart, NEW s \in ZapSamples
  PROVE  ZapIsAttributed(s.options, s.secret, s.provider)
<1>. DEFINE options == s.options
            request == createSignedEvent(createZapRequest(options, PublicKeyOf[s.secret]), s.secret)
            receiver == PublicKeyOf[s.provider]
<1>1. IsSigned(request) /\ FirstTag(request, "p")[2] = options.recipientPubkey
  BY RequestSigned, Zenon
<1>2. receiver \in PublicKeys
  BY ConversionAssumption DEF ZapSamples
<1>3. \A p : [options EXCEPT !.recipientPubkey = p].recipientPubkey = p
  BY DEF ZapSamples
<1>4. \A other \in Altered(request) : other # request
  BY <1>1, AlteredIsRefused
<1>. HIDE DEF request, receiver, options
<1>5. \A receipt : ~RequestMatches(receipt, FirstTag(receipt, "description")[2])
                     => validateZapReceipt(receipt, receiver) = InvalidZap
  BY Zenon DEF validateZapReceipt
<1>6. ASSUME NEW other \in PublicKeys \ {receiver}
      PROVE  validateZapReceipt(createZapReceipt(options, InvoiceFor(request), request, receiver), other)
               = InvalidZap
  <2>1. createZapReceipt(options, InvoiceFor(request), request, receiver).pubkey = receiver
    BY <1>2, ReceiptTags
  <2>. QED
    BY <2>1 DEF validateZapReceipt
<1>7. ASSUME NEW wrong \in Misattributed(options, request, receiver)
      PROVE  ~RequestMatches(wrong, FirstTag(wrong, "description")[2])
  <2>1. CASE \E p \in PublicKeys \ {options.recipientPubkey} :
               wrong = createZapReceipt([options EXCEPT !.recipientPubkey = p], InvoiceFor(request),
                                        request, receiver)
    <3>1. PICK p \in PublicKeys \ {options.recipientPubkey} :
               wrong = createZapReceipt([options EXCEPT !.recipientPubkey = p], InvoiceFor(request),
                                        request, receiver)
      BY <2>1
    <3>. DEFINE others == [options EXCEPT !.recipientPubkey = p]
    <3>2. others.recipientPubkey = p
      BY <1>3
    <3>3. wrong = createZapReceipt(others, InvoiceFor(request), request, receiver)
      BY <3>1
    <3>. HIDE DEF others
    <3>4. /\ FirstTag(wrong, "p")[2] = others.recipientPubkey
          /\ FirstTag(wrong, "description")[2] = request
      BY <1>2, <3>3, ReceiptTags
    <3>. QED
      BY <1>1, <3>1, <3>2, <3>4 DEF RequestMatches
  <2>2. CASE \E other \in Altered(request) :
               wrong = createZapReceipt(options, InvoiceFor(request), other, receiver)
    <3>1. PICK other \in Altered(request) :
               wrong = createZapReceipt(options, InvoiceFor(request), other, receiver)
      BY <2>2
    <3>2. FirstTag(wrong, "bolt11")[2] = InvoiceFor(request) /\ FirstTag(wrong, "description")[2] = other
      BY <1>2, <3>1, ReceiptTags
    <3>3. InvoiceFor(request).descriptionHash # sha256(other)
      BY <1>4 DEF InvoiceFor, sha256
    <3>. QED
      BY <3>2, <3>3 DEF RequestMatches
  <2>3. CASE \E other \in Altered(request) :
               wrong = createZapReceipt(options, InvoiceFor(other), request, receiver)
    <3>1. PICK other \in Altered(request) :
               wrong = createZapReceipt(options, InvoiceFor(other), request, receiver)
      BY <2>3
    <3>2. FirstTag(wrong, "bolt11")[2] = InvoiceFor(other) /\ FirstTag(wrong, "description")[2] = request
      BY <1>2, <3>1, ReceiptTags
    <3>3. InvoiceFor(other).descriptionHash # sha256(request)
      BY <1>4 DEF InvoiceFor, sha256
    <3>. QED
      BY <3>2, <3>3 DEF RequestMatches
  <2>4. CASE wrong = createZapReceipt(options, [decodes |-> FALSE], request, receiver)
    <3>1. FirstTag(wrong, "bolt11")[2] = [decodes |-> FALSE]
      BY <1>2, <2>4, ReceiptTags
    <3>2. FirstTag(wrong, "bolt11")[2].decodes = FALSE
      BY <3>1
    <3>. QED
      BY <3>2 DEF RequestMatches
  <2>. QED
    BY <2>1, <2>2, <2>3, <2>4 DEF Misattributed
<1>8. \A wrong \in Misattributed(options, request, receiver) :
        validateZapReceipt(wrong, receiver) = InvalidZap
  BY <1>5, <1>7
<1>. QED
  BY <1>6, <1>8 DEF ZapIsAttributed, request, receiver, options

\* The ciphertext, the MAC and the payload of a text, for two parties and a nonce.
CipherOf(parties, nonce, text) == <<getMessageKeys(parties, nonce).chacha, text>>
MacOf(parties, nonce, ciphertext) == hmacWithAAD(getMessageKeys(parties, nonce).hmac, ciphertext, nonce)
PayloadOf(parties, nonce, text, version) ==
  [encoding |-> "base64", version |-> version, nonce |-> nonce, ciphertext |-> CipherOf(parties, nonce, text),
   mac |-> MacOf(parties, nonce, CipherOf(parties, nonce, text))]

\* What encryption makes.
LEMMA Encrypts ==
  ASSUME NEW secret \in SecretKeys, NEW receiver \in PublicKeys, NEW text, text # <<>>, NEW n
  PROVE  encryptNIP44(text, secret, receiver, FreshNonce(n), 2)
           = PayloadOf({PublicKeyOf[secret], receiver}, FreshNonce(n), text, 2)
<1>1. getSharedSecret(secret, receiver) = {PublicKeyOf[secret], receiver}
  BY DEF getSharedSecret, isValidPrivateKey, isValidPublicKeyPoint
<1>2. FreshNonce(n).size = 32
  BY DEF FreshNonce
<1>. QED
  BY <1>1, <1>2, Zenon
  DEF encryptNIP44, encryptV2, isValidPrivateKey, isValidPublicKeyPoint, PayloadOf, CipherOf, MacOf

\* The MAC tells keys, nonce and ciphertext.
LEMMA MacsDiffer ==
  ASSUME NEW parties, NEW other, NEW nonce, NEW otherNonce, NEW text, NEW otherText
  PROVE  MacOf(parties, nonce, text) = MacOf(other, otherNonce, otherText)
           <=> parties = other /\ nonce = otherNonce /\ text = otherText
  BY DEF MacOf, hmacWithAAD, getMessageKeys

LEMMA CiphersDiffer ==
  ASSUME NEW parties, NEW other, NEW nonce, NEW otherNonce, NEW text, NEW otherText
  PROVE  CipherOf(parties, nonce, text) = CipherOf(other, otherNonce, otherText)
           <=> parties = other /\ nonce = otherNonce /\ text = otherText
  BY DEF CipherOf, getMessageKeys

\* A payload is read if its MAC is of the reader's keys, its nonce and its ciphertext.
LEMMA Decrypts ==
  ASSUME NEW reader \in SecretKeys, NEW writer \in PublicKeys, NEW payload,
         payload.encoding = "base64", payload.version \in Nat
  PROVE  decryptNIP44(payload, reader, writer)
           = IF /\ payload.version <= 2
                /\ payload.mac = MacOf({PublicKeyOf[reader], writer}, payload.nonce, payload.ciphertext)
             THEN payload.ciphertext[2] ELSE Refused
<1>1. getSharedSecret(reader, writer) = {PublicKeyOf[reader], writer}
  BY DEF getSharedSecret, isValidPrivateKey, isValidPublicKeyPoint
<1>2. decodes(payload) <=> payload.version <= 2
  BY DEF decodes
<1>3. decryptNIP44(payload, reader, writer)
        = IF payload.version <= 2 THEN decryptV2(payload, reader, writer) ELSE Refused
  BY <1>2 DEF decryptNIP44, isValidPrivateKey, isValidPublicKeyPoint
<1>4. decryptV2(payload, reader, writer)
        = IF MacOf({PublicKeyOf[reader], writer}, payload.nonce, payload.ciphertext) # payload.mac
          THEN Refused ELSE payload.ciphertext[2]
  BY <1>1, Zenon DEF decryptV2, MacOf
<1>. QED
  BY <1>3, <1>4

\* A text is read by its parties, and refused to anybody else.
ReadBy(payload, reader, writer, parties, text) ==
  decryptNIP44(payload, reader, writer)
    = IF {PublicKeyOf[reader], writer} = parties THEN text ELSE Refused

LEMMA PartiesRead ==
  ASSUME NEW secret \in SecretKeys, NEW receiver \in PublicKeys, NEW text, text # <<>>, NEW n,
         NEW reader \in SecretKeys, NEW writer \in PublicKeys
  PROVE  ReadBy(encryptNIP44(text, secret, receiver, FreshNonce(n), 2), reader, writer,
                {PublicKeyOf[secret], receiver}, text)
<1>. DEFINE parties == {PublicKeyOf[secret], receiver}
            own == {PublicKeyOf[reader], writer}
            nonce == FreshNonce(n)
            payload == encryptNIP44(text, secret, receiver, nonce, 2)
            ciphertext == CipherOf(parties, nonce, text)
<1>1. payload = PayloadOf(parties, nonce, text, 2)
  BY Encrypts
<1>2. /\ payload.encoding = "base64" /\ payload.version = 2 /\ payload.nonce = nonce
      /\ payload.ciphertext = ciphertext /\ payload.mac = MacOf(parties, nonce, ciphertext)
  BY <1>1 DEF PayloadOf
<1>3. ciphertext[2] = text
  BY DEF CipherOf
<1>. HIDE DEF parties, own, nonce, payload, ciphertext
<1>4. payload.mac = MacOf(own, payload.nonce, payload.ciphertext) <=> own = parties
  BY <1>2, MacsDiffer
<1>5. payload.version \in Nat /\ payload.version <= 2
  BY <1>2
<1>6. decryptNIP44(payload, reader, writer)
        = IF payload.version <= 2 /\ payload.mac = MacOf(own, payload.nonce, payload.ciphertext)
          THEN payload.ciphertext[2] ELSE Refused
  BY <1>2, <1>5, Decrypts DEF own
<1>7. decryptNIP44(payload, reader, writer) = IF own = parties THEN text ELSE Refused
  BY <1>2, <1>3, <1>4, <1>5, <1>6
<1>. QED
  BY <1>7 DEF ReadBy, own, parties, payload, nonce

\* The receiver reads what was written for it.
LEMMA PartnerReads ==
  ASSUME NEW secret \in SecretKeys, NEW reader \in SecretKeys, NEW text, text # <<>>, NEW n,
         PublicKeyOf[secret] \in PublicKeys, PublicKeyOf[reader] \in PublicKeys
  PROVE  decryptNIP44(encryptNIP44(text, secret, PublicKeyOf[reader], FreshNonce(n), 2), reader,
                      PublicKeyOf[secret]) = text
<1>1. {PublicKeyOf[reader], PublicKeyOf[secret]} = {PublicKeyOf[secret], PublicKeyOf[reader]}
  OBVIOUS
<1>2. ReadBy(encryptNIP44(text, secret, PublicKeyOf[reader], FreshNonce(n), 2), reader,
             PublicKeyOf[secret], {PublicKeyOf[secret], PublicKeyOf[reader]}, text)
  BY PartiesRead, Zenon
<1>. QED
  BY <1>1, <1>2, Zenon DEF ReadBy

NoTagEmpty(tags) == \A i \in DOMAIN tags : tags[i] # <<>>

\* A signed event with these fields.
SignedEvent(signed, pubkey, kind, tags, content, at) ==
  /\ signed # Refused
  /\ signed.pubkey = pubkey /\ signed.kind = kind /\ signed.tags = tags
  /\ signed.content = content /\ signed.created_at = at
  /\ IdAndSignature(signed)

\* An event with the author's key and a time that is known is signed.
LEMMA SignsEvent ==
  ASSUME RefusedIsApart, NEW secret \in SecretKeys, PublicKeyOf[secret] \in PublicKeys, NEW kind,
         NEW tags, NoTagEmpty(tags), NEW content, NEW at \in Nat
  PROVE  SignedEvent(createSignedEvent(Unsigned(PublicKeyOf[secret], kind, tags, content, at), secret),
                     PublicKeyOf[secret], kind, tags, content, at)
<1>. DEFINE event == Unsigned(PublicKeyOf[secret], kind, tags, content, at)
            id == calculateEventHash(event)
            signed == createSignedEvent(event, secret)
<1>1. /\ event.pubkey = PublicKeyOf[secret] /\ event.kind = kind /\ event.tags = tags
      /\ event.content = content /\ event.created_at = at
  BY DEF Unsigned
<1>2. event # Refused
  BY DEF RefusedIsApart
<1>3. id = <<0, PublicKeyOf[secret], at, kind, tags, content>>
  BY <1>1 DEF calculateEventHash
<1>. HIDE DEF event, id
<1>4. validateNostrEventPayload(event, FALSE)
  BY <1>1 DEF validateNostrEventPayload, NoTagEmpty
<1>5. signed = [pubkey |-> event.pubkey, kind |-> event.kind, tags |-> event.tags,
                content |-> event.content, created_at |-> event.created_at,
                id |-> id, sig |-> signEvent(id, secret)]
  BY <1>2, <1>4 DEF createSignedEvent, id
<1>6. signed # Refused
  BY <1>5 DEF RefusedIsApart
<1>. HIDE DEF signed
<1>7. IdAndSignature(signed)
  BY <1>1, <1>3, <1>5 DEF IdAndSignature, calculateEventHash, verifySignature, signEvent
<1>8. SignedEvent(signed, PublicKeyOf[secret], kind, tags, content, at)
  BY <1>1, <1>5, <1>6, <1>7 DEF SignedEvent
<1>. QED
  BY <1>8 DEF event, signed

LEMMA SampleIsItsAuthors ==
  ASSUME RefusedIsApart, NEW s \in RumorSamples
  PROVE  RumorIsItsAuthors(s.named, s.kind, s.secret, s.receiver, s.ephemeral, s.sealKind, s.wrapKind)
<1>. DEFINE pk(k) == PublicKeyOf[k]
            rumor == Unsigned(s.named, s.kind, <<>>, <<"hi">>, UnixTime)
            sealed == seal(rumor, s.secret, pk(s.receiver), s.sealKind, 0)
            made == wrap(sealed, s.ephemeral, pk(s.receiver), s.wrapKind, 0)
            hidden == encryptNIP44(<<rumor>>, s.secret, pk(s.receiver), FreshNonce(1), 2)
            wrapped == encryptNIP44(<<sealed>>, s.ephemeral, pk(s.receiver), FreshNonce(2), 2)
<1>1. /\ s.secret \in SecretKeys /\ s.receiver \in SecretKeys /\ s.ephemeral \in SecretKeys
      /\ s.kind \in Nat /\ s.sealKind \in Nat /\ s.wrapKind \in Nat
  BY DEF RumorSamples
<1>2. \A k \in SecretKeys : PublicKeyOf[k] \in PublicKeys
  BY ConversionAssumption
<1>3. UnixTime - 0 = UnixTime /\ UnixTime \in Nat
  <2>1. UnixTime \in Nat
    BY ConversionAssumption, Zenon
  <2>. QED
    BY <2>1
<1>4. rumor # Refused /\ rumor.pubkey = s.named /\ rumor.kind = s.kind
  BY DEF Unsigned, RefusedIsApart
<1>. HIDE DEF rumor
<1>5. sealed # Refused /\ sealed.pubkey = pk(s.secret) /\ sealed.kind = s.sealKind
      /\ sealed.content = hidden
  <2>. DEFINE tags == <<>>
  <2>1. sealed = createSignedEvent(Unsigned(pk(s.secret), s.sealKind, tags, hidden, UnixTime), s.secret)
    BY <1>3 DEF seal, randomTimestampInPast
  <2>2. NoTagEmpty(tags)
    BY DEF NoTagEmpty
  <2>3. s.secret \in SecretKeys /\ PublicKeyOf[s.secret] \in PublicKeys /\ UnixTime \in Nat
    BY <1>1, <1>2, <1>3
  <2>. HIDE DEF hidden, sealed, tags
  <2>4. SignedEvent(sealed, PublicKeyOf[s.secret], s.sealKind, tags, hidden, UnixTime)
    BY <2>1, <2>2, <2>3, SignsEvent
  <2>. QED
    BY <2>4 DEF SignedEvent
<1>. HIDE DEF sealed
<1>6. made # Refused /\ made.pubkey = pk(s.ephemeral) /\ made.kind = s.wrapKind
      /\ made.content = wrapped
  <2>. DEFINE tags == <<<<"p", pk(s.receiver)>>>>
  <2>1. made = createSignedEvent(Unsigned(pk(s.ephemeral), s.wrapKind, tags, wrapped, UnixTime), s.ephemeral)
    BY <1>3 DEF wrap, randomTimestampInPast
  <2>2. NoTagEmpty(tags)
    BY DEF NoTagEmpty
  <2>3. s.ephemeral \in SecretKeys /\ PublicKeyOf[s.ephemeral] \in PublicKeys /\ UnixTime \in Nat
    BY <1>1, <1>2, <1>3
  <2>. HIDE DEF wrapped, made, tags
  <2>4. SignedEvent(made, PublicKeyOf[s.ephemeral], s.wrapKind, tags, wrapped, UnixTime)
    BY <2>1, <2>2, <2>3, SignsEvent
  <2>. QED
    BY <2>4 DEF SignedEvent
<1>. HIDE DEF made
<1>7. decryptNIP44(made.content, s.receiver, made.pubkey) = <<sealed>>
  <2>1. <<sealed>> # <<>>
    OBVIOUS
  <2>2. pk(s.ephemeral) \in PublicKeys /\ pk(s.receiver) \in PublicKeys
    BY <1>1, <1>2
  <2>3. decryptNIP44(wrapped, s.receiver, pk(s.ephemeral)) = <<sealed>>
    BY <1>1, <2>1, <2>2, PartnerReads, Zenon
  <2>. QED
    BY <1>6, <2>3
<1>8. decryptNIP44(sealed.content, s.receiver, sealed.pubkey) = <<rumor>>
  <2>1. <<rumor>> # <<>>
    OBVIOUS
  <2>2. pk(s.secret) \in PublicKeys /\ pk(s.receiver) \in PublicKeys
    BY <1>1, <1>2
  <2>3. decryptNIP44(hidden, s.receiver, pk(s.secret)) = <<rumor>>
    BY <1>1, <2>1, <2>2, PartnerReads, Zenon
  <2>. QED
    BY <1>5, <2>3
<1>9. /\ <<sealed>> # Refused /\ <<sealed>>[1] = sealed
      /\ <<rumor>> # Refused /\ <<rumor>>[1] = rumor
  BY DEF RefusedIsApart
<1>10. openSeal(sealed, s.receiver)
         = IF s.sealKind # 13 \/ s.named # pk(s.secret) \/ s.kind \notin {14, 15}
           THEN Refused ELSE rumor
  BY <1>4, <1>5, <1>8, <1>9 DEF openSeal, sameSender, SEAL_KIND, DM_KIND, FILE_KIND
<1>11. decryptDirectMessage(made, s.receiver)
         = IF s.wrapKind # 1059 THEN Refused ELSE openSeal(sealed, s.receiver)
  BY <1>6, <1>7, <1>9 DEF decryptDirectMessage, GIFT_WRAP_KIND
<1>12. decryptDirectMessage(made, s.receiver) # Refused
         <=> /\ s.named = pk(s.secret) /\ s.kind \in {14, 15} /\ s.sealKind = 13 /\ s.wrapKind = 1059
  BY <1>4, <1>10, <1>11
<1>. QED
  BY <1>12 DEF RumorIsItsAuthors, rumor, sealed, made

\* A conversion keeps the sample it is given.
ForgeryTried ==
  /\ part = "event" => sample \in SamplesOf("event")
  /\ part = "zap" => sample \in SamplesOf("zap")
  /\ part = "rumor" => sample \in SamplesOf("rumor")

\* No event, zap receipt or direct message is taken for what it is not.
THEOREM ForgeriesAlwaysRefused ==
  ASSUME RefusedIsApart
  PROVE  Spec => []ForgeriesRefused
<1>1. Init => ForgeryTried
  BY DEF Init, ForgeryTried, SamplesOf, Parts
<1>2. ForgeryTried /\ [Next]_vars => ForgeryTried'
  BY DEF Next, vars, ForgeryTried, SamplesOf
<1>3. ForgeryTried => ForgeriesRefused
  <2>1. part = "event" /\ ForgeryTried => MadeIsUnforgeable(sample)
    BY SamplesAssumption, SampleIsUnforgeable DEF ForgeryTried
  <2>2. part = "zap" /\ ForgeryTried
          => ZapIsAttributed(sample.options, sample.secret, sample.provider)
    BY SamplesAssumption, SampleIsAttributed DEF ForgeryTried
  <2>3. part = "rumor" /\ ForgeryTried
          => RumorIsItsAuthors(sample.named, sample.kind, sample.secret, sample.receiver,
                               sample.ephemeral, sample.sealKind, sample.wrapKind)
    BY SamplesAssumption, SampleIsItsAuthors DEF ForgeryTried
  <2>. QED
    BY <2>1, <2>2, <2>3 DEF ForgeriesRefused
<1>. QED
  BY <1>1, <1>2, <1>3, PTL DEF Spec

-----------------------------------------------------------------------------
\* Reading back: secrets and answers to challenges, for every sample.
\*
\* The MAC names keys, nonce and ciphertext, so of a payload that is read all
\* three are those it was made with; a key of NIP-04 names both parties; and a
\* signed event carries its tags, whose first of a name getTagValue finds.

\* Both parties read a payload, and nobody reads one mixed from two.
LEMMA SecretReads ==
  ASSUME NEW s \in SecretSamples
  PROVE  SecretReadsBack(s.first, s.second, s.secret, s.receiver, s.reader, s.writer, s.version)
<1>. DEFINE parties == {PublicKeyOf[s.secret], s.receiver}
            own == {PublicKeyOf[s.reader], s.writer}
            one == FreshNonce(1)
            two == FreshNonce(2)
            firstMade == PayloadOf(parties, one, s.first, 2)
            secondMade == PayloadOf(parties, two, s.second, 2)
            payload == PayloadOf(parties, one, s.first, s.version)
            firstCipher == CipherOf(parties, one, s.first)
            secondCipher == CipherOf(parties, two, s.second)
<1>1. /\ s.secret \in SecretKeys /\ s.reader \in SecretKeys /\ s.version \in Nat
      /\ s.receiver \in PublicKeys /\ s.writer \in PublicKeys /\ s.first # <<>> /\ s.second # <<>>
  BY DEF SecretSamples
<1>2. /\ encryptNIP44(s.first, s.secret, s.receiver, one, 2) = firstMade
      /\ encryptNIP44(s.second, s.secret, s.receiver, two, 2) = secondMade
  BY <1>1, Encrypts
<1>3. one # two
  BY DEF FreshNonce
<1>4. firstCipher # secondCipher /\ firstCipher[2] = s.first
  BY <1>3, CiphersDiffer DEF CipherOf
<1>5. [firstMade EXCEPT !.version = s.version] = payload
  BY DEF PayloadOf
<1>6. /\ secondMade.nonce = two /\ secondMade.ciphertext = secondCipher
      /\ secondMade.mac = MacOf(parties, two, secondCipher)
  BY DEF PayloadOf
<1>7. payload = [encoding |-> "base64", version |-> s.version, nonce |-> one,
                 ciphertext |-> firstCipher, mac |-> MacOf(parties, one, firstCipher)]
  BY DEF PayloadOf
<1>. HIDE DEF firstMade, secondMade, payload, firstCipher, secondCipher, parties, own, one, two
<1>8. ASSUME NEW p, p.encoding = "base64", p.version = s.version
      PROVE  decryptNIP44(p, s.reader, s.writer)
               = IF p.version <= 2 /\ p.mac = MacOf(own, p.nonce, p.ciphertext)
                 THEN p.ciphertext[2] ELSE Refused
  BY <1>1, <1>8, Decrypts DEF own
<1>9. decryptNIP44(payload, s.reader, s.writer)
        = IF own = parties /\ s.version <= 2 THEN s.first ELSE Refused
  <2>1. /\ payload.encoding = "base64" /\ payload.version = s.version /\ payload.nonce = one
        /\ payload.ciphertext = firstCipher /\ payload.mac = MacOf(parties, one, firstCipher)
    BY <1>7
  <2>2. MacOf(parties, one, firstCipher) = MacOf(own, one, firstCipher) <=> own = parties
    BY MacsDiffer
  <2>. QED
    BY <1>4, <1>8, <2>1, <2>2
<1>10. decryptNIP44([payload EXCEPT !.nonce = secondMade.nonce], s.reader, s.writer) = Refused
  <2>. DEFINE p == [payload EXCEPT !.nonce = secondMade.nonce]
  <2>1. /\ p.encoding = "base64" /\ p.version = s.version /\ p.nonce = two
        /\ p.ciphertext = firstCipher /\ p.mac = MacOf(parties, one, firstCipher)
    BY <1>6, <1>7
  <2>2. MacOf(parties, one, firstCipher) # MacOf(own, two, firstCipher)
    BY <1>3, MacsDiffer
  <2>. HIDE DEF p
  <2>3. decryptNIP44(p, s.reader, s.writer) = Refused
    BY <1>8, <2>1, <2>2
  <2>. QED
    BY <2>3 DEF p
<1>11. decryptNIP44([payload EXCEPT !.ciphertext = secondMade.ciphertext], s.reader, s.writer) = Refused
  <2>. DEFINE p == [payload EXCEPT !.ciphertext = secondMade.ciphertext]
  <2>1. /\ p.encoding = "base64" /\ p.version = s.version /\ p.nonce = one
        /\ p.ciphertext = secondCipher /\ p.mac = MacOf(parties, one, firstCipher)
    BY <1>6, <1>7
  <2>2. MacOf(parties, one, firstCipher) # MacOf(own, one, secondCipher)
    BY <1>4, MacsDiffer
  <2>. HIDE DEF p
  <2>3. decryptNIP44(p, s.reader, s.writer) = Refused
    BY <1>8, <2>1, <2>2
  <2>. QED
    BY <2>3 DEF p
<1>12. decryptNIP44([payload EXCEPT !.mac = secondMade.mac], s.reader, s.writer) = Refused
  <2>. DEFINE p == [payload EXCEPT !.mac = secondMade.mac]
  <2>1. /\ p.encoding = "base64" /\ p.version = s.version /\ p.nonce = one
        /\ p.ciphertext = firstCipher /\ p.mac = MacOf(parties, two, secondCipher)
    BY <1>6, <1>7
  <2>2. MacOf(parties, two, secondCipher) # MacOf(own, one, firstCipher)
    BY <1>3, MacsDiffer
  <2>. HIDE DEF p
  <2>3. decryptNIP44(p, s.reader, s.writer) = Refused
    BY <1>8, <2>1, <2>2
  <2>. QED
    BY <2>3 DEF p
<1>. QED
  BY <1>2, <1>5, <1>9, <1>10, <1>11, <1>12, Zenon DEF SecretReadsBack, one, two, parties, own

\* Two parts that hold a ciphertext and its initialization vector.
Holds(message, key, iv, text) ==
  /\ Len(message) = 2
  /\ message[1].value = aes(key, iv, text) /\ message[2].value = iv

\* What the build for Node makes of such a message.
ReadOnNode(message, reader, writer, key, text) ==
  decryptNode(message, reader, writer)
    = IF ~wellFormed(message, {"canonical"}) THEN {Refused}
      ELSE IF {PublicKeyOf[reader], writer} = key THEN {text} ELSE {Refused, Garbage}

LEMMA NodeReads ==
  ASSUME NEW reader, NEW writer, NEW key, NEW iv, NEW text, NEW message, Holds(message, key, iv, text)
  PROVE  ReadOnNode(message, reader, writer, key, text)
<1>1. message[1].value = <<key, iv, text>> /\ message[1].value[3] = text /\ message[2].value = iv
  BY DEF Holds, aes
<1>2. aes({PublicKeyOf[reader], writer}, iv, text) = message[1].value
        <=> {PublicKeyOf[reader], writer} = key
  BY <1>1 DEF aes
<1>. QED
  BY <1>1, <1>2, Zenon DEF decryptNode, nip04Key, ReadOnNode

\* What the build for the web may make of such a message.
ReadOnWeb(message, reader, writer, key, text) ==
  LET readable == wellFormed(message, {"canonical", "loose"}) /\ message[1].form = "canonical"
  IN  /\ ~readable => decryptWeb(message, reader, writer) = {Refused}
      /\ readable => decryptWeb(message, reader, writer)
                       \subseteq IF {PublicKeyOf[reader], writer} = key THEN {text} ELSE {Refused, Garbage}

LEMMA WebReads ==
  ASSUME NEW reader, NEW writer, NEW key, NEW iv, NEW text, NEW message, Holds(message, key, iv, text)
  PROVE  ReadOnWeb(message, reader, writer, key, text)
<1>. DEFINE own == {PublicKeyOf[reader], writer}
            decrypted == IF own = key THEN {text} ELSE {<<>>, Garbage, Refused}
            read(t) == IF t # Refused /\ sameAgain(message, own, t) THEN t ELSE Refused
<1>1. message[1].value = <<key, iv, text>> /\ message[1].value[3] = text /\ message[2].value = iv
  BY DEF Holds, aes
<1>2. \A t : sameAgain(message, own, t)
        <=> message[1].form = "canonical" /\ (t = Garbage \/ (own = key /\ t = text))
  BY <1>1 DEF sameAgain, aes
<1>3. aes(own, iv, text) = message[1].value <=> own = key
  BY <1>1 DEF aes
<1>4. wellFormed(message, {"canonical", "loose"})
        => decryptWeb(message, reader, writer) = {read(t) : t \in decrypted}
  BY <1>1, <1>3, Zenon DEF decryptWeb, nip04Key
<1>5. ~wellFormed(message, {"canonical", "loose"}) => decryptWeb(message, reader, writer) = {Refused}
  BY Zenon DEF decryptWeb
<1>6. message[1].form # "canonical" => {read(t) : t \in decrypted} = {Refused}
  <2>1. decrypted # {}
    OBVIOUS
  <2>2. message[1].form # "canonical" => \A t : read(t) = Refused
    BY <1>2
  <2>. HIDE DEF decrypted, read
  <2>. QED
    BY <2>1, <2>2
<1>7. message[1].form = "canonical"
        => {read(t) : t \in decrypted} \subseteq IF own = key THEN {text} ELSE {Refused, Garbage}
  <2>1. CASE own = key
    BY <1>2, <2>1
  <2>2. CASE own # key
    BY <1>2, <2>2
  <2>. QED
    BY <2>1, <2>2
<1>. QED
  BY <1>4, <1>5, <1>6, <1>7 DEF ReadOnWeb

\* Both builds read a message with its key and refuse it with another part.
LEMMA LegacyReads ==
  ASSUME NEW s \in LegacySamples
  PROVE  LegacyReadsBack(s.text, s.secret, s.receiver, s.reader, s.writer, s.iv)
<1>. DEFINE key == {PublicKeyOf[s.secret], s.receiver}
            own == {PublicKeyOf[s.reader], s.writer}
            cipher == aes(key, s.iv, s.text)
            message == <<Part(cipher), Part(s.iv)>>
            mayRead == IF s.iv.size # 16 THEN {Refused} ELSE IF own = key THEN {s.text} ELSE {Refused, Garbage}
            both == {"canonical", "loose"}
            one == {"canonical"}
            readable(m) == wellFormed(m, both) /\ m[1].form = "canonical"
<1>1. s.secret \in SecretKeys /\ s.receiver \in PublicKeys
  BY DEF LegacySamples
<1>2. nip04Encrypt(s.secret, s.receiver, s.text, s.iv) = message
  BY <1>1, Zenon DEF nip04Encrypt, nip04Key, isValidPrivateKey, isValidPublicKeyPoint
<1>3. /\ Len(message) = 2 /\ message[1].value = cipher /\ message[2].value = s.iv
      /\ message[1].form = "canonical" /\ message[2].form = "canonical"
  BY DEF Part
<1>4. ASSUME NEW p \in {1, 2}, NEW form
      PROVE  /\ Len([message EXCEPT ![p].form = form]) = 2
             /\ \A q \in {1, 2} :
                  /\ [message EXCEPT ![p].form = form][q].value = message[q].value
                  /\ [message EXCEPT ![p].form = form][q].form = IF q = p THEN form ELSE "canonical"
  <2>. DEFINE bad == [message EXCEPT ![p].form = form]
              part1 == [message[p] EXCEPT !.form = form]
  <2>1. part1.form = form /\ part1.value = message[p].value
    BY DEF Part
  <2>2. bad = [message EXCEPT ![p] = part1]
    BY Zenon
  <2>. HIDE DEF bad, part1
  <2>3. message \in Seq({message[1], message[2]}) /\ DOMAIN message = 1 .. 2
    OBVIOUS
  <2>4. message \in [1 .. 2 -> {message[1], message[2], part1}]
    BY <2>3
  <2>. HIDE DEF message
  <2>5. bad \in [1 .. 2 -> {message[1], message[2], part1}]
    BY <2>2, <2>4
  <2>6. Len(bad) = 2
    BY <2>5
  <2>7. \A q \in {1, 2} : /\ bad[q].value = message[q].value
                          /\ bad[q].form = IF q = p THEN form ELSE message[q].form
    BY <2>1, <2>2, <2>4
  <2>8. /\ Len(bad) = 2
        /\ \A q \in {1, 2} : /\ bad[q].value = message[q].value
                             /\ bad[q].form = IF q = p THEN form ELSE "canonical"
    BY <1>3, <2>6, <2>7
  <2>. QED
    BY <2>8, Zenon DEF bad
<1>. HIDE DEF message, cipher, key, own
<1>5. ASSUME NEW m, Holds(m, key, s.iv, s.text)
      PROVE  /\ decryptNode(m, s.reader, s.writer)
                  = IF ~wellFormed(m, one) THEN {Refused} ELSE IF own = key THEN {s.text} ELSE {Refused, Garbage}
             /\ ~readable(m) => decryptWeb(m, s.reader, s.writer) = {Refused}
             /\ readable(m) => decryptWeb(m, s.reader, s.writer)
                                 \subseteq IF own = key THEN {s.text} ELSE {Refused, Garbage}
  <2>1. ReadOnNode(m, s.reader, s.writer, key, s.text)
    BY <1>5, NodeReads, Zenon
  <2>2. ReadOnWeb(m, s.reader, s.writer, key, s.text)
    BY <1>5, WebReads, Zenon
  <2>3. ~readable(m) => decryptWeb(m, s.reader, s.writer) = {Refused}
    BY <2>2, Zenon DEF ReadOnWeb
  <2>4. readable(m) => decryptWeb(m, s.reader, s.writer)
                         \subseteq IF {PublicKeyOf[s.reader], s.writer} = key THEN {s.text} ELSE {Refused, Garbage}
    BY <2>2, Zenon DEF ReadOnWeb
  <2>. QED
    BY <2>1, <2>3, <2>4, Zenon DEF own, ReadOnNode
<1>6. ASSUME NEW m, Holds(m, key, s.iv, s.text), NEW forms, wellFormed(m, forms)
      PROVE  s.iv.size = 16
  BY <1>6, Zenon DEF wellFormed, Holds
<1>7. Holds(message, key, s.iv, s.text)
  BY <1>3 DEF Holds, cipher
<1>8. /\ decryptNode(message, s.reader, s.writer) \subseteq mayRead
      /\ decryptWeb(message, s.reader, s.writer) \subseteq mayRead
  <2>1. s.iv.size = 16 => wellFormed(message, one) /\ wellFormed(message, both)
    BY <1>3 DEF wellFormed
  <2>. QED
    BY <1>3, <1>5, <1>6, <1>7, <2>1
<1>9. ASSUME NEW p \in {1, 2}, NEW form \in {"loose", "other", "empty"}
      PROVE  /\ decryptNode([message EXCEPT ![p].form = form], s.reader, s.writer) = {Refused}
             /\ decryptWeb([message EXCEPT ![p].form = form], s.reader, s.writer)
                  \subseteq mayRead \cup {Refused}
  <2>. DEFINE bad == [message EXCEPT ![p].form = form]
  <2>1. /\ Len(bad) = 2 /\ bad[1].value = message[1].value /\ bad[2].value = message[2].value
        /\ bad[1].form = IF 1 = p THEN form ELSE "canonical"
        /\ bad[2].form = IF 2 = p THEN form ELSE "canonical"
    BY <1>4
  <2>. HIDE DEF bad
  <2>2. Holds(bad, key, s.iv, s.text)
    BY <1>3, <2>1 DEF Holds, cipher
  <2>3. ~wellFormed(bad, one)
    BY <2>1 DEF wellFormed
  <2>4. decryptNode(bad, s.reader, s.writer) = {Refused}
    BY <1>5, <2>2, <2>3
  <2>5. decryptWeb(bad, s.reader, s.writer) \subseteq mayRead \cup {Refused}
    BY <1>5, <1>6, <2>2
  <2>. QED
    BY <2>4, <2>5 DEF bad
<1>. QED
  BY <1>2, <1>8, <1>9, Zenon DEF LegacyReadsBack, own, key

\* The receiver of a gift wrap, and nobody else, reads its message.
LEMMA MessageReads ==
  ASSUME RefusedIsApart, NEW s \in MessageSamples, PublicKeyOf[s.ephemeral] # PublicKeyOf[s.secret]
  PROVE  MessageReadsBack(s.message, s.secret, s.receiver, s.ephemeral, s.reader, s.offsets)
<1>. DEFINE author == PublicKeyOf[s.secret]
            once == PublicKeyOf[s.ephemeral]
            reader == PublicKeyOf[s.reader]
            rumorAt == UnixTime - s.offsets[1]
            sealAt == UnixTime - s.offsets[2]
            wrapAt == UnixTime - s.offsets[3]
            none == <<>>
            tags == <<<<"p", s.receiver>>>>
            rumor == Unsigned(author, DM_KIND, tags, s.message, rumorAt)
            hidden == encryptNIP44(<<rumor>>, s.secret, s.receiver, FreshNonce(1), 2)
            sealed == createSignedEvent(Unsigned(author, SEAL_KIND, none, hidden, sealAt), s.secret)
            covered == encryptNIP44(<<sealed>>, s.ephemeral, s.receiver, FreshNonce(2), 2)
            made == createSignedEvent(Unsigned(once, GIFT_WRAP_KIND, tags, covered, wrapAt), s.ephemeral)
            opened == decryptDirectMessage(made, s.reader)
<1>1. /\ s.secret \in SecretKeys /\ s.ephemeral \in SecretKeys /\ s.reader \in SecretKeys
      /\ s.receiver \in PublicKeys /\ s.offsets \in [1 .. 3 -> 0 .. TwoDays]
  BY DEF MessageSamples
<1>2. author \in PublicKeys /\ once \in PublicKeys /\ reader \in PublicKeys
  BY <1>1, ConversionAssumption
<1>3. /\ rumorAt \in Nat /\ sealAt \in Nat /\ wrapAt \in Nat
      /\ rumorAt \in UnixTime - TwoDays .. UnixTime /\ wrapAt \in UnixTime - TwoDays .. UnixTime
  <2>1. /\ UnixTime \in Nat /\ TwoDays \in 0 .. UnixTime
    BY ConversionAssumption
  <2>. HIDE DEF rumorAt, sealAt, wrapAt
  <2>3. /\ s.offsets[1] \in 0 .. TwoDays /\ s.offsets[2] \in 0 .. TwoDays /\ s.offsets[3] \in 0 .. TwoDays
    BY <1>1
  <2>2. ASSUME NEW u \in Nat, NEW most \in 0 .. u, NEW offset \in 0 .. most
        PROVE  u - offset \in Nat /\ u - offset \in u - most .. u
    OBVIOUS
  <2>. QED
    BY <2>1, <2>2, <2>3, Zenon DEF rumorAt, sealAt, wrapAt
<1>4. createGiftWrap(s.message, s.secret, s.receiver, s.ephemeral, s.offsets) = made
  BY Zenon DEF createGiftWrap, wrap, seal, randomTimestampInPast
<1>5. /\ rumor.pubkey = author /\ rumor.kind = DM_KIND /\ rumor.content = s.message
      /\ rumor.created_at = rumorAt
  BY DEF Unsigned
<1>6. rumor # Refused
  BY DEF RefusedIsApart
<1>7. NoTagEmpty(none) /\ NoTagEmpty(tags)
  BY DEF NoTagEmpty
<1>. HIDE DEF rumor, none, tags, rumorAt, sealAt, wrapAt, hidden
<1>8. SignedEvent(sealed, author, SEAL_KIND, none, hidden, sealAt)
  BY <1>1, <1>2, <1>3, <1>7, SignsEvent, Zenon
<1>. HIDE DEF sealed, covered
<1>9. SignedEvent(made, once, GIFT_WRAP_KIND, tags, covered, wrapAt)
  BY <1>1, <1>2, <1>3, <1>7, SignsEvent, Zenon
<1>. HIDE DEF made
<1>10. /\ sealed # Refused /\ sealed.pubkey = author /\ sealed.kind = SEAL_KIND
       /\ sealed.content = hidden
  BY <1>8 DEF SignedEvent
<1>11. /\ made.pubkey = once /\ made.kind = GIFT_WRAP_KIND /\ made.content = covered
       /\ made.created_at = wrapAt
  BY <1>9 DEF SignedEvent
<1>12. /\ <<sealed>> # Refused /\ <<sealed>>[1] = sealed /\ <<sealed>> # <<>>
       /\ <<rumor>> # Refused /\ <<rumor>>[1] = rumor /\ <<rumor>> # <<>>
  BY DEF RefusedIsApart
<1>13. decryptNIP44(made.content, s.reader, made.pubkey)
         = IF {reader, once} = {once, s.receiver} THEN <<sealed>> ELSE Refused
  <2>1. ReadBy(covered, s.reader, once, {once, s.receiver}, <<sealed>>)
    BY <1>1, <1>2, <1>12, PartiesRead, Zenon DEF covered
  <2>. QED
    BY <1>11, <2>1, Zenon DEF ReadBy
<1>14. decryptNIP44(sealed.content, s.reader, sealed.pubkey)
         = IF {reader, author} = {author, s.receiver} THEN <<rumor>> ELSE Refused
  <2>1. ReadBy(hidden, s.reader, author, {author, s.receiver}, <<rumor>>)
    BY <1>1, <1>2, <1>12, PartiesRead, Zenon DEF hidden
  <2>. QED
    BY <1>10, <2>1, Zenon DEF ReadBy
<1>15. opened = IF {reader, once} = {once, s.receiver} THEN openSeal(sealed, s.reader) ELSE Refused
  BY <1>11, <1>12, <1>13 DEF decryptDirectMessage
<1>16. CASE reader = s.receiver
  <2>1. decryptNIP44(sealed.content, s.reader, sealed.pubkey) = <<rumor>>
    BY <1>14, <1>16
  <2>2. openSeal(sealed, s.reader) = rumor
    BY <1>5, <1>10, <1>12, <2>1, Zenon DEF openSeal, sameSender
  <2>3. opened = rumor
    BY <1>15, <1>16, <2>2
  <2>4. /\ rumor.content = s.message /\ rumor.pubkey = author
        /\ {rumor.created_at, made.created_at} \subseteq UnixTime - TwoDays .. UnixTime
        /\ made.pubkey # rumor.pubkey
    BY <1>3, <1>5, <1>11
  <2>. QED
    BY <1>4, <1>16, <2>3, <2>4, Zenon DEF MessageReadsBack
<1>17. CASE reader # s.receiver
  <2>1. opened = Refused
    BY <1>15, <1>17
  <2>. QED
    BY <1>4, <1>17, <2>1, Zenon DEF MessageReadsBack
<1>. QED
  BY <1>16, <1>17

\* The value of the first tag of a name, if that tag is a pair.
LEMMA ValueOfFirst ==
  ASSUME NEW T, NEW tags \in Seq(T), NEW name, NEW i \in DOMAIN tags, NEW value,
         tags[i] = <<name, value>>, \A j \in 1 .. i - 1 : ~Named(tags[j], name),
         NEW event, event.tags = tags
  PROVE  getTagValue(event, name, 0) = value
<1>1. Named(tags[i], name)
  BY DEF Named
<1>2. TagsNamed(tags, name) # <<>> /\ TagsNamed(tags, name)[1] = <<name, value>>
  BY <1>1, FirstNamed
<1>3. Len(<<name, value>>) = 2 /\ <<name, value>>[2] = value
  OBVIOUS
<1>. QED
  BY <1>2, <1>3 DEF getTagValue

\* Within the hour, and up to the limit.
LEMMA NotDrifted ==
  ASSUME NEW u \in Nat, NEW h \in Nat, NEW at \in {u - h, u, u + h}
  PROVE  ~Drifted(at - u, h) /\ ~Drifted(u - at, h)
<1>1. at \in Int
  OBVIOUS
<1>. QED
  BY <1>1 DEF Drifted

\* At the limit and one past it.
LEMMA DriftsAfter ==
  ASSUME NEW u \in Nat, NEW limit \in Nat \ {0}, NEW at \in {u + limit, u + limit + 1}
  PROVE  ~Drifted(at - u, limit) /\ ~Drifted(u - at, limit) <=> at <= u + limit
<1>1. at \in Int
  OBVIOUS
<1>. QED
  BY <1>1 DEF Drifted

\* An answer with its author and time passes the checks of every event.
LEMMA PayloadIsValid ==
  ASSUME NEW event, event.pubkey \in PublicKeys, event.kind = AUTH_EVENT_KIND,
         event.created_at \in Nat, NoTagEmpty(event.tags)
  PROVE  /\ validateNostrEventPayload(event, TRUE)
         /\ validateNostrEventPayload(event, FALSE)
<1>1. event.created_at >= 0
  OBVIOUS
<1>2. event.kind = 22242
  BY DEF AUTH_EVENT_KIND
<1>3. \A i \in DOMAIN event.tags : event.tags[i] # <<>>
  BY DEF NoTagEmpty
<1>4. validateNostrEventPayload(event, FALSE)
  BY <1>1, <1>3 DEF validateNostrEventPayload
<1>5. validateNostrEventPayload(event, TRUE)
  BY <1>1, <1>2, <1>3 DEF validateNostrEventPayload
<1>. QED
  BY <1>4, <1>5

\* The template of an answer names the relay and the challenge.
LEMMA TemplateMade ==
  ASSUME NEW challenge, NEW url, createAuthEventTemplate(challenge, url) # Refused
  PROVE  /\ challenge # ""
         /\ createAuthEventTemplate(challenge, url).kind = AUTH_EVENT_KIND
         /\ createAuthEventTemplate(challenge, url).content = <<>>
         /\ createAuthEventTemplate(challenge, url).tags
              = <<<<"relay", CanonicalUrl[url]>>, <<"challenge", challenge>>>>
<1>. DEFINE tags == <<<<"relay", CanonicalUrl[url]>>, <<"challenge", challenge>>>>
            empty == <<>>
<1>1. ~(challenge = "" \/ challenge \in LongElements \/ url \notin DOMAIN CanonicalUrl)
  BY Zenon DEF createAuthEventTemplate
<1>2. createAuthEventTemplate(challenge, url)
        = [kind |-> AUTH_EVENT_KIND, content |-> empty, tags |-> tags]
  BY <1>1, Zenon DEF createAuthEventTemplate
<1>3. challenge # ""
  BY <1>1
<1>. HIDE DEF tags, empty
<1>4. /\ createAuthEventTemplate(challenge, url).kind = AUTH_EVENT_KIND
      /\ createAuthEventTemplate(challenge, url).content = empty
      /\ createAuthEventTemplate(challenge, url).tags = tags
  BY <1>2
<1>. QED
  BY <1>3, <1>4, Zenon DEF tags, empty

\* An answer to a challenge authenticates where, and for as long as, it should.
LEMMA AnswerReads ==
  ASSUME RefusedIsApart, NEW s \in AuthSamples,
         createAuthEventTemplate(s.challenge, s.relayUrl) # Refused
  PROVE  AuthReadsBack(s.challenge, s.relayUrl, s.secret, s.otherChallenge, s.otherUrl)
<1>. DEFINE url == CanonicalUrl[s.relayUrl]
            relayTag == <<"relay", url>>
            challengeTag == <<"challenge", s.challenge>>
            tags == <<relayTag, challengeTag>>
            pubkey == PublicKeyOf[s.secret]
            event == createSignedAuthEvent(s.challenge, s.relayUrl, s.secret)
            empty == <<>>
            kind == AUTH_EVENT_KIND
            times == {UnixTime - Hour, UnixTime, UnixTime + Hour}
            limits == {UnixTime + TenMinutes, UnixTime + TenMinutes + 1}
<1>1. /\ s.relayUrl \in DOMAIN CanonicalUrl /\ s.otherUrl \in DOMAIN CanonicalUrl
      /\ s.secret \in SecretKeys
  BY DEF AuthSamples
<1>2. /\ url # "" /\ url \in DOMAIN CanonicalUrl /\ CanonicalUrl[url] = url
      /\ pubkey \in PublicKeys /\ UnixTime \in Nat /\ Hour \in Nat /\ TenMinutes \in Nat \ {0}
  BY <1>1, ConversionAssumption
<1>3. /\ s.challenge # ""
      /\ createAuthEventTemplate(s.challenge, s.relayUrl).kind = kind
      /\ createAuthEventTemplate(s.challenge, s.relayUrl).content = empty
      /\ createAuthEventTemplate(s.challenge, s.relayUrl).tags = tags
  BY TemplateMade, Zenon
<1>4. event = createSignedEvent(Unsigned(pubkey, kind, tags, empty, UnixTime), s.secret)
  BY <1>3, Zenon DEF createSignedAuthEvent
<1>5. NoTagEmpty(tags)
  BY DEF NoTagEmpty
<1>6. tags \in Seq({relayTag, challengeTag}) /\ DOMAIN tags = 1 .. 2
  OBVIOUS
<1>7. /\ relayTag # <<>> /\ relayTag[1] = "relay"
      /\ challengeTag # <<>> /\ challengeTag[1] = "challenge"
      /\ tags[1] = relayTag /\ tags[2] = challengeTag
  OBVIOUS
<1>8. ~Named(tags[1], "challenge")
  BY DEF Named
<1>9. tags[1] = <<"relay", url>> /\ tags[2] = <<"challenge", s.challenge>>
  OBVIOUS
<1>. HIDE DEF event, tags, empty, relayTag, challengeTag, kind, pubkey, url, times, limits
<1>10. SignedEvent(event, pubkey, kind, tags, empty, UnixTime)
  BY <1>1, <1>2, <1>4, <1>5, SignsEvent DEF pubkey
<1>11. /\ event # Refused /\ event.pubkey = pubkey /\ event.kind = kind /\ event.tags = tags
       /\ event.content = empty /\ event.created_at = UnixTime /\ IdAndSignature(event)
  BY <1>10 DEF SignedEvent
<1>12. getTagValue(event, "relay", 0) = url
  <2>1. 1 \in DOMAIN tags /\ \A j \in 1 .. 1 - 1 : ~Named(tags[j], "relay")
    BY <1>6
  <2>. QED
    BY <1>6, <1>9, <1>11, <2>1, ValueOfFirst
<1>13. getTagValue(event, "challenge", 0) = s.challenge
  <2>1. 2 \in DOMAIN tags /\ \A j \in 1 .. 2 - 1 : ~Named(tags[j], "challenge")
    BY <1>6, <1>8
  <2>. QED
    BY <1>6, <1>9, <1>11, <2>1, ValueOfFirst
<1>14. kind = 22242
  BY DEF kind, AUTH_EVENT_KIND
<1>15. event.kind = AUTH_EVENT_KIND /\ event.content = <<>>
  BY <1>11 DEF kind, empty
<1>16. isAuthEvent(event)
  BY <1>2, <1>3, <1>12, <1>13, <1>15 DEF isAuthEvent
<1>17. validateNostrEventPayload(event, TRUE) /\ validateNostrEventPayload(event, FALSE)
  <2>1. /\ event.pubkey \in PublicKeys /\ event.kind = AUTH_EVENT_KIND
        /\ event.created_at \in Nat /\ NoTagEmpty(event.tags)
    BY <1>2, <1>5, <1>11, <1>15, Zenon
  <2>. QED
    BY <2>1, PayloadIsValid, Zenon
<1>18. ContentOfKind(event)
  BY <1>11, <1>14 DEF ContentOfKind, NostrKind
<1>19. ASSUME NEW at \in times PROVE RelayAccepts(event, at) /\ validateRelayIngressEvent(event, at)
  <2>1. \A i \in DOMAIN tags : validateRelayTagReference(tags[i])
    BY <1>6, <1>7 DEF validateRelayTagReference
  <2>2. ~Drifted(at - UnixTime, Hour) /\ ~Drifted(UnixTime - at, Hour)
    BY <1>2, <1>19, NotDrifted DEF times
  <2>3. RelayAccepts(event, at) <=> validateEventWithin(event, at, Hour)
    BY <1>11, <1>14 DEF RelayAccepts, REMOTE_SIGNING, validateEvent
  <2>4. validateEventWithin(event, at, Hour)
    BY <1>11, <1>17, <1>18, <2>2, Zenon DEF validateEventWithin
  <2>5. validateNip46RelayIngress(event)
    BY <1>11, <1>14 DEF validateNip46RelayIngress, REMOTE_SIGNING
  <2>6. validateRelayIngressEvent(event, at)
    BY <1>11, <1>17, <2>1, <2>2, <2>5, Zenon DEF validateRelayIngressEvent
  <2>. QED
    BY <2>3, <2>4, <2>6
<1>20. ASSUME NEW at \in limits
       PROVE  validateEventWithin(event, at, TenMinutes) <=> at <= UnixTime + TenMinutes
  <2>1. ~Drifted(at - UnixTime, TenMinutes) /\ ~Drifted(UnixTime - at, TenMinutes)
          <=> at <= UnixTime + TenMinutes
    BY <1>2, <1>20, DriftsAfter DEF limits
  <2>. QED
    BY <1>11, <1>17, <1>18, <2>1, Zenon DEF validateEventWithin
<1>21. ASSUME NEW at \in limits
       PROVE  validateAuthEvent(event, s.otherChallenge, s.otherUrl, at) <=>
                /\ s.challenge = s.otherChallenge
                /\ CanonicalUrl[s.relayUrl] = CanonicalUrl[s.otherUrl]
                /\ at <= UnixTime + TenMinutes
  <2>1. /\ {url, s.otherUrl} \subseteq DOMAIN CanonicalUrl
        /\ CanonicalUrl[url] = CanonicalUrl[s.relayUrl]
    BY <1>1, <1>2 DEF url
  <2>. QED
    BY <1>12, <1>13, <1>16, <1>20, <1>21, <2>1, Zenon DEF validateAuthEvent
<1>22. Accepted(event)
  BY <1>11, <1>19 DEF Accepted, times
<1>. QED
  BY <1>21, <1>22 DEF AuthReadsBack, event, limits

\* A conversion of these parts keeps the sample it is given.
ReadingTried ==
  /\ part = "secret" => sample \in SamplesOf("secret")
  /\ part = "legacySecret" => sample \in SamplesOf("legacySecret")
  /\ part = "message" => sample \in SamplesOf("message")
  /\ part = "auth" => sample \in SamplesOf("auth")

\* What is encrypted is read by its parties and by nobody else (nip44/index.ts,
\* nip04/index.ts, nip04/web.ts, nip17/index.ts), and the answer to a challenge
\* authenticates to the relay that sent it, for ten minutes (nip42/index.ts).
THEOREM SecretsAlwaysReadBack ==
  ASSUME RefusedIsApart
  PROVE  Spec => [](part \in {"secret", "legacySecret", "message", "auth"} => ConversionsReadBack)
<1>1. Init => ReadingTried
  BY DEF Init, ReadingTried, SamplesOf, Parts
<1>2. ReadingTried /\ [Next]_vars => ReadingTried'
  BY DEF Next, vars, ReadingTried, SamplesOf
<1>3. ReadingTried => (part \in {"secret", "legacySecret", "message", "auth"} => ConversionsReadBack)
  <2>1. ASSUME part = "secret", ReadingTried PROVE ConversionsReadBack
    <3>1. SecretReadsBack(sample.first, sample.second, sample.secret, sample.receiver,
                          sample.reader, sample.writer, sample.version)
      BY <2>1, SamplesAssumption, SecretReads DEF ReadingTried
    <3>. QED
      BY <2>1, <3>1 DEF ConversionsReadBack
  <2>2. ASSUME part = "legacySecret", ReadingTried PROVE ConversionsReadBack
    <3>1. LegacyReadsBack(sample.text, sample.secret, sample.receiver, sample.reader,
                          sample.writer, sample.iv)
      BY <2>2, SamplesAssumption, LegacyReads DEF ReadingTried
    <3>. QED
      BY <2>2, <3>1 DEF ConversionsReadBack
  <2>3. ASSUME part = "message", ReadingTried PROVE ConversionsReadBack
    <3>1. MessageReadsBack(sample.message, sample.secret, sample.receiver, sample.ephemeral,
                           sample.reader, sample.offsets)
      BY <2>3, SamplesAssumption, MessageReads DEF ReadingTried
    <3>. QED
      BY <2>3, <3>1 DEF ConversionsReadBack
  <2>4. ASSUME part = "auth", ReadingTried PROVE ConversionsReadBack
    <3>1. AuthReadsBack(sample.challenge, sample.relayUrl, sample.secret, sample.otherChallenge,
                        sample.otherUrl)
      BY <2>4, SamplesAssumption, AnswerReads DEF ReadingTried
    <3>. QED
      BY <2>4, <3>1 DEF ConversionsReadBack
  <2>. QED
    BY <2>1, <2>2, <2>3, <2>4
<1>. QED
  BY <1>1, <1>2, <1>3, PTL DEF Spec
=============================================================================
