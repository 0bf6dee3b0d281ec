----------------------------- MODULE RateLimiters -----------------------------
(*****************************************************************************)
(* The two rate limiters of the library.                                     *)
(*                                                                           *)
(* The one of NIP-46 (src/src/nip46/utils/rate-limiter.ts): three sliding    *)
(* windows per client over one list of time stamps, which is cleaned lazily  *)
(* by the calls and periodically by an interval.  The verdict is modelled;   *)
(* retryAfter and the remaining counts are not.                              *)
(*                                                                           *)
(* The one of the Nostr client: checkRateLimit                               *)
(* (src/src/utils/security-validator.ts), a counter over fixed windows that  *)
(* start with the first call after the last one ended, and the three states  *)
(* the client keeps for publish, subscribe and fetch                         *)
(* (src/src/nip01/nostr.ts), with their reset and reconfiguration.           *)
(*****************************************************************************)
EXTENDS Clock, Arrays, FiniteSets

CONSTANTS
  Clients,        \* public keys that send requests
  Windows,        \* the burst, minute and hour windows: [span, limit]
  HourSpan,       \* how long requests are remembered: as long as the hour window
  CleanupSpacing, \* a call cleans a history at most this often (60 s)
  LimiterHorizon  \* bound: the time up to which the limiter is followed

ASSUME WindowsAssumption ==
  /\ IsFiniteSet(Windows) /\ Windows # {}
  /\ \A w \in Windows : w.span \in Nat /\ w.limit \in Nat /\ w.span <= HourSpan
  /\ HourSpan \in Nat
  /\ CleanupSpacing \in Nat /\ LimiterHorizon \in Nat

VARIABLES
  clientHistory,    \* per known client: requests and lastCleanup
  cleanupInterval,  \* is the periodic clean-up running?
  granted           \* history: when each client was allowed since it was cleared

limiterVars == <<clientHistory, cleanupInterval, granted>>

LimiterInit ==
  /\ clientHistory = <<>>
  /\ cleanupInterval = TRUE
  /\ granted = [c \in Clients |-> <<>>]

-----------------------------------------------------------------------------
Since(time) == {t \in Int : t >= time}

\* Mutant: a request exactly one span ago no longer counts.
WithinHalfOpen(requests, span) == filter(requests, Since(now - span + 1))

\* The requests of a window; both of its ends count.
Within(requests, span) == filter(requests, Since(now - span))

Full(requests) == \E w \in Windows : Len(Within(requests, w.span)) >= w.limit

getOrCreateHistory(c) ==
  IF c \in DOMAIN clientHistory THEN clientHistory[c] ELSE [requests |-> <<>>, lastCleanup |-> now]

\* Mutant: the clean-up of a call keeps a shorter past than the longest window.
cleanHistoryShort(h) ==
  IF now - h.lastCleanup < CleanupSpacing THEN h
  ELSE [requests |-> Within(h.requests, CleanupSpacing), lastCleanup |-> now]

cleanHistory(h) ==
  IF now - h.lastCleanup < CleanupSpacing THEN h
  ELSE [requests |-> Within(h.requests, HourSpan), lastCleanup |-> now]

\* A request of c: the verdict, and the time stamp if it is allowed.
isAllowed(c) ==
  LET h == cleanHistory(getOrCreateHistory(c))
      grant(s) == IF Full(h.requests) THEN s ELSE Append(s, now)
  IN /\ clientHistory' = Put(clientHistory, c, [h EXCEPT !.requests = grant(@)])
     /\ granted' = [granted EXCEPT ![c] = grant(@)]
     /\ UNCHANGED cleanupInterval

\* A read that cleans, too.
getRemainingRequests(c) ==
  /\ c \in DOMAIN clientHistory
  /\ clientHistory' = [clientHistory EXCEPT ![c] = cleanHistory(@)]
  /\ UNCHANGED <<cleanupInterval, granted>>

\* The interval: old requests go, and with them clients without a recent one.
performCleanup ==
  LET kept == [c \in DOMAIN clientHistory |->
                 [clientHistory[c] EXCEPT !.requests = Within(@, HourSpan)]]
      idle == {c \in DOMAIN kept : kept[c].requests = <<>> /\ now - kept[c].lastCleanup > HourSpan}
  IN /\ cleanupInterval
     /\ clientHistory' = Delete(kept, idle)
     /\ UNCHANGED <<cleanupInterval, granted>>

Cleared(cs) ==
  /\ clientHistory' = Delete(clientHistory, cs)
  /\ granted' = [c \in Clients |-> IF c \in cs THEN <<>> ELSE granted[c]]

clearClient(c) == Cleared({c}) /\ UNCHANGED cleanupInterval

clearAll == Cleared(Clients) /\ UNCHANGED cleanupInterval

\* The limiter still answers after this; only its interval is gone.
destroy == Cleared(Clients) /\ cleanupInterval' = FALSE

LimiterNext ==
  \/ Tick(LimiterHorizon) /\ UNCHANGED limiterVars
  \/ /\ UNCHANGED now
     /\ \/ \E c \in Clients : isAllowed(c) \/ getRemainingRequests(c) \/ clearClient(c)
        \/ performCleanup
        \/ clearAll
        \/ destroy

-----------------------------------------------------------------------------
\* Properties.

\* However calls and both clean-ups interleave, no stretch of time as long as a
\* window, its ends included, ever holds more allowed requests than its limit.
WindowsHold ==
  \A c \in Clients, w \in Windows, t \in 0 .. now :
    Cardinality({i \in DOMAIN granted[c] : granted[c][i] \in t .. t + w.span}) <= w.limit

\* Nobody is refused for requests that are too old to count, and none that
\* counts is forgotten: the verdict on the list that the clean-ups left is the
\* verdict on everything the client was granted.
VerdictIsExact ==
  \A c \in Clients : Full(getOrCreateHistory(c).requests) <=> Full(granted[c])

-----------------------------------------------------------------------------
\* The limiter of the Nostr client.

CONSTANTS
  Operations,   \* the rate-limited operations: SUBSCRIBE, PUBLISH, FETCH
  RateLimits,   \* limits an operation may be given: [limit, windowMs]
  DefaultRateLimit,
  WindowHorizon \* bound: the time up to which the limits are followed

ASSUME RateLimitsAssumption ==
  /\ DefaultRateLimit \in RateLimits /\ WindowHorizon \in Nat
  /\ \A r \in RateLimits : r.limit \in Nat /\ r.windowMs \in Nat \ {0}

VARIABLES
  RATE_LIMITS,     \* per operation: its limit and window
  rateLimitState,  \* per operation: count, windowStart, blocked
  passed           \* history: when calls of an operation passed since its last reset

windowVars == <<RATE_LIMITS, rateLimitState, passed>>

Unused == [count |-> 0, windowStart |-> now, blocked |-> FALSE]

WindowInit ==
  /\ RATE_LIMITS = [op \in Operations |-> DefaultRateLimit]
  /\ rateLimitState = [op \in Operations |-> Unused]
  /\ passed = [op \in Operations |-> <<>>]

-----------------------------------------------------------------------------
\* Mutant: the count starts again but the window does not.
currentWindowKept(s, r) ==
  IF now - s.windowStart >= r.windowMs THEN [s EXCEPT !.count = 0, !.blocked = FALSE] ELSE s

\* The state after the reset of a window that is over.
currentWindow(s, r) == IF now - s.windowStart >= r.windowMs THEN Unused ELSE s

\* One rate-limited call; a refusal blocks the rest of the window.
checkRateLimit(op) ==
  LET s == currentWindow(rateLimitState[op], RATE_LIMITS[op])
      allowed == ~s.blocked /\ s.count < RATE_LIMITS[op].limit
  IN /\ rateLimitState' = [rateLimitState EXCEPT ![op] =
          IF allowed THEN [s EXCEPT !.count = @ + 1] ELSE [s EXCEPT !.blocked = TRUE]]
     /\ passed' = [passed EXCEPT ![op] = IF allowed THEN Append(@, now) ELSE @]
     /\ UNCHANGED RATE_LIMITS

StartAgain(ops) ==
  /\ rateLimitState' = [op \in Operations |-> IF op \in ops THEN Unused ELSE rateLimitState[op]]
  /\ passed' = [op \in Operations |-> IF op \in ops THEN <<>> ELSE passed[op]]

\* New limits for some of the operations.
updateRateLimits(ops) ==
  /\ \E limits \in [ops -> RateLimits] :
       RATE_LIMITS' = [op \in Operations |-> IF op \in ops THEN limits[op] ELSE RATE_LIMITS[op]]
  /\ StartAgain(ops)

resetRateLimits == StartAgain(Operations) /\ UNCHANGED RATE_LIMITS

WindowNext ==
  \/ Tick(WindowHorizon) /\ UNCHANGED windowVars
  \/ /\ UNCHANGED now
     /\ \/ \E op \in Operations : checkRateLimit(op)
        \/ \E ops \in SUBSET Operations \ {{}} : updateRateLimits(ops)
        \/ resetRateLimits

-----------------------------------------------------------------------------
PassedIn(op, from, to) == {i \in DOMAIN passed[op] : passed[op][i] \in from .. to}

\* A fixed window admits its limit at most twice in any stretch of its length,
\* the state counts exactly what passed in the window it describes, and an
\* operation is blocked only if its limit was used up in that window.
RatesHold ==
  \A op \in Operations :
    LET s == rateLimitState[op]
        r == RATE_LIMITS[op]
    IN /\ \A t \in 0 .. now : Cardinality(PassedIn(op, t, t + r.windowMs - 1)) <= 2 * r.limit
       /\ s.count = Cardinality(PassedIn(op, s.windowStart, now))
       /\ s.blocked => s.count = r.limit

\* Neither limiter lets more requests through in any window than its limits
\* (nip46/utils/rate-limiter.ts, nip01/nostr.ts), and the first refuses none
\* that its limits allow, however its clean-up forgets.
LimitsAreExact == WindowsHold /\ VerdictIsExact /\ RatesHold
===============================================================================
