--------------------------------- MODULE Nip57 --------------------------------
(*****************************************************************************)
(* Lightning zaps (nip57/index.ts, utils.ts, client.ts): zap requests and    *)
(* receipts, invoices and statistics, and the zap client.                    *)
(*                                                                           *)
(* An invoice is what its decoder reads, [decodes, descriptionHash]; a       *)
(* description tag holds the zap request itself, and its hash is that of     *)
(* the event it holds.  One call of collectZapReceipts is a machine: it      *)
(* subscribes, and ends with the first EOSE, which may come before           *)
(* subscribe() has returned, or after ten seconds.                           *)
(*****************************************************************************)
EXTENDS Events

CONSTANT NaN  \* what parseInt makes of a text that does not begin with a number

ZAP_REQUEST_KIND == 9734
ZAP_RECEIPT_KIND == 9735

sha256(description) == <<description>>

\* A tag, if there is something to put into it.
TagIf(name, value) == IF value = "" THEN <<>> ELSE <<<<name, value>>>>

AmountTag(amount) == IF amount = 0 THEN <<>> ELSE <<<<"amount", Decimal(amount)>>>>

SenderTag(options, signer) ==
  IF options.senderPubkey # signer THEN TagIf("P", options.senderPubkey) ELSE <<>>

createZapRequest(options, signer) ==
  createEvent([kind |-> ZAP_REQUEST_KIND, content |-> options.content, created_at |-> 0,
    tags |-> <<<<"p", options.recipientPubkey>>, <<"relays">> \o options.relays>>
               \o TagIf("e", options.eventId) \o AmountTag(options.amount)
               \o TagIf("lnurl", options.lnurl) \o TagIf("a", options.aTag)
               \o SenderTag(options, signer)], signer)

createZapReceipt(options, invoice, zapRequest, signer) ==
  createEvent([kind |-> ZAP_RECEIPT_KIND, content |-> <<>>, created_at |-> 0,
    tags |-> <<<<"p", options.recipientPubkey>>>>
               \o TagIf("e", options.eventId) \o TagIf("P", options.senderPubkey)
               \o TagIf("a", options.aTag)
               \o <<<<"bolt11", invoice>>, <<"description", zapRequest>>>>], signer)

-----------------------------------------------------------------------------
\* Receipts

InvalidZap == [valid |-> FALSE]

HasTag(event, name) == TagsNamed(event.tags, name) # <<>>

FirstTag(event, name) == TagsNamed(event.tags, name)[1]

\* The signature of the request is checked against the id it carries.
\* Mutant: the invoice may be for any request.
RequestMatchesAnyInvoice(receipt, request) ==
  /\ verifySignature(request.id, request.sig, request.pubkey)
  /\ request.kind = ZAP_REQUEST_KIND
  /\ HasTag(request, "p") /\ FirstTag(request, "p")[2] = FirstTag(receipt, "p")[2]
  /\ FirstTag(receipt, "bolt11")[2].decodes

RequestMatches(receipt, request) ==
  LET invoice == FirstTag(receipt, "bolt11")[2]
  IN  /\ verifySignature(request.id, request.sig, request.pubkey)
      /\ request.kind = ZAP_REQUEST_KIND
      /\ HasTag(request, "p") /\ FirstTag(request, "p")[2] = FirstTag(receipt, "p")[2]
      /\ HasTag(receipt, "e") /\ HasTag(request, "e")
           => FirstTag(receipt, "e")[2] = FirstTag(request, "e")[2]
      /\ invoice.decodes
      /\ invoice.descriptionHash = sha256(request)

\* The amount is the one that was asked for, not the invoice's.
validateZapReceipt(receipt, lnurlPubkey) ==
  IF \/ receipt.kind # ZAP_RECEIPT_KIND \/ receipt.pubkey # lnurlPubkey
     \/ \E name \in {"bolt11", "description", "p"} : ~HasTag(receipt, name)
  THEN InvalidZap
  ELSE LET request == FirstTag(receipt, "description")[2]
       IN  IF ~RequestMatches(receipt, request) THEN InvalidZap
           ELSE [valid |-> TRUE,
                 amount |-> IF HasTag(request, "amount")
                            THEN NumberOf[FirstTag(request, "amount")[2]] ELSE 0,
                 sender |-> request.pubkey,
                 recipient |-> FirstTag(receipt, "p")[2],
                 eventId |-> getTagValue(receipt, "e", 0),
                 content |-> request.content]

InvoiceFor(request) == [decodes |-> TRUE, descriptionHash |-> sha256(request)]

\* The receipts a provider makes that do not belong to the request: for another
\* recipient, for an altered request, or with the invoice of one.
Misattributed(options, request, provider) ==
  {createZapReceipt([options EXCEPT !.recipientPubkey = p], InvoiceFor(request), request, provider) :
     p \in PublicKeys \ {options.recipientPubkey}}
  \cup {createZapReceipt(options, InvoiceFor(request), other, provider) : other \in Altered(request)}
  \cup {createZapReceipt(options, InvoiceFor(other), request, provider) : other \in Altered(request)}
  \cup {createZapReceipt(options, [decodes |-> FALSE], request, provider)}

\* A receipt tells who zapped whom, for what, how much and with which words.
ZapReadsBack(options, secret, provider) ==
  LET request == createSignedEvent(createZapRequest(options, PublicKeyOf[secret]), secret)
      receiver == PublicKeyOf[provider]
      receipt == createSignedEvent(createZapReceipt(options, InvoiceFor(request), request, receiver), provider)
  IN  /\ Accepted(request) /\ Accepted(receipt)
      /\ validateZapReceipt(receipt, receiver) =
           [valid |-> TRUE, amount |-> options.amount, sender |-> PublicKeyOf[secret],
            recipient |-> options.recipientPubkey, eventId |-> options.eventId,
            content |-> options.content]

\* It counts for no other provider than the expected one, and none that was put
\* together otherwise counts.
ZapIsAttributed(options, secret, provider) ==
  LET request == createSignedEvent(createZapRequest(options, PublicKeyOf[secret]), secret)
      receiver == PublicKeyOf[provider]
  IN  /\ \A other \in PublicKeys \ {receiver} :
           validateZapReceipt(createZapReceipt(options, InvoiceFor(request), request, receiver), other) = InvalidZap
      /\ \A wrong \in Misattributed(options, request, receiver) :
           validateZapReceipt(wrong, receiver) = InvalidZap

-----------------------------------------------------------------------------
\* The zap client (nip57/client.ts).

CONSTANTS
  ZapSubscriptions,  \* ids that Nostr.subscribe may return
  MaxZaps            \* bound: receipts that arrive

VARIABLES
  zapCall,       \* "idle", "subscribing", "waiting", "resolved", "rejected"
  zapSubs,       \* activeSubscriptionIds
  zapOpen,       \* the subscriptions open at the client
  zapTimer,      \* timeoutId # null
  zapEarlyEose,  \* reachedEoseSynchronously
  zapEvents,     \* how many receipts are in events
  zapHeard       \* history: how many arrived before the call was over

zapVars == <<zapCall, zapSubs, zapOpen, zapTimer, zapEarlyEose, zapEvents, zapHeard>>

ZapInit ==
  /\ zapCall = "idle" /\ zapSubs = {} /\ zapOpen = {} /\ zapTimer = FALSE
  /\ zapEarlyEose = FALSE /\ zapEvents = 0 /\ zapHeard = 0

ZapSettled == zapCall \in {"resolved", "rejected"}

\* releaseSubscriptions() forgets the ids before it gives them to the client.
ReleaseSubscriptions ==
  /\ zapSubs' = {}
  /\ zapOpen' = zapOpen \ zapSubs

SettleZaps ==
  /\ zapCall' = "resolved"
  /\ zapTimer' = FALSE
  /\ ReleaseSubscriptions

CollectZapReceipts ==
  /\ zapCall = "idle"
  /\ zapCall' = "subscribing"
  /\ UNCHANGED <<zapSubs, zapOpen, zapTimer, zapEarlyEose, zapEvents, zapHeard>>

\* Inside subscribe(), or later.
\* Mutant: what follows an early EOSE counts, too.
ReceiptArrivesLate ==
  /\ zapCall \in {"subscribing", "waiting", "resolved"} /\ zapHeard < MaxZaps
  /\ zapEvents' = IF ZapSettled THEN zapEvents ELSE zapEvents + 1
  /\ zapHeard' = IF ZapSettled \/ zapEarlyEose THEN zapHeard ELSE zapHeard + 1
  /\ UNCHANGED <<zapCall, zapSubs, zapOpen, zapTimer, zapEarlyEose>>

ReceiptArrives ==
  /\ zapCall \in {"subscribing", "waiting", "resolved"} /\ zapHeard < MaxZaps
  /\ zapEvents' = IF ZapSettled \/ zapEarlyEose THEN zapEvents ELSE zapEvents + 1
  /\ zapHeard' = IF ZapSettled \/ zapEarlyEose THEN zapHeard ELSE zapHeard + 1
  /\ UNCHANGED <<zapCall, zapSubs, zapOpen, zapTimer, zapEarlyEose>>

HandleEose ==
  \/ /\ zapCall = "subscribing"
     /\ zapEarlyEose' = TRUE
     /\ UNCHANGED <<zapCall, zapSubs, zapOpen, zapTimer, zapEvents, zapHeard>>
  \/ /\ zapCall = "waiting"
     /\ SettleZaps
     /\ UNCHANGED <<zapEarlyEose, zapEvents, zapHeard>>

\* subscribe() returns: an EOSE that came meanwhile is honoured now.
\* Mutant: it is forgotten.
SubscribeReturnsWaiting ==
  /\ zapCall = "subscribing"
  /\ \E ids \in SUBSET ZapSubscriptions : zapSubs' = ids /\ zapOpen' = ids
  /\ zapCall' = "waiting" /\ zapTimer' = TRUE
  /\ UNCHANGED <<zapEarlyEose, zapEvents, zapHeard>>

SubscribeReturns ==
  /\ zapCall = "subscribing"
  /\ IF zapEarlyEose
     THEN /\ zapCall' = "resolved"  \* and every id it returned is released
          /\ UNCHANGED <<zapTimer, zapSubs, zapOpen>>
     ELSE /\ \E ids \in SUBSET ZapSubscriptions : zapSubs' = ids /\ zapOpen' = ids
          /\ zapCall' = "waiting" /\ zapTimer' = TRUE
  /\ UNCHANGED <<zapEarlyEose, zapEvents, zapHeard>>

\* It throws, and has rolled back what it had subscribed.
SubscribeFails ==
  /\ zapCall = "subscribing"
  /\ zapCall' = "rejected"
  /\ UNCHANGED <<zapSubs, zapOpen, zapTimer, zapEarlyEose, zapEvents, zapHeard>>

ZapTimeout ==
  /\ zapTimer
  /\ SettleZaps
  /\ UNCHANGED <<zapEarlyEose, zapEvents, zapHeard>>

\* The user drops a subscription of the client meanwhile.
ForeignUnsubscribe ==
  /\ \E id \in zapOpen : zapOpen' = zapOpen \ {id}
  /\ UNCHANGED <<zapCall, zapSubs, zapTimer, zapEarlyEose, zapEvents, zapHeard>>

ZapNext ==
  \/ CollectZapReceipts \/ ReceiptArrives \/ HandleEose
  \/ SubscribeReturns \/ SubscribeFails \/ ZapTimeout \/ ForeignUnsubscribe

\* A fetch of receipts that is over has left neither a subscription nor a timer,
\* one that goes on has had no EOSE and will be ended by its timer, and what it
\* returns is all receipts that came before its end and no others.
ZapsReleased ==
  /\ ZapSettled => zapOpen = {} /\ zapSubs = {} /\ ~zapTimer
  /\ zapCall = "waiting" => zapTimer /\ ~zapEarlyEose /\ zapOpen \subseteq zapSubs
  /\ zapEvents = zapHeard

-----------------------------------------------------------------------------
\* Receipts

Lesser(a, b) == IF a < b THEN a ELSE b
Greater(a, b) == IF a < b THEN b ELSE a

NoStats == [total |-> 0, count |-> 0, largest |-> 0, smallest |-> 0, firstAt |-> 0, latestAt |-> 0]

\* One receipt after another; smallest and firstAt are 0 as long as there is none.
AddToStats(stats, zap) ==
  LET checked == validateZapReceipt(zap, zap.pubkey)
      first == stats.count = 0
  IN  IF ~checked.valid THEN stats
      ELSE IF checked.amount = 0 THEN stats
      ELSE [total |-> stats.total + checked.amount,
            count |-> stats.count + 1,
            largest |-> Greater(stats.largest, checked.amount),
            smallest |-> IF first THEN checked.amount ELSE Lesser(stats.smallest, checked.amount),
            firstAt |-> IF first THEN zap.created_at ELSE Lesser(stats.firstAt, zap.created_at),
            latestAt |-> Greater(stats.latestAt, zap.created_at)]

getTotalZapsReceived(zaps) ==
  LET stats == FoldLeft(AddToStats, NoStats, zaps)
  IN  [stats |-> stats, average |-> IF stats.count = 0 THEN 0 ELSE stats.total \div stats.count]

\* By the author of the request a receipt holds.
fetchUserSentZaps(receipts, pubkey) ==
  SelectSeq(receipts, LAMBDA r : HasTag(r, "description") /\ FirstTag(r, "description")[2].pubkey = pubkey)

\* The receipts for zaps [options, secret, at], made by one provider.
ReceiptsOf(zaps, provider) ==
  [i \in DOMAIN zaps |->
     LET made == createSignedEvent(createZapRequest(zaps[i].options, PublicKeyOf[zaps[i].secret]), zaps[i].secret)
         receipt == createZapReceipt(zaps[i].options, InvoiceFor(made), made, PublicKeyOf[provider])
     IN  createSignedEvent([receipt EXCEPT !.created_at = zaps[i].at], provider)]

\* Statistics do not depend on the order in which relays delivered the receipts
\* and are consistent with each other, and each receipt has one sender.
StatsAddUp(zaps, provider) ==
  LET receipts == ReceiptsOf(zaps, provider)
      result == getTotalZapsReceived(receipts)
  IN  /\ getTotalZapsReceived(Reverse(receipts)) = result
      /\ result.stats.count = Cardinality({i \in DOMAIN zaps : zaps[i].options.amount > 0})
      /\ result.stats.count > 0 =>
           /\ result.stats.smallest <= result.average /\ result.average <= result.stats.largest
           /\ result.stats.firstAt <= result.stats.latestAt
      /\ Len(receipts) = FoldLeft(+, 0, [i \in 1 .. Cardinality(SecretKeys) |->
           Len(fetchUserSentZaps(receipts, PublicKeyOf[SetToSeq(SecretKeys)[i]]))])

-----------------------------------------------------------------------------
\* Invoices

\* The client asks in the name of no key for an anonymous zap.
ZeroKey == "zeros"

InvoiceError == [invoice |-> FALSE, request |-> Refused]

\* What the provider says of itself: [minSendable, maxSendable, allowsNostr,
\* nostrPubkey], or Refused if that cannot be fetched or is incomplete.
supportsNostrZaps(metadata) == metadata.allowsNostr /\ metadata.nostrPubkey # ""

\* sender is the client's own key, "" without one; grants is what the callback
\* answers.  The recipient's relays are listed and the comment is the content.
\* Mutant: the limits of the provider are not looked at.
getZapInvoiceUnlimited(options, sender, anonymous, secret, metadata, grants) ==
  LET signer == IF anonymous THEN ZeroKey ELSE sender
      request == createSignedEvent(createZapRequest(options, signer), secret)
  IN  IF \/ sender = "" /\ ~anonymous
         \/ metadata = Refused
      THEN InvoiceError
      ELSE IF ~supportsNostrZaps(metadata) \/ request = Refused THEN InvoiceError
      ELSE [invoice |-> grants, request |-> request]

getZapInvoice(options, sender, anonymous, secret, metadata, grants) ==
  LET signer == IF anonymous THEN ZeroKey ELSE sender
      request == createSignedEvent(createZapRequest(options, signer), secret)
  IN  IF \/ sender = "" /\ ~anonymous
         \/ metadata = Refused
      THEN InvoiceError
      ELSE IF \/ ~supportsNostrZaps(metadata)
              \/ options.amount \notin metadata.minSendable .. metadata.maxSendable
              \/ request = Refused
           THEN InvoiceError
           ELSE [invoice |-> grants, request |-> request]

\* An invoice is one the provider granted for a request it can check: signed by
\* the client, naming the recipient, and for an amount the provider takes.
InvoiceIsCovered(options, sender, anonymous, secret, metadata, grants) ==
  LET result == getZapInvoice(options, sender, anonymous, secret, metadata, grants)
  IN  result.invoice =>
        /\ grants
        /\ sender = PublicKeyOf[secret] => Accepted(result.request)
        /\ NumberOf[getTagValue(result.request, "amount", 0)]
             \in metadata.minSendable .. metadata.maxSendable
        /\ getTagValue(result.request, "p", 0) = options.recipientPubkey
-----------------------------------------------------------------------------
\* Splits: parseZapSplit reads the receivers and their weights from the zap tags of
\* an event, calculateZapSplitAmounts divides an amount among them.

parseInt(text) == IF text \in DOMAIN LeadingNumberOf THEN LeadingNumberOf[text] ELSE NaN

WeightOf(tag) == IF Element(tag, 4) = "" THEN 0 ELSE parseInt(Element(tag, 4))

\* Equal weights if nobody has one; NaN > 0 is false.
parseZapSplit(event) ==
  LET tags == TagsNamed(event.tags, "zap")
      weighted == \E i \in DOMAIN tags : WeightOf(tags[i]) # NaN /\ WeightOf(tags[i]) > 0
  IN  [i \in DOMAIN tags |-> [pubkey |-> tags[i][2], relay |-> Element(tags[i], 3),
                              weight |-> IF weighted THEN WeightOf(tags[i]) ELSE 1]]

\* NaN as soon as one weight is.
TotalWeight(split) ==
  IF \E i \in DOMAIN split : split[i].weight = NaN THEN NaN
  ELSE FoldLeft(LAMBDA sum, info : sum + info.weight, 0, split)

\* Mutant: shares are rounded to the nearest integer.
SharesRounded(weight, total, amount) ==
  IF total = NaN THEN {NaN}
  ELSE LET sign == IF total < 0 THEN -1 ELSE 1
       IN  {(2 * sign * weight * amount + sign * total) \div (2 * sign * total)}

\* floor(weight / total * amount) in floating point: where the exact share is an
\* integer, rounding the quotient may leave the product just below it.
Shares(weight, total, amount) ==
  IF total = NaN THEN {NaN}
  ELSE LET sign == IF total < 0 THEN -1 ELSE 1
           exact == (sign * weight * amount) \div (sign * total)
           inexact == (weight * amount) % (sign * total) = 0 /\ sign * total > 2 /\ exact # 0
       IN  {exact} \cup (IF inexact THEN {exact - 1} ELSE {})

\* Every way the amounts may come out.
calculateZapSplitAmounts(amount, split) ==
  LET total == TotalWeight(split)
      shares == [i \in DOMAIN split |-> Shares(split[i].weight, total, amount)]
  IN  IF total = 0 THEN {<<>>}
      ELSE {amounts \in [DOMAIN split -> UNION Range(shares)] :
              \A i \in DOMAIN split : amounts[i] \in shares[i]}

\* Among weights that are numbers and not negative, a split never pays out more
\* than there is, keeps less than two units per receiver back, and pays nobody less
\* than somebody of half the weight.
SplitIsFair(tags, amount) ==
  LET split == parseZapSplit([tags |-> tags])
  IN  (\A i \in DOMAIN split : split[i].weight \in Nat) =>
        \A amounts \in calculateZapSplitAmounts(amount, split) :
          LET paid == FoldLeft(+, 0, amounts)
          IN  /\ paid <= amount
              /\ split # <<>> => amount - paid < 2 * Len(split)
              /\ \A i, j \in DOMAIN amounts :
                   split[i].weight >= 2 * split[j].weight => amounts[i] >= amounts[j]
===============================================================================
