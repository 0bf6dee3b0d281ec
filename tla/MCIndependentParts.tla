-------------------------- MODULE MCIndependentParts --------------------------
(* Instances: windows and time-outs of a few ticks, a group of one pubkey,  *)
(* and samples at the limits of the conversions.                            *)
EXTENDS IndependentParts

Symmetry == Permutations(SimpleCallers)

\* The burst, minute and hour windows, in proportion: 10, 60 and 3600 seconds.
MCWindows == {[span |-> 1, limit |-> 2], [span |-> 2, limit |-> 3], [span |-> 5, limit |-> 4]}

MCRateLimits == {[limit |-> 1, windowMs |-> 2], [limit |-> 2, windowMs |-> 3]}
MCDefaultRateLimit == [limit |-> 2, windowMs |-> 3]

Url(n) == [i \in 1 .. n |-> 97]
Key == [i \in 1 .. 32 |-> i]
Kinds == {0, 255, 256, 65535, 65536, 16777216, 2147483647}
RelayLists == {[i \in 1 .. n |-> Url(m)] : n \in {0, 1, 2, 16, 17, 18, 19, 20}, m \in {6, 32, 200, 255}}
MCInvalid == {Url(200)}

MCReferences ==
  {[type |-> "nprofile", data |-> [pubkey |-> Key, relays |-> r]] : r \in RelayLists}
  \cup {[type |-> "nevent", data |-> [id |-> Key, author |-> a, relays |-> r]] :
          a \in {Key, Absent}, r \in RelayLists}
  \cup {[type |-> "naddr", data |-> [identifier |-> Url(n), pubkey |-> Key, kind |-> k, relays |-> r]] :
          n \in {0, 1, 255}, k \in Kinds, r \in {l \in RelayLists : Len(l) \in {0, 2, 17, 18}}}

ThreadPointers == {[id |-> i, relay |-> r, pubkey |-> p] : i \in {"a", "b"}, r \in {"", "r"}, p \in {"", "p"}}
MCThreads == [root : ThreadPointers, reply : ThreadPointers \cup {NoPointer},
              quote : ThreadPointers, plain : {[id |-> "c"]}]

MCPlaintexts == (1 .. 300) \cup UNION {{2^k - 1, 2^k, 2^k + 1} : k \in 9 .. 15} \cup {65535}
-----------------------------------------------------------------------------
(* Keys, URLs and numbers of the conversions of events. *)
MCPublicKeyOf == [sa |-> "pa", sb |-> "pb", sp |-> "pp"]
MCPublicKeys == {"pa", "pb", "pp"}
MCHexStrings == MCPublicKeys \cup {"h1", "h2"}
MCHexPrefixes == MCHexStrings \cup {"h"}
MCLowercaseOf == [PA |-> "pa"]
MCWebSocketUrls == {"ws://a", "ws://b"}
MCCanonicalUrl == "ws://a" :> "ws://a" @@ "WS://A" :> "ws://a" @@ "ws://b" :> "ws://b"
MCCoordinates ==
  "30000:pa:d1" :> [kind |-> 30000, pubkey |-> "pa", d |-> "d1", parts |-> 3]
  @@ "30000:pb:d1" :> [kind |-> 30000, pubkey |-> "pb", d |-> "d1", parts |-> 3]
  @@ "30000:pa:" :> [kind |-> 30000, pubkey |-> "pa", d |-> "", parts |-> 3]
MCNumberOf == "0" :> 0 @@ "1" :> 1 @@ "2" :> 2 @@ "3" :> 3 @@ "5" :> 5 @@ "10" :> 10 @@ "30000" :> 30000
              @@ "86400" :> 86400 @@ "86401" :> 86401 @@ "300000" :> 300000 @@ "300001" :> 300001
MCLeadingNumberOf == MCNumberOf @@ "1h" :> 1 @@ "1.5" :> 1 @@ "-1" :> -1
MCLongTexts == {<<"long">>}
MCJsonTexts == {<<"{}">>}
MCTextsFound == {<<"hi", "hi">>, <<"hi you", "hi">>, <<"x", "x">>}

Tags(tagSet, most) == UNION {[1 .. n -> tagSet] : n \in 0 .. most}

MadeTags == Tags({<<"e", "h1">>, <<"a", "30000:pa:d1">>, <<"t">>}, 2)
MCEvents ==
  [make : {"note"}, content : {<<"hi">>, <<"{}">>}, secret : {"sa", "sb"}, tags : MadeTags]
  \cup [make : {"message"}, content : {<<"hi">>}, to : MCPublicKeys, secret : {"sa"}, tags : MadeTags]
  \cup [make : {"metadata"}, content : MCJsonTexts, secret : {"sa"}]
  \cup [make : {"addressable"}, kind : {30000, 39999}, d : {"", "d1"}, content : {<<>>, <<"hi">>},
        secret : {"sb"}, tags : MadeTags]
  \cup [make : {"event"}, kind : {1, 5, 24133}, secret : {"sa"}, content : {<<>>, <<"hi">>},
        tags : {<<<<"p", "pb">>>>, <<<<"t", "x">>, <<"p", "pp">>, <<"p", "pa">>>>}]

MCContacts ==
  [secret : {"sa"},
   tags : Tags({<<>>, <<"p">>, <<"p", "pa">>, <<"p", "PA", "WS://A", "bob">>, <<"p", "pb", "ws://b">>,
                <<"p", "pb", " ">>, <<"p", "pp", "", "bob">>, <<"p", "pp", "http", "eve", "x">>, <<"t", "pa">>}, 3)]

MCRelayLists ==
  [secret : {"sa"}, relays : Tags([url : {"ws://a", "ws://b", "http"}, read : BOOLEAN, write : BOOLEAN], 2)]

MCDeletions ==
  [ids : Tags({"h1", "h2"}, 1), addresses : Tags(DOMAIN MCCoordinates, 2), kinds : Tags({1, 30000}, 1),
   secret : {"sa"},
   event : [id : {"h1"}, pubkey : {"pa", "pb"}, kind : {1, 30000},
            tags : {<<>>, <<<<"d", "d1">>>>, <<<<"d", "">>>>, <<<<"d">>, <<"d", "d1">>>>}]]

MCAuths ==
  [challenge : {"c1"}, otherChallenge : {"c1", "c2"}, secret : {"sa"},
   relayUrl : DOMAIN MCCanonicalUrl, otherUrl : DOMAIN MCCanonicalUrl]

ReportTargets ==
  LET target(type, value, reason, pubkey, eventId, server) ==
        [type |-> type, value |-> value, reportType |-> reason, pubkey |-> pubkey,
         eventId |-> eventId, server |-> server]
  IN  {target("p", "pa", "spam", "", "", ""), target("e", "h1", "illegal", "pb", "", ""),
       target("x", "h2", "malware", "", "", ""), target("x", "h2", "nudity", "", "h1", ""),
       target("x", "h2", "other", "", "", "http"), target("x", "h1", "spam", "", "h2", "http")}
MCReports == [content : {<<>>, <<"hi">>}, secret : {"sa"}, targets : Tags(ReportTargets, 3) \ {<<>>}]

Protections == Tags({<<"-">>, <<"-", "x">>, <<"t", "-">>, <<>>}, 2)

ZapOptions(amounts) ==
  [recipientPubkey : {"pb"}, relays : {<<>>, <<"ws://a">>}, eventId : {"", "h1"}, amount : amounts,
   lnurl : {"", "lnurl1"}, aTag : {"", "30000:pa:d1"}, senderPubkey : {"", "pa", "pb"},
   content : {<<>>, <<"hi">>}]
MCZaps == [options : ZapOptions({0, 5}), secret : {"sa"}, provider : {"sp"}]

MCSplits ==
  [tags : Tags({<<"zap", "pa", "ws://a", w>> : w \in {"0", "1", "2", "3", "1h", "-1", "many"}} \cup {<<"zap", "pb">>}, 3),
   amount : {0, 1, 5, 10}]

PlainOptions(amounts) ==
  {o \in ZapOptions(amounts) : /\ o.relays = <<>> /\ o.eventId = "" /\ o.lnurl = "" /\ o.aTag = ""
                               /\ o.senderPubkey = "" /\ o.content = <<>>}
MCStats ==
  [provider : {"sp"},
   zaps : Tags([options : PlainOptions({0, 5, 10}), secret : {"sa", "sb"}, at : {1000, 1001}], 3)]

MCInvoices ==
  [options : PlainOptions({2, 5, 10}), sender : {"", "pa"}, anonymous : BOOLEAN, secret : {"sa"}, grants : BOOLEAN,
   metadata : {Refused} \cup [minSendable : {3, 5}, maxSendable : {5, 7}, allowsNostr : BOOLEAN,
                              nostrPubkey : {"", "pp"}]]

FilterEvents ==
  LET event(id, pubkey, kind, at, tags, content) ==
        [id |-> id, pubkey |-> pubkey, kind |-> kind, created_at |-> at, tags |-> tags, content |-> content]
  IN  <<event("h1", "pa", 1, 5, <<>>, <<"hi">>), event("h2", "pa", 3, 6, <<<<"t", "x">>>>, <<>>),
        event("pa", "pb", 1, 6, <<<<"t", "y", "x">>>>, <<"hi you">>),
        event("pb", "pb", 3, 7, <<<<"e", "x">>>>, <<"x">>), event("pp", "pb", 3, 7, <<<<>>, <<"t">>>>, <<>>)>>
MCFilters ==
  [events : {FilterEvents}, query : {"hi", ""},
   filter : [ids : {Unset, <<>>, <<"h1", "pa", "pb">>}, authors : {Unset, <<"pa">>},
             kinds : {Unset, <<1>>, <<1, 70000>>}, since : {Unset, 6}, until : {Unset, 6, 7},
             limit : {Unset, 1}, search : {Unset, "hi", "x"},
             tags : {<<>>, [t |-> <<"x">>], [t |-> <<>>], [e |-> <<"x">>, t |-> <<"y">>], [tt |-> <<"x">>]}]]

GroupOptions(tags) ==
  [name : {Unset, "", "bob"}, picture : {Unset}, about : {Unset, "x"}, content : {<<>>}, code : {""},
   private : {Unset, TRUE, FALSE}, restricted : {Unset}, hidden : {Unset, TRUE}, closed : {Unset, TRUE},
   roles : {<<>>}, previous : {<<>>}, additionalTags : tags]
RequestOptions(tags) ==
  [content : {<<>>, <<"hi">>}, code : {"", "x"}, roles : {<<>>, <<"bob", "">>}, previous : {<<>>, <<"h1">>},
   additionalTags : tags]
Leaving == {o \in RequestOptions({<<>>, <<<<"h", "g1">>>>}) : o.content = <<>> /\ o.code = "" /\ o.roles = <<>>}
OfGroup == [group : {"g1"}, other : {"g2"}, secret : {"sa"}, otherOptions : Leaving]
Joined(made, more) == {a @@ b @@ c : a \in made, b \in OfGroup, c \in more}
AddedTags == {<<>>, <<<<"h", "g2">>>>, <<<<"d", "g2">>>>}
MCGroupEvents ==
  Joined([make : {"edit", "metadata"}], [options : GroupOptions(AddedTags)])
  \cup Joined([make : {"join", "leave"}], [options : RequestOptions(AddedTags)])
  \cup Joined([make : {"put", "remove"}], [options : RequestOptions({<<>>, <<<<"p", "pb">>>>}), target : {"h1", "pa"}])
  \cup Joined([make : {"admins"}],
        [content : {<<>>}, list : Tags([pubkey : {"pa", "h1"}, roles : {<<>>, <<"r">>, <<"r", "", "s">>}], 2)])
  \cup Joined([make : {"members"}], [content : {<<"hi">>}, list : Tags({"pa", "h1", "h2"}, 2)])
  \cup Joined([make : {"roles"}],
        [content : {<<>>}, list : Tags([name : {"r", ""}, description : {Unset, "", "x"}], 2)])

MCDiscoveries ==
  [secret : {"sa"}, content : {<<>>, <<"{}">>, <<"hi">>},
   tags : {<<<<"d", "WS://A">>>> \o t :
             t \in Tags({<<"d", "http">>, <<"d", "ws://b">>, <<"n", "x">>, <<"n", " ">>, <<"T", "">>, <<"N", "1">>,
                         <<"N", "one">>, <<"R", "x">>, <<"R", " ">>, <<"t", "x">>, <<"k", "1">>, <<"k", "one">>,
                         <<"g", "u1">>, <<"g", " ">>, <<"rtt-open", "5">>, <<"rtt-read", "1.5">>,
                         <<"rtt-write", "10">>, <<"-">>, <<"x", "y">>}, 2)}]
MCAnnouncements ==
  [secret : {"sa"}, content : {<<>>, <<"hi">>},
   tags : Tags({<<"frequency", "86400">>, <<"frequency", "86401">>, <<"frequency", "0">>, <<"frequency", "1h">>,
                <<"timeout", "5">>, <<"timeout", "300000", "x">>, <<"timeout", "300001">>, <<"timeout", "5", " ">>,
                <<"timeout", "">>, <<"c", "x">>, <<"c", "">>, <<"g", "u1">>, <<"g", "">>, <<>>}, 3)]

MCBytes ==
  LET ByteStrings(values, most) == UNION {[1 .. n -> values] : n \in 0 .. most}
      sixteen == [i \in 1 .. 16 |-> 16 * i - 1]
  IN  [bytes : ByteStrings({0, 1, 255}, 3) \cup {sixteen},
       other : {base64Encode(b) : b \in ByteStrings({0, 1, 255}, 2)}
               \cup {<<0, 16, 64, 64>>, <<0, 0, 5, 64>>, <<0, 0>>, <<64, 0, 0, 0>>, <<0, 0, 64, 0>>}]

MCSecrets ==
  [first : {<<"hi">>}, second : {<<"hi">>, <<"{}">>}, secret : {"sa", "sb"},
   receiver : MCPublicKeys, reader : DOMAIN MCPublicKeyOf, writer : MCPublicKeys, version : 0 .. 3]
MCMacs ==
  LET macs == UNION {[1 .. n -> {0, 1, 8, 128, 255}] : n \in 0 .. 2} IN [a : macs, b : macs]
MCLegacySecrets ==
  [text : {<<>>, <<"hi">>}, secret : {"sa", "sb"}, receiver : MCPublicKeys, reader : DOMAIN MCPublicKeyOf,
   writer : MCPublicKeys, iv : [size : {15, 16}]]
MCMessages ==
  [message : {<<>>, <<"hi">>}, secret : {"sa", "sb"}, receiver : {"pa", "pb"}, ephemeral : {"sp"},
   reader : {"sa", "sb", "sp"}, offsets : [1 .. 3 -> {0, TwoDays}]]
MCRumors ==
  [named : MCPublicKeys, kind : {1, 13, 14, 15}, secret : {"sa", "sb"}, receiver : {"sa", "sb"},
   ephemeral : {"sp", "sa"}, sealKind : {13, 14}, wrapKind : {1058, 1059}]

MCMerges ==
  UNION {[found : [1 .. n -> {NoEvent} \cup StoredEvent],
          addresses : {a \in [1 .. 3 -> {1, 2}] : a[1] = 1}] : n \in 0 .. 3}
MCDirectMessages ==
  [content : {<<>>, <<"hi">>}, recipient : MCPublicKeys, secret : {"sa", "sb"}, reader : DOMAIN MCPublicKeyOf,
   tags : {<<>>, <<<<"e", "h1">>>>, <<<<"t">>, <<"e", "h1">>>>}]

MCManagementMethods ==
  {[method |-> "banpubkey", params |-> rpcParams("pa", reason)] : reason \in {"", "spam"}}
  \cup {[method |-> "call", params |-> p] : p \in {<<>>, <<"undefined">>, <<"circular">>}}

MCSamples ==
  [reference |-> MCReferences, thread |-> MCThreads, plaintext |-> MCPlaintexts, event |-> MCEvents,
   contacts |-> MCContacts, relayList |-> MCRelayLists, deletion |-> MCDeletions, auth |-> MCAuths,
   report |-> MCReports, protection |-> [parent : Protections, tags : Protections], zap |-> MCZaps,
   split |-> MCSplits, stats |-> MCStats, invoice |-> MCInvoices, filter |-> MCFilters,
   groupEvent |-> MCGroupEvents, discovery |-> MCDiscoveries, announcement |-> MCAnnouncements,
   bytes |-> MCBytes, secret |-> MCSecrets, mac |-> MCMacs, legacySecret |-> MCLegacySecrets,
   message |-> MCMessages, rumor |-> MCRumors, merge |-> MCMerges,
   directMessage |-> MCDirectMessages]
=============================================================================
