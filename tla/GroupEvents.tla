----------------------------- MODULE GroupEvents -----------------------------
(***************************************************************************)
(* The events of relay-based groups (src/src/nip29/index.ts): what the     *)
(* builders make, what the parsers read, which group an event belongs to,  *)
(* and the filters that ask a relay for the events of a group.  GroupState *)
(* is about what the reducers make of them.                                *)
(*                                                                         *)
(* Options are records that have every field; Unset is one not given.      *)
(***************************************************************************)
EXTENDS Events

CONSTANT GroupIds  \* strings of the characters a group id may have

GroupKind == [metadata |-> 39000, admins |-> 39001, members |-> 39002, roles |-> 39003,
              putUser |-> 9000, removeUser |-> 9001, editMetadata |-> 9002,
              joinRequest |-> 9021, leaveRequest |-> 9022]

SnapshotKinds == {GroupKind.metadata, GroupKind.admins, GroupKind.members, GroupKind.roles}

Texts == <<"name", "picture", "about">>
Flags == <<"private", "restricted", "hidden", "closed">>
Negated == [private |-> "public", restricted |-> "unrestricted", hidden |-> "visible", closed |-> "open"]

\* The tags that some of a list give rise to.
TagsFrom(list, TagOf(_)) == FlattenSeq([i \in DOMAIN list |-> TagOf(list[i])])

One(tag, when) == IF when THEN <<tag>> ELSE <<>>

FirstTagValue(tags, name) ==
  LET found == TagsNamed(tags, name)
  IN  IF found # <<>> /\ Len(found[1]) > 1 THEN found[1][2] ELSE Unset

-----------------------------------------------------------------------------
\* Builders

PreviousTags(previous) == TagsFrom(previous, LAMBDA id : <<<<"previous", id>>>>)

buildGroupScopedUnsignedEvent(kind, groupId, secret, content, tags) ==
  IF groupId \notin GroupIds THEN Refused
  ELSE createEvent([kind |-> kind, content |-> content, tags |-> <<<<"h", groupId>>>> \o tags,
                    created_at |-> 0], PublicKeyOf[secret])

Trailing(options) == PreviousTags(options.previous) \o options.additionalTags

createGroupJoinRequest(groupId, secret, options) ==
  buildGroupScopedUnsignedEvent(GroupKind.joinRequest, groupId, secret, options.content,
    One(<<"code", options.code>>, options.code # "") \o Trailing(options))

createGroupLeaveRequest(groupId, secret, options) ==
  buildGroupScopedUnsignedEvent(GroupKind.leaveRequest, groupId, secret, options.content, Trailing(options))

createPutUserEvent(groupId, target, secret, options) ==
  IF target \notin HexStrings THEN Refused
  ELSE buildGroupScopedUnsignedEvent(GroupKind.putUser, groupId, secret, options.content,
         <<<<"p", target>> \o options.roles>> \o Trailing(options))

createRemoveUserEvent(groupId, target, secret, options) ==
  IF target \notin HexStrings THEN Refused
  ELSE buildGroupScopedUnsignedEvent(GroupKind.removeUser, groupId, secret, options.content,
         <<<<"p", target>>>> \o Trailing(options))

\* A text that is given may be empty, and so erase; a flag may be taken back.
createEditGroupMetadataEvent(groupId, secret, options) ==
  buildGroupScopedUnsignedEvent(GroupKind.editMetadata, groupId, secret, options.content,
    TagsFrom(Texts, LAMBDA text : One(<<text, options[text]>>, options[text] # Unset))
      \o TagsFrom(Flags, LAMBDA flag : One(<<flag>>, options[flag] = TRUE)
                                         \o One(<<Negated[flag]>>, options[flag] = FALSE))
      \o Trailing(options))

createGroupMetadataEvent(groupId, secret, options) ==
  IF groupId \notin GroupIds THEN Refused
  ELSE createAddressableEvent(GroupKind.metadata, groupId, options.content, secret,
         TagsFrom(Texts, LAMBDA text : One(<<text, options[text]>>, options[text] \notin {Unset, ""}))
           \o TagsFrom(Flags, LAMBDA flag : One(<<flag>>, options[flag] = TRUE))
           \o options.additionalTags)

createGroupAdminsEvent(groupId, secret, admins, content) ==
  IF groupId \notin GroupIds \/ \E i \in DOMAIN admins : admins[i].pubkey \notin HexStrings THEN Refused
  ELSE createAddressableEvent(GroupKind.admins, groupId, content, secret,
         TagsFrom(admins, LAMBDA admin : <<<<"p", admin.pubkey>> \o admin.roles>>))

createGroupMembersEvent(groupId, secret, members, content) ==
  IF groupId \notin GroupIds \/ ~(Range(members) \subseteq HexStrings) THEN Refused
  ELSE createAddressableEvent(GroupKind.members, groupId, content, secret,
         TagsFrom(members, LAMBDA member : <<<<"p", member>>>>))

createGroupRolesEvent(groupId, secret, roles, content) ==
  IF groupId \notin GroupIds THEN Refused
  ELSE createAddressableEvent(GroupKind.roles, groupId, content, secret,
         TagsFrom(roles, LAMBDA role :
           <<<<"role", role.name>> \o (IF role.description \in {Unset, ""} THEN <<>>
                                       ELSE <<role.description>>)>>))

-----------------------------------------------------------------------------
\* Parsers

\* The d tag every parser wants.
HasGroup(event, kind) == event.kind = kind /\ FirstTagValue(event.tags, "d") \in GroupIds

Flagged(event, name) == TagsNamed(event.tags, name) # <<>>

parseGroupMetadataEvent(event) ==
  IF ~HasGroup(event, GroupKind.metadata) THEN Refused
  ELSE [id |-> FirstTagValue(event.tags, "d"),
        texts |-> [i \in DOMAIN Texts |-> FirstTagValue(event.tags, Texts[i])],
        flags |-> [i \in DOMAIN Flags |-> Flagged(event, Flags[i])]]

\* The p tags that name a pubkey.
PubkeyTags(event) ==
  SelectSeq(TagsNamed(event.tags, "p"), LAMBDA tag : Element(tag, 2) \in HexStrings)

NonEmpty(texts) == SelectSeq(texts, LAMBDA text : text # "")

\* Mutant: only the first role is read.
parseGroupAdminsEventOneRole(event) ==
  IF ~HasGroup(event, GroupKind.admins) THEN Refused
  ELSE [id |-> FirstTagValue(event.tags, "d"),
        admins |-> TagsFrom(PubkeyTags(event), LAMBDA tag :
                     <<[pubkey |-> tag[2], roles |-> NonEmpty(<<Element(tag, 3)>>)]>>)]

parseGroupAdminsEvent(event) ==
  IF ~HasGroup(event, GroupKind.admins) THEN Refused
  ELSE [id |-> FirstTagValue(event.tags, "d"),
        admins |-> TagsFrom(PubkeyTags(event), LAMBDA tag :
                     <<[pubkey |-> tag[2], roles |-> NonEmpty(SubSeq(tag, 3, Len(tag)))]>>)]

parseGroupMembersEvent(event) ==
  IF ~HasGroup(event, GroupKind.members) THEN Refused
  ELSE [id |-> FirstTagValue(event.tags, "d"),
        members |-> TagsFrom(PubkeyTags(event), LAMBDA tag : <<tag[2]>>)]

parseGroupRolesEvent(event) ==
  IF ~HasGroup(event, GroupKind.roles) THEN Refused
  ELSE [id |-> FirstTagValue(event.tags, "d"),
        roles |-> TagsFrom(SelectSeq(TagsNamed(event.tags, "role"), LAMBDA tag : Len(tag) > 1), LAMBDA tag :
                    <<[name |-> tag[2], description |-> IF Len(tag) > 2 THEN tag[3] ELSE Unset]>>)]

-----------------------------------------------------------------------------
\* Scope

\* Mutant: the h tag always comes first.
getScopedGroupIdByH(event) ==
  LET h == FirstTagValue(event.tags, "h")
      scoped == IF h = Unset THEN FirstTagValue(event.tags, "d") ELSE h
  IN  IF scoped \in GroupIds THEN scoped ELSE Unset

getScopedGroupId(event) ==
  LET order == IF event.kind \in SnapshotKinds THEN <<"d", "h">> ELSE <<"h", "d">>
      first == FirstTagValue(event.tags, order[1])
      scoped == IF first = Unset THEN FirstTagValue(event.tags, order[2]) ELSE first
  IN  IF scoped \in GroupIds THEN scoped ELSE Unset

\* Without an id, all of the events must be of one group.
filterEventsByGroupId(events, groupId) ==
  CASE groupId = Unset ->
         IF Cardinality({getScopedGroupId(e) : e \in Range(events)} \ {Unset}) > 1 THEN Refused ELSE events
    [] groupId # Unset /\ groupId \notin GroupIds -> Refused
    [] OTHER -> SelectSeq(events, LAMBDA e : getScopedGroupId(e) = groupId)

-----------------------------------------------------------------------------
\* Filters

buildGroupMetadataFilters(groupId) ==
  <<[EmptyFilter EXCEPT !.kinds = <<39000, 39001, 39002, 39003>>, !.tags = [d |-> <<groupId>>]]>>

buildGroupMembershipFilters(groupId, member) ==
  LET named == [h |-> <<groupId>>]
  IN  <<[EmptyFilter EXCEPT !.kinds = <<GroupKind.members>>, !.tags = [d |-> <<groupId>>]],
        [EmptyFilter EXCEPT !.kinds = <<GroupKind.putUser, GroupKind.removeUser>>,
                            !.tags = IF member = Unset THEN named ELSE [h |-> <<groupId>>, p |-> <<member>>]],
        [EmptyFilter EXCEPT !.kinds = <<GroupKind.joinRequest, GroupKind.leaveRequest>>, !.tags = named,
                            !.authors = IF member = Unset THEN Unset ELSE <<member>>]>>

buildGroupContentFilters(groupId, kinds) ==
  <<[EmptyFilter EXCEPT !.kinds = kinds, !.tags = [h |-> <<groupId>>]]>>

Asked(event, filters) == \E i \in DOMAIN filters : match_filter(event, filters[i])

-----------------------------------------------------------------------------
\* A sample: what is built, for which group, and the options.
Built(s) ==
  CASE s.make = "join" -> createGroupJoinRequest(s.group, s.secret, s.options)
    [] s.make = "leave" -> createGroupLeaveRequest(s.group, s.secret, s.options)
    [] s.make = "put" -> createPutUserEvent(s.group, s.target, s.secret, s.options)
    [] s.make = "remove" -> createRemoveUserEvent(s.group, s.target, s.secret, s.options)
    [] s.make = "edit" -> createEditGroupMetadataEvent(s.group, s.secret, s.options)
    [] s.make = "metadata" -> createGroupMetadataEvent(s.group, s.secret, s.options)
    [] s.make = "admins" -> createGroupAdminsEvent(s.group, s.secret, s.list, s.content)
    [] s.make = "members" -> createGroupMembersEvent(s.group, s.secret, s.list, s.content)
    [] s.make = "roles" -> createGroupRolesEvent(s.group, s.secret, s.list, s.content)

Emptied(text) == IF text = "" THEN Unset ELSE text

\* What the snapshots say is read back: texts and descriptions that are empty as
\* missing ones, and roles that are empty not at all.
SnapshotReadsBack(s, event) ==
  CASE s.make = "metadata" ->
         parseGroupMetadataEvent(event) =
           [id |-> s.group, texts |-> [i \in DOMAIN Texts |-> Emptied(s.options[Texts[i]])],
            flags |-> [i \in DOMAIN Flags |-> s.options[Flags[i]] = TRUE]]
    [] s.make = "admins" ->
         parseGroupAdminsEvent(event) =
           [id |-> s.group, admins |-> [i \in DOMAIN s.list |-> [s.list[i] EXCEPT !.roles = NonEmpty(@)]]]
    [] s.make = "members" -> parseGroupMembersEvent(event) = [id |-> s.group, members |-> s.list]
    [] s.make = "roles" ->
         parseGroupRolesEvent(event) =
           [id |-> s.group, roles |-> [i \in DOMAIN s.list |-> [s.list[i] EXCEPT !.description = Emptied(@)]]]
    [] OTHER -> TRUE

\* The filters by which members of the group ask for the event.
FiltersFor(s) ==
  CASE s.make \in {"metadata", "admins", "members", "roles"} -> buildGroupMetadataFilters(s.group)
    [] s.make \in {"put", "remove"} -> buildGroupMembershipFilters(s.group, s.target)
    [] s.make \in {"join", "leave"} -> buildGroupMembershipFilters(s.group, PublicKeyOf[s.secret])
    [] s.make = "edit" -> buildGroupContentFilters(s.group, <<GroupKind.editMetadata>>)

\* An event of a group is accepted, is asked for by the filters of its group and
\* kept by its reducers.  No other group's reducers keep it, even if tags that
\* were added to it name the other group and so the other group's filters let it
\* through; together with an event of the other group it is refused.
GroupEventReadsBack(s) ==
  LET event == createSignedEvent(Built(s), s.secret)
      other == createSignedEvent(createGroupLeaveRequest(s.other, s.secret, s.otherOptions), s.secret)
  IN  /\ Accepted(event)
      /\ SnapshotReadsBack(s, event)
      /\ Asked(event, FiltersFor(s))
      /\ filterEventsByGroupId(<<event, other>>, s.group) = <<event>>
      /\ filterEventsByGroupId(<<other, event>>, s.other) = <<other>>
      /\ filterEventsByGroupId(<<other, event>>, Unset) = Refused
=============================================================================
