----------------------------- MODULE GroupState -----------------------------
(***************************************************************************)
(* The state of a relay-based group as a client reconstructs it from the   *)
(* events it got (src/src/nip29/index.ts): reduceGroupMembers,             *)
(* reduceGroupAdmins and reduceGroupMembershipStatus, over snapshots and   *)
(* moderation events that arrive in any order or not at all.  The relay    *)
(* that applies and publishes them is not part of the repository; it does  *)
(* here what the reducers take its events to mean.                         *)
(*                                                                         *)
(* Events of other groups and malformed ones are filtered out first and    *)
(* left out.  Time stamps are in seconds, so several events may share one; *)
(* ids break the tie.                                                      *)
(***************************************************************************)
EXTENDS Clock, Sequences

CONSTANTS
  Pubkeys,
  Roles,
  Ids,             \* event ids, in the order localeCompare gives them
  MaxGroupEvents   \* bound: events the relay publishes

ASSUME GroupAssumption == Ids \subseteq Nat /\ MaxGroupEvents \in Nat

VARIABLES
  groupMembers,  \* the relay's members
  groupAdmins,   \* the relay's roles of each pubkey, {} if it has none
  published      \* the events of the group, in the order the relay made them

groupVars == <<groupMembers, groupAdmins, published>>

NoRoles == [p \in Pubkeys |-> {}]

GroupInit ==
  /\ groupMembers = {}
  /\ groupAdmins = NoRoles
  /\ published = <<>>

-----------------------------------------------------------------------------
\* The relay.

PublishGroupEvent(event) ==
  /\ Len(published) < MaxGroupEvents
  /\ \A i \in DOMAIN published : ~(published[i].at = event.at /\ published[i].id = event.id)
  /\ published' = Append(published, event)

PutUser(p, roles) ==
  /\ groupMembers' = groupMembers \cup {p}
  /\ groupAdmins' = [groupAdmins EXCEPT ![p] = roles]
  /\ \E id \in Ids :
       PublishGroupEvent([kind |-> "PUT_USER", target |-> p, roles |-> roles, at |-> now, id |-> id])

RemoveUser(p) ==
  /\ groupMembers' = groupMembers \ {p}
  /\ groupAdmins' = [groupAdmins EXCEPT ![p] = {}]
  /\ \E id \in Ids :
       PublishGroupEvent([kind |-> "REMOVE_USER", target |-> p, at |-> now, id |-> id])

MembersSnapshot ==
  /\ \E id \in Ids :
       PublishGroupEvent([kind |-> "GROUP_MEMBERS", members |-> groupMembers, at |-> now, id |-> id])
  /\ UNCHANGED <<groupMembers, groupAdmins>>

AdminsSnapshot ==
  /\ \E id \in Ids :
       PublishGroupEvent([kind |-> "GROUP_ADMINS", admins |-> groupAdmins, at |-> now, id |-> id])
  /\ UNCHANGED <<groupMembers, groupAdmins>>

\* A user asks to join, or says that it leaves.
Request(kind, p) ==
  /\ \E id \in Ids : PublishGroupEvent([kind |-> kind, target |-> p, at |-> now, id |-> id])
  /\ UNCHANGED <<groupMembers, groupAdmins>>

GroupNext ==
  \/ /\ \E i \in DOMAIN published : published[i].at = now
     /\ Len(published) < MaxGroupEvents
     /\ Tick(MaxGroupEvents)
     /\ UNCHANGED groupVars
  \/ /\ UNCHANGED now
     /\ \/ \E p \in Pubkeys :
             \/ \E roles \in SUBSET Roles : PutUser(p, roles)
             \/ RemoveUser(p)
             \/ \E kind \in {"JOIN_REQUEST", "LEAVE_REQUEST"} : Request(kind, p)
        \/ MembersSnapshot
        \/ AdminsSnapshot

-----------------------------------------------------------------------------
\* The client's reducers.  compareEventsAsc is a total order, so what they
\* compute from an array depends on the set of its events only.

compareEventsAsc(a, b) == a.at < b.at \/ (a.at = b.at /\ a.id < b.id)

Latest(events) == CHOOSE e \in events : \A f \in events \ {e} : compareEventsAsc(f, e)

Snapshots(events, kind) == {e \in events : e.kind = kind}

\* Mutant: moderation events are applied even if the snapshot is newer.
moderationEventsAll(events, kind) == {e \in events : e.kind \in {"PUT_USER", "REMOVE_USER"}}

\* The moderation events that a snapshot of the given kind does not cover.
moderationEvents(events, kind) ==
  {e \in events :
    /\ e.kind \in {"PUT_USER", "REMOVE_USER"}
    /\ Snapshots(events, kind) # {} => compareEventsAsc(Latest(Snapshots(events, kind)), e)}

Concerning(events, p) == {e \in events : e.target = p}

\* Applying them in order leaves each pubkey as the last one about it says.
reduceGroupMembers(events) ==
  LET snapshots == Snapshots(events, "GROUP_MEMBERS")
      moderation(p) == Concerning(moderationEvents(events, "GROUP_MEMBERS"), p)
  IN {p \in Pubkeys :
        IF moderation(p) = {} THEN snapshots # {} /\ p \in Latest(snapshots).members
        ELSE Latest(moderation(p)).kind = "PUT_USER"}

reduceGroupAdmins(events) ==
  LET snapshots == Snapshots(events, "GROUP_ADMINS")
      listed == IF snapshots = {} THEN NoRoles ELSE Latest(snapshots).admins
      moderation(p) == Concerning(moderationEvents(events, "GROUP_ADMINS"), p)
  IN [p \in Pubkeys |->
        CASE moderation(p) = {} -> listed[p]
          [] moderation(p) # {} /\ Latest(moderation(p)).kind = "REMOVE_USER" -> {}
          [] OTHER -> Latest(moderation(p)).roles]

reduceGroupMembershipStatus(events, p) ==
  LET isMember == p \in reduceGroupMembers(events)
      relevant == Concerning({e \in events : e.kind \in
                   {"JOIN_REQUEST", "LEAVE_REQUEST", "PUT_USER", "REMOVE_USER"}}, p)
      last == IF relevant = {} THEN "none" ELSE Latest(relevant).kind
  IN CASE isMember \/ last = "PUT_USER" -> "granted"
       [] ~isMember /\ last = "JOIN_REQUEST" -> "pending"
       [] OTHER -> "initial"

-----------------------------------------------------------------------------
\* Properties.

EventsAt(indices) == {published[i] : i \in indices}

\* Ids broke the ties among these events the way the relay made them.
InOrder(indices) ==
  \A i, j \in indices : i < j => compareEventsAsc(published[i], published[j])

\* These events include the newest snapshot of the kind, if there is one, and
\* every moderation event after it; older ones may be there or not.
Covers(indices, kind) ==
  \A i \in DOMAIN published \ indices :
    /\ published[i].kind = kind => \E j \in indices : j > i /\ published[j].kind = kind
    /\ published[i].kind \in {"PUT_USER", "REMOVE_USER"} =>
         \E j \in indices : j > i /\ published[j].kind = kind

\* "Membership can be reconstructed from kind:39002 snapshots plus newer
\* kind:9000/9001 moderation events" (src/src/nip29/README.md:17): whichever
\* older events a client also has or lacks, it finds the relay's own members
\* and admins; and if it lacks none, a pubkey is pending exactly when it is no
\* member and asked to join after it last left or was moderated.
GroupIsReconstructed ==
  /\ \A indices \in SUBSET DOMAIN published : InOrder(indices) =>
       /\ Covers(indices, "GROUP_MEMBERS") => reduceGroupMembers(EventsAt(indices)) = groupMembers
       /\ Covers(indices, "GROUP_ADMINS") => reduceGroupAdmins(EventsAt(indices)) = groupAdmins
  /\ InOrder(DOMAIN published) =>
       \A p \in Pubkeys :
         LET status == reduceGroupMembershipStatus(EventsAt(DOMAIN published), p)
         IN /\ (status = "granted") <=> (p \in groupMembers)
            /\ (status = "pending") <=>
                 /\ p \notin groupMembers
                 /\ \E i \in DOMAIN published :
                      /\ published[i].kind = "JOIN_REQUEST" /\ published[i].target = p
                      /\ \A j \in i + 1 .. Len(published) :
                           ~(/\ published[j].kind \in {"LEAVE_REQUEST", "REMOVE_USER"}
                             /\ published[j].target = p)
=============================================================================
