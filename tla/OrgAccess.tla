----------------------------- MODULE OrgAccess -----------------------------
(***************************************************************************)
(* One organisation: its members and their roles (features/members),       *)
(* the invitations that make members (features/invitations) and the API    *)
(* keys members own (features/tokens), under requests that overlap.        *)
(*                                                                         *)
(* Every request has a session of its own on Postgres, read committed.     *)
(* A request reads rows, decides, and writes by primary key in the         *)
(* statements of one commit; nothing locks what it read.  So each read is  *)
(* a step, and the commit is one more.                                     *)
(*                                                                         *)
(* A link that is used, revoked or replaced and a revoked key are read by   *)
(* no later request: their ids (uuids, never given twice) are free again   *)
(* here once no request in progress holds them, so that the few ids of an  *)
(* instance serve runs of any length.  A user has one membership row at    *)
(* most; a request that holds the row of one who left, and joined again    *)
(* meanwhile, holds one that is gone.                                      *)
(***************************************************************************)
EXTENDS Naturals, FiniteSets

CONSTANTS
  Users,         \* people with an account, and the addresses of invitations
  Founder,       \* the user the organisation was created for
  Roles,         \* bound: the roles asked for
  Invites,       \* ids of invitation rows, numbers
  Keys,          \* ids of API keys, numbers
  Requests,      \* requests in progress at once
  None

\* Of the constants; assumed by the modules that give them values.
OrgAssumption ==
  /\ Founder \in Users
  /\ Roles \subseteq 0..2
  /\ IsFiniteSet(Users) /\ IsFiniteSet(Invites) /\ IsFiniteSet(Keys)
  /\ Invites \subseteq Nat /\ Keys \subseteq Nat
  /\ None \notin Users \cup Nat

\* _ROLE_RANK
Member == 0
Admin  == 1
Owner  == 2
Ranks  == 0..2

VARIABLES
  member,        \* organization_member rows: the role of each user, or None
  invite,        \* invitation rows
  key,           \* devtoken rows
  req            \* the requests

vars == <<member, invite, key, req>>

\* A pending invitation; email is None of one that is over.  One may expire
\* at any time: it is still found and cancelled, but no longer accepted.
InviteRow == [email : Users \cup {None}, role : Ranks]

\* late (for the properties): inserted when its owner's keys had been swept,
\* or its owner was no member.
KeyRow == [owner : Users \cup {None}, late : BOOLEAN]

\* A request is named for what it does next.
PCs == {"idle", "change", "countForChange", "setRole",
        "remove", "countForRemove", "sweep", "delete",
        "delegate", "checkOwner", "insertKey", "revokeKey",
        "cancelPending", "insertInvite",
        "findInvitee", "accept", "authorizeRevoke", "revokeInvite"}

\* caller, rank: who asks, and its role as the dependency read it, where they
\* are used again; target: the user the request is about; role: the one it
\* grants; row, seen: the membership it found and its role then; owners: those
\* it counted; link: the invitation or key; found: invitations it cancels, or
\* keys it revokes.
Request == [pc : PCs, caller : Users \cup {None}, rank : Ranks \cup {None},
            target : Users \cup {None}, role : Ranks,
            row : {"none", "held", "gone"}, seen : Ranks, owners : 0..Cardinality(Users),
            link : Invites \cup Keys \cup {None}, found : SUBSET (Invites \cup Keys)]

Idle == [pc |-> "idle", caller |-> None, rank |-> None, target |-> None,
         role |-> Member, row |-> "none", seen |-> Member,
         owners |-> 0, link |-> None, found |-> {}]

NoInvite == [email |-> None, role |-> Member]
NoKey == [owner |-> None, late |-> FALSE]

Least(ids) == CHOOSE i \in ids : \A j \in ids : i <= j

\* create_org: the organisation and its owner in one commit.
Init ==
  /\ member = [u \in Users |-> IF u = Founder THEN Owner ELSE None]
  /\ invite = [i \in Invites |-> NoInvite]
  /\ key = [k \in Keys |-> NoKey]
  /\ req = [p \in Requests |-> Idle]

-----------------------------------------------------------------------------
IsMember(u) == member[u] # None

IsAdmin(u) == IsMember(u) /\ member[u] >= Admin

\* _count_owners
Owners == {u \in Users : member[u] = Owner}

Pending(i) == invite[i].email # None
PendingFor(u) == {i \in Invites : invite[i].email = u}

LiveKeysOf(u) == {k \in Keys : key[k].owner = u}

\* Ids for new rows.
UnusedInvites ==
  {i \in Invites : /\ ~Pending(i)
                   /\ \A p \in Requests : i # req[p].link /\ i \notin req[p].found}
UnusedKeys ==
  {k \in Keys : /\ key[k].owner = None
                /\ \A p \in Requests : k # req[p].link /\ k \notin req[p].found}

To(p, r) == req' = [req EXCEPT ![p] = r]
Done(p) == To(p, Idle)

\* require_org_membership and its stricter kinds: the caller's row is read.
MayAsk(p, c, least) == req[p].pc = "idle" /\ IsMember(c) /\ member[c] >= least

\* The session hands out the row object it already holds: when the caller is
\* the target, the handler sees the role the dependency read.
Asking(c, u, pc) ==
  [Idle EXCEPT !.pc = pc, !.target = u, !.rank = IF c = u THEN member[c] ELSE None]

SeenRole(p) == IF req[p].rank # None THEN req[p].rank ELSE member[req[p].target]

\* find_member in the session of a handler, which goes on with what it found.
Found(p, next) ==
  [req[p] EXCEPT !.row = "held", !.seen = SeenRole(p), !.rank = None, !.pc = next]

\* Those who hold or remember the row of a user who is removed.
RowGone(p, u) ==
  req' = [q \in Requests |->
    IF q = p THEN Idle
    ELSE IF req[q].target # u THEN req[q]
    ELSE [req[q] EXCEPT !.rank = None, !.row = IF @ = "held" THEN "gone" ELSE @]]

-----------------------------------------------------------------------------
(* Roles and removals.                                                     *)

\* change_member_role, behind require_org_admin; _can_invite_role.
AskChangeRole(p, c, u, new) ==
  /\ MayAsk(p, c, Admin)
  /\ member[c] >= new
  /\ To(p, [Asking(c, u, "change") EXCEPT !.role = new])
  /\ UNCHANGED <<member, invite, key>>

\* find_member: unknown is a 404, an owner who is demoted is counted first.
ReadForChange(p) ==
  /\ req[p].pc = "change"
  /\ IF ~IsMember(req[p].target) THEN Done(p)
     ELSE To(p, Found(p, IF SeenRole(p) = Owner /\ req[p].role # Owner
                         THEN "countForChange" ELSE "setRole"))
  /\ UNCHANGED <<member, invite, key>>

\* (Mutant) The count is made, and an organisation of one owner let through.
CountOwnersUnheeded(p, from, next) ==
  /\ req[p].pc = from
  /\ To(p, [req[p] EXCEPT !.owners = Cardinality(Owners), !.pc = next])
  /\ UNCHANGED <<member, invite, key>>

\* The last owner stays (LastOwnerError).
CountOwners(p, from, next) ==
  /\ req[p].pc = from
  /\ IF Cardinality(Owners) <= 1 THEN Done(p)
     ELSE To(p, [req[p] EXCEPT !.owners = Cardinality(Owners), !.pc = next])
  /\ UNCHANGED <<member, invite, key>>

\* The UPDATE is by primary key: it fails if the row is gone, and names the
\* role only if it differs from the one that was read.
SetRole(p) ==
  /\ req[p].pc = "setRole"
  /\ member' = IF req[p].row = "held" /\ req[p].role # req[p].seen
               THEN [member EXCEPT ![req[p].target] = req[p].role] ELSE member
  /\ Done(p)
  /\ UNCHANGED <<invite, key>>

\* remove_member, behind require_org_admin_or_self.
AskRemove(p, c, u) ==
  /\ MayAsk(p, c, IF c = u THEN Member ELSE Admin)
  /\ To(p, Asking(c, u, "remove"))
  /\ UNCHANGED <<member, invite, key>>

ReadForRemove(p) ==
  /\ req[p].pc = "remove"
  /\ IF ~IsMember(req[p].target) THEN Done(p)
     ELSE To(p, Found(p, IF SeenRole(p) = Owner THEN "countForRemove" ELSE "sweep"))
  /\ UNCHANGED <<member, invite, key>>

\* revoke_owned_keys looks for the live keys; its conditional UPDATEs commit
\* with the removal.
SweepKeys(p) ==
  /\ req[p].pc = "sweep"
  /\ To(p, [req[p] EXCEPT !.found = LiveKeysOf(req[p].target), !.pc = "delete"])
  /\ UNCHANGED <<member, invite, key>>

\* The row goes, unless another removal took it.
DeleteRow(p) ==
  IF req[p].row = "held"
  THEN /\ member' = [member EXCEPT ![req[p].target] = None]
       /\ RowGone(p, req[p].target)
  ELSE member' = member /\ Done(p)

\* (Mutant) Only the membership goes.
DeleteMemberOnly(p) ==
  /\ req[p].pc = "delete"
  /\ DeleteRow(p)
  /\ UNCHANGED <<invite, key>>

DeleteMember(p) ==
  /\ req[p].pc = "delete"
  /\ DeleteRow(p)
  /\ key' = [k \in Keys |-> IF k \in req[p].found THEN NoKey ELSE key[k]]
  /\ UNCHANGED invite

-----------------------------------------------------------------------------
(* API keys.                                                               *)

\* mint_token, behind require_org_member: for oneself, or for another.
AskMint(p, c, owner) ==
  /\ MayAsk(p, c, Member)
  /\ To(p, IF owner = c THEN [Idle EXCEPT !.pc = "insertKey", !.target = owner]
           ELSE [Idle EXCEPT !.pc = "delegate", !.caller = c, !.target = owner])
  /\ UNCHANGED <<member, invite, key>>

\* resolve_mint_owner: an admin may mint for another ...
Delegate(p) ==
  /\ req[p].pc = "delegate"
  /\ IF IsAdmin(req[p].caller)
     THEN To(p, [req[p] EXCEPT !.pc = "checkOwner", !.caller = None]) ELSE Done(p)
  /\ UNCHANGED <<member, invite, key>>

\* ... who is a member.
CheckOwner(p) ==
  /\ req[p].pc = "checkOwner"
  /\ IF IsMember(req[p].target)
     THEN To(p, [req[p] EXCEPT !.pc = "insertKey"]) ELSE Done(p)
  /\ UNCHANGED <<member, invite, key>>

Swept(u) == \/ ~IsMember(u)
            \/ \E q \in Requests : req[q].pc = "delete" /\ req[q].target = u

\* mint_api_key
InsertKey(p) ==
  /\ req[p].pc = "insertKey"
  /\ UnusedKeys # {}
  /\ key' = [key EXCEPT ![Least(UnusedKeys)] =
               [owner |-> req[p].target, late |-> Swept(req[p].target)]]
  /\ Done(p)
  /\ UNCHANGED <<member, invite>>

\* revoke_token, behind require_org_member; any member revokes any key.
AskRevokeKey(p, c, k) ==
  /\ MayAsk(p, c, Member)
  /\ To(p, [Idle EXCEPT !.pc = "revokeKey", !.link = k])
  /\ UNCHANGED <<member, invite, key>>

\* revoke_api_key: one conditional UPDATE.
RevokeKey(p) ==
  /\ req[p].pc = "revokeKey"
  /\ key' = [key EXCEPT ![req[p].link] = NoKey]
  /\ Done(p)
  /\ UNCHANGED <<member, invite>>

-----------------------------------------------------------------------------
(* Invitations.                                                            *)

\* create_invitation, behind require_org_admin; _can_invite_role.
AskInvite(p, c, u, role) ==
  /\ MayAsk(p, c, Admin)
  /\ member[c] >= role
  /\ To(p, [Idle EXCEPT !.pc = "cancelPending", !.target = u, !.role = role])
  /\ UNCHANGED <<member, invite, key>>

\* The pending links of the address are looked for ...
CancelPending(p) ==
  /\ req[p].pc = "cancelPending"
  /\ To(p, [req[p] EXCEPT !.found = PendingFor(req[p].target), !.pc = "insertInvite"])
  /\ UNCHANGED <<member, invite, key>>

NewInvite(p) == [email |-> req[p].target, role |-> req[p].role]

\* ... and stamped by primary key in the commit that inserts the new one.
InsertInvite(p) ==
  /\ req[p].pc = "insertInvite"
  /\ UnusedInvites # {}
  /\ invite' = [i \in Invites |->
       IF i \in req[p].found THEN NoInvite
       ELSE IF i = Least(UnusedInvites) THEN NewInvite(p) ELSE invite[i]]
  /\ Done(p)
  /\ UNCHANGED <<member, key>>

\* api_accept_invitation: the invitation is read and found open.
AskAccept(p, u, i) ==
  /\ req[p].pc = "idle"
  /\ invite[i].email = u
  /\ To(p, [Idle EXCEPT !.pc = "findInvitee", !.target = u, !.link = i,
                        !.role = invite[i].role])
  /\ UNCHANGED <<member, invite, key>>

FindInvitee(p) ==
  /\ req[p].pc = "findInvitee"
  /\ To(p, IF IsMember(req[p].target) THEN Found(p, "accept")
           ELSE [req[p] EXCEPT !.pc = "accept"])
  /\ UNCHANGED <<member, invite, key>>

\* A new member, unless the unique constraint knows the user; or a member who
\* is upgraded when the invitation outranks the role that was read.
Joins(p) == req[p].row = "none" /\ ~IsMember(req[p].target)
Upgraded(p) == req[p].row = "held" /\ req[p].role > req[p].seen
Stays(p) == req[p].row # "none" /\ req[p].role <= req[p].seen

\* accept_invitation: membership and stamp in one commit, or neither.
AcceptInvite(p) ==
  /\ req[p].pc = "accept"
  /\ member' = IF Joins(p) \/ Upgraded(p)
               THEN [member EXCEPT ![req[p].target] = req[p].role] ELSE member
  /\ invite' = IF Joins(p) \/ Upgraded(p) \/ Stays(p)
               THEN [invite EXCEPT ![req[p].link] = NoInvite] ELSE invite
  /\ Done(p)
  /\ UNCHANGED key

\* api_revoke_invitation: the invitation is read; its addressee may decline,
\* anyone else is looked up.
AskRevokeInvite(p, c, i) ==
  /\ req[p].pc = "idle"
  /\ Pending(i)
  /\ To(p, IF invite[i].email = c THEN [Idle EXCEPT !.pc = "revokeInvite", !.link = i]
           ELSE [Idle EXCEPT !.pc = "authorizeRevoke", !.caller = c, !.link = i])
  /\ UNCHANGED <<member, invite, key>>

AuthorizeRevoke(p) ==
  /\ req[p].pc = "authorizeRevoke"
  /\ IF IsAdmin(req[p].caller)
     THEN To(p, [req[p] EXCEPT !.pc = "revokeInvite", !.caller = None]) ELSE Done(p)
  /\ UNCHANGED <<member, invite, key>>

\* revoke_invitation, on the reading of AskRevokeInvite.
RevokeInvite(p) ==
  /\ req[p].pc = "revokeInvite"
  /\ invite' = [invite EXCEPT ![req[p].link] = NoInvite]
  /\ Done(p)
  /\ UNCHANGED <<member, key>>

\* A request is cancelled or its process dies before its commit.
Abandoned(p) ==
  /\ req[p].pc # "idle"
  /\ Done(p)
  /\ UNCHANGED <<member, invite, key>>

-----------------------------------------------------------------------------
Ask(p) ==
  \E c \in Users :
    \/ \E u \in Users, role \in Roles : AskChangeRole(p, c, u, role) \/ AskInvite(p, c, u, role)
    \/ \E u \in Users : AskRemove(p, c, u) \/ AskMint(p, c, u)
    \/ \E k \in Keys : AskRevokeKey(p, c, k)
    \/ \E i \in Invites : AskAccept(p, c, i) \/ AskRevokeInvite(p, c, i)

Proceed(p) ==
  \/ ReadForChange(p) \/ CountOwners(p, "countForChange", "setRole") \/ SetRole(p)
  \/ ReadForRemove(p) \/ CountOwners(p, "countForRemove", "sweep")
  \/ SweepKeys(p) \/ DeleteMember(p)
  \/ Delegate(p) \/ CheckOwner(p) \/ InsertKey(p) \/ RevokeKey(p)
  \/ CancelPending(p) \/ InsertInvite(p)
  \/ FindInvitee(p) \/ AcceptInvite(p)
  \/ AuthorizeRevoke(p) \/ RevokeInvite(p)

Next == \E p \in Requests : Ask(p) \/ Proceed(p) \/ Abandoned(p)

Spec == Init /\ [][Next]_vars

-----------------------------------------------------------------------------
(* Properties.                                                             *)

TypeOK ==
  /\ member \in [Users -> Ranks \cup {None}]
  /\ invite \in [Invites -> InviteRow]
  /\ key \in [Keys -> KeyRow]
  /\ req \in [Requests -> Request]

\* members/service.py: an organisation always has an owner.
AtLeastOneOwner == Owners # {}

\* What a request read is still so.
StillSo(p) == /\ req[p].row = "held" => member[req[p].target] = req[p].seen
              /\ req[p].owners \in {0, Cardinality(Owners)}

\* The last owner goes only by a request that decided on rows another had
\* changed since: by the guards of remove_member, change_member_role and
\* accept_invitation alone it never does.
LastOwnerLostToStaleRead ==
  [][Owners # {} /\ Owners' = {} =>
       \E p \in Requests : /\ req[p].pc \in {"setRole", "delete", "accept"}
                           /\ req'[p].pc = "idle" /\ ~StillSo(p)]_vars

\* A leaver keeps no key: a live key of someone who is no member was inserted
\* after the sweep of the removal it overlapped.
LeaversKeysSwept ==
  \A k \in Keys : key[k].owner # None /\ ~IsMember(key[k].owner) => key[k].late

=============================================================================
