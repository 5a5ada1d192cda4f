----------------------------- MODULE Membership -----------------------------
(***************************************************************************)
(* Members and invitations of one workspace                                *)
(* (server/services/organization-service.ts): requests that were           *)
(* authorised with the role their user had then, and that are carried out  *)
(* later.  Role changes and removals hold the workspace's row lock from    *)
(* before they read the actor again until they commit, so each of them is  *)
(* one step; an acceptance takes no such lock.                             *)
(***************************************************************************)
EXTENDS Rbac, FiniteSets

CONSTANTS Users, Founder,
          Invites,       \* bound: invitations ever created
          MemberRequests, \* bound: requests in flight at once
          Assignable,    \* bound: the roles that are asked for
          NoUser, NoInvite

ASSUME MembershipAssumption ==
  /\ Founder \in Users
  /\ NoUser \notin Users
  /\ NoInvite \notin Invites
  /\ Assignable \subseteq Roles

VARIABLES
  member,   \* each user's role in the workspace, "none" without a membership
  invite,   \* rows of invitations; "late" is open and past expiresAt
  req       \* requests in flight

membershipVars == <<member, invite, req>>

NoRole == "none"
Open == {"open", "late"}                \* acceptedAt and revokedAt are null
Ops == {"invite", "create", "revoke", "change", "remove", "accept"}
Managing == {"change", "remove"}

Blank == [email |-> NoUser, role |-> NoRole, state |-> "none"]
Idle  == [pc |-> "idle", actor |-> NoUser, access |-> NoRole,
          target |-> NoUser, role |-> NoRole, inv |-> NoInvite]

MembershipTypes ==
  /\ member \in [Users -> Roles \cup {NoRole}]
  /\ invite \in [Invites -> {Blank} \cup
       [email : Users, role : Roles, state : Open \cup {"accepted", "revoked"}]]
  /\ req \in [MemberRequests -> {Idle} \cup
       [pc : Ops, actor : Users, access : Roles \cup {NoRole},
        target : Users \cup {NoUser}, role : Roles \cup {NoRole}, inv : Invites \cup {NoInvite}]]

\* createOrganization()
MembershipInit ==
  /\ member = [u \in Users |-> IF u = Founder THEN "OWNER" ELSE NoRole]
  /\ invite = [i \in Invites |-> Blank]
  /\ req = [q \in MemberRequests |-> Idle]

-----------------------------------------------------------------------------
(* Authorisation: the access object keeps the role of this moment.         *)

PermissionFor(op) == IF op \in Managing THEN "members:manage" ELSE "members:invite"

AuthorizeRequest(q, u, op, t, r, i) ==
  /\ req[q] = Idle
  /\ HasPermission(member[u], PermissionFor(op))
  /\ req' = [req EXCEPT ![q] = [pc |-> op, actor |-> u, access |-> member[u],
                                target |-> t, role |-> r, inv |-> i]]
  /\ UNCHANGED <<member, invite>>

FinishRequest(q) == req' = [req EXCEPT ![q] = Idle]

-----------------------------------------------------------------------------
(* Invitations                                                             *)

\* inviteMember(): the checks, then the insert.
CheckInvite(q) ==
  /\ req[q].pc = "invite"
  /\ IF /\ CanAssignRole(req[q].access, req[q].role, req[q].role)
        /\ member[req[q].target] = NoRole
     THEN req' = [req EXCEPT ![q].pc = "create"]
     ELSE FinishRequest(q)
  /\ UNCHANGED <<member, invite>>

CreateInvite(q, i) ==
  /\ req[q].pc = "create"
  /\ invite[i] = Blank
  /\ invite' = [invite EXCEPT ![i] =
                  [email |-> req[q].target, role |-> req[q].role, state |-> "open"]]
  /\ FinishRequest(q)
  /\ UNCHANGED member

\* revokeInvitation() does not ask whether the invitation has expired.
Revoke(q) ==
  /\ req[q].pc = "revoke"
  /\ invite' = IF invite[req[q].inv].state \in Open
               THEN [invite EXCEPT ![req[q].inv].state = "revoked"] ELSE invite
  /\ FinishRequest(q)
  /\ UNCHANGED member

Expire(i) ==
  /\ invite[i].state = "open"
  /\ invite' = [invite EXCEPT ![i].state = "late"]
  /\ UNCHANGED <<member, req>>

\* acceptInvitation() finds a valid invitation of the user's own address ...
FindInvite(q, u, i) ==
  /\ req[q] = Idle
  /\ invite[i].state = "open"
  /\ invite[i].email = u
  /\ req' = [req EXCEPT ![q] = [pc |-> "accept", actor |-> u, access |-> NoRole,
                                target |-> NoUser, role |-> NoRole, inv |-> i]]
  /\ UNCHANGED <<member, invite>>

\* ... and takes it if nobody accepted or revoked it since.
Unclaimed(i) == invite[i].state \in Open

AcceptInvite(q) ==
  LET u == req[q].actor
      i == req[q].inv IN
  /\ req[q].pc = "accept"
  /\ IF Unclaimed(i)
     THEN /\ invite' = [invite EXCEPT ![i].state = "accepted"]
          /\ member' = [member EXCEPT ![u] = IF @ = NoRole THEN invite[i].role ELSE @]
     ELSE UNCHANGED <<member, invite>>
  /\ FinishRequest(q)

-----------------------------------------------------------------------------
(* changeMemberRole() and removeMember(): lock, read again, check, write,  *)
(* count the owners, commit or roll back.                                  *)

\* The role the target is to have, and the one canAssignRole() is asked about.
NewRole(q)   == IF req[q].pc = "change" THEN req[q].role ELSE NoRole
AskedRole(q) == IF req[q].pc = "change" THEN req[q].role ELSE member[req[q].target]

Outcome(q) == [member EXCEPT ![req[q].target] = NewRole(q)]

\* The checks of the transaction, and the same checks made before the lock was taken.
AllowedWith(q, actorRole, after) ==
  /\ HasPermission(actorRole, "members:manage")
  /\ member[req[q].target] # NoRole
  /\ req[q].target # req[q].actor
  /\ CanAssignRole(actorRole, AskedRole(q), member[req[q].target])
  /\ \E u \in Users : after[u] = "OWNER"

AllowedBefore(q) == AllowedWith(q, req[q].access, member)

Allowed(q) == AllowedWith(q, member[req[q].actor], Outcome(q))

Manage(q) ==
  /\ req[q].pc \in Managing
  /\ member' = IF Allowed(q) THEN Outcome(q) ELSE member
  /\ FinishRequest(q)
  /\ UNCHANGED invite

\* The client goes away or the server dies; an open transaction is rolled back.
Drop(q) ==
  /\ req[q] # Idle
  /\ FinishRequest(q)
  /\ UNCHANGED <<member, invite>>

-----------------------------------------------------------------------------

Ask(q) == \E u \in Users :
  \/ \E t \in Users, r \in Assignable :
       \/ AuthorizeRequest(q, u, "invite", t, r, NoInvite)
       \/ AuthorizeRequest(q, u, "change", t, r, NoInvite)
  \/ \E t \in Users : AuthorizeRequest(q, u, "remove", t, NoRole, NoInvite)
  \/ \E i \in Invites : AuthorizeRequest(q, u, "revoke", NoUser, NoRole, i) \/ FindInvite(q, u, i)

MembershipNext ==
  \/ \E q \in MemberRequests :
       \/ Ask(q)
       \/ CheckInvite(q) \/ (\E i \in Invites : CreateInvite(q, i))
       \/ Revoke(q) \/ AcceptInvite(q) \/ Manage(q) \/ Drop(q)
  \/ \E i \in Invites : Expire(i)

MembershipSpec == MembershipInit /\ [][MembershipNext]_membershipVars

-----------------------------------------------------------------------------
(* Properties                                                              *)

\* The workspace keeps an owner, whatever removals and role changes were authorised
\* before others of them were carried out.
AlwaysAnOwner == \E u \in Users : member[u] = "OWNER"

Privileged == {"OWNER", "ADMIN"}

\* A member's role changes to or from owner or administrator only by a request of somebody
\* else who is an owner when it is carried out, not only when it was authorised.
PrivilegedByOwner ==
  [][\A u \in Users :
       /\ member[u] # NoRole
       /\ member'[u] # member[u]
       /\ {member[u], member'[u]} \cap Privileged # {}
       => \E q \in MemberRequests :
            /\ req[q].pc \in Managing /\ req'[q] = Idle
            /\ req[q].actor # u /\ member[req[q].actor] = "OWNER"]_membershipVars

\* A user joins only by using up an invitation to that user, with its role; used and
\* revoked invitations stay so.  Nobody who was removed comes back by an old acceptance.
InvitationsAreSingleUse ==
  [][/\ \A u \in Users : member[u] = NoRole /\ member'[u] # NoRole =>
          \E i \in Invites :
            /\ invite[i].email = u /\ invite[i].role = member'[u]
            /\ invite[i].state \in Open /\ invite'[i].state = "accepted"
     /\ \A i \in Invites : invite[i].state \in {"accepted", "revoked"} => invite'[i] = invite[i]]_membershipVars
=============================================================================
