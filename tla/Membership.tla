----------------------------- MODULE Membership -----------------------------
(***************************************************************************)
(* workspace-svc: the rows of workspace_members, with the unique indexes   *)
(* of its migrations.  A person stands for the e-mail address and for the  *)
(* user id of one human; a row is found by its place in the table.         *)
(*                                                                         *)
(* The actions change members only.  Accounts composes them with auth-svc  *)
(* and says who may call them.                                             *)
(***************************************************************************)
EXTENDS Naturals, Sequences

CONSTANTS
  People,      \* everybody with an e-mail address
  Workspaces,  \* ids of workspaces
  NoUser,      \* user_id IS NULL
  MaxMembers   \* bound on the rows

ASSUME MembershipAssumption ==
  /\ NoUser \notin People
  /\ MaxMembers \in Nat

VARIABLE members

Roles == {"viewer", "operator", "admin"}

(* accepted_at and revoked_at make three states of a row.                  *)
RowStates == {"pending", "active", "revoked"}

Row == [workspace : Workspaces, email : People, user : People \cup {NoUser},
        role : Roles, state : RowStates]

Rows == DOMAIN members

Workspace(w) == {i \in Rows : members[i].workspace = w}

-----------------------------------------------------------------------------
(* Create: the workspace and its first admin in one transaction.           *)
CreateWorkspace(w, u) ==
  /\ Workspace(w) = {}
  /\ Len(members) < MaxMembers
  /\ members' = Append(members, [workspace |-> w, email |-> u, user |-> u,
                                 role |-> "admin", state |-> "active"])

(* idx_workspace_members_pending_email: one open invitation for an address *)
(* and a workspace.                                                        *)
HasPending(w, e) ==
  \E i \in Workspace(w) : members[i].email = e /\ members[i].state = "pending"

(* InviteMember: ON CONFLICT DO NOTHING, and the caller gets a token that  *)
(* no row has.                                                             *)
InviteMember(w, e, role) ==
  \/ HasPending(w, e) /\ UNCHANGED members
  \/ /\ ~HasPending(w, e)
     /\ Len(members) < MaxMembers
     /\ members' = Append(members, [workspace |-> w, email |-> e,
                                    user |-> NoUser, role |-> role,
                                    state |-> "pending"])

(* A mutant: the index covers active rows only.                            *)
UserNotActive(w, u) ==
  \A i \in Workspace(w) : members[i].state = "active" => members[i].user # u

(* idx_workspace_members_user: no two rows of a workspace have the same    *)
(* user_id, and a revoked row keeps its own.                               *)
UserIsFree(w, u) == \A i \in Workspace(w) : members[i].user # u

(* AcceptInvite: whoever has the token becomes the member; a conflict with *)
(* the index fails the call and leaves the invitation open.                *)
AcceptInvite(i, u) ==
  /\ members[i].state = "pending"
  /\ UserIsFree(members[i].workspace, u)
  /\ members' = [members EXCEPT ![i].user = u, ![i].state = "active"]

(* RevokeMember: any row but an admin's, open invitations included.        *)
RevokeMember(i) ==
  /\ members[i].role # "admin"
  /\ members' = [members EXCEPT ![i].state = "revoked"]

-----------------------------------------------------------------------------
(* A membership as GetMemberByEmail reports it and as a token claims it.   *)
Claim(i) == [workspace |-> members[i].workspace, role |-> members[i].role]

(* GetMemberByEmail: active rows with the address, one of them without any *)
(* order.  The address is the one that was invited, whoever accepted.      *)
GetMemberByEmail(e) ==
  {Claim(i) : i \in {j \in Rows : /\ members[j].email = e
                                  /\ members[j].state = "active"}}

(* What the rows that carry the user's id make them.                       *)
MembershipsOf(u) ==
  {Claim(i) : i \in {j \in Rows : /\ members[j].user = u
                                  /\ members[j].state = "active"}}

(* Invitations of the address that somebody else accepted: AcceptInvite    *)
(* looks at the token only, and the row keeps the invited address.         *)
Diverted(e) ==
  {Claim(i) : i \in {j \in Rows : /\ members[j].email = e
                                  /\ members[j].user \notin {e, NoUser}}}

(* The user was a member of the workspace and is no more.                  *)
WasRevoked(w, u) ==
  \E i \in Workspace(w) : members[i].user = u /\ members[i].state = "revoked"

IsMember(w, u) ==
  \E i \in Workspace(w) : members[i].user = u /\ members[i].state = "active"
=============================================================================
