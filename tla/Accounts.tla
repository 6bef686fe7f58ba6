------------------------------ MODULE Accounts ------------------------------
(***************************************************************************)
(* The gateway's handlers for registration, sessions and members, over     *)
(* auth-svc (AuthSession) and workspace-svc (Membership).                  *)
(*                                                                         *)
(* A handler makes several calls of two services that share no database;   *)
(* each statement of such a call is one step, so that memberships and      *)
(* refresh tokens may change between them.  A call that fails, times out   *)
(* or loses its answer ends the handler.                                   *)
(***************************************************************************)
EXTENDS AuthSession, Membership

CONSTANTS
  Existing,    \* workspaces whose admins are not modelled as users
  InviteRoles  \* roles that invitations give

ASSUME AccountsAssumption ==
  /\ Users \subseteq People
  /\ Existing \subseteq Workspaces
  /\ InviteRoles \subseteq Roles

VARIABLES
  registering, \* Register has created the user, the workspace comes next
  troubled,    \* history: a call for this registration failed or a token died
  holder,      \* whose session it is
  tokens,      \* what the unexpired access tokens of the session claim
  request,     \* the login or refresh that runs for the session
  held         \* history: what the holder's user id made them meanwhile

gateVars == <<registering, troubled>>
sessionVars == <<holder, tokens, request>>

vars == <<authVars, resendKey, members, gateVars, sessionVars, held>>

(* A token without a workspace has an empty wid and role.                  *)
NoClaim == [workspace |-> "", role |-> ""]
Claims == {NoClaim} \cup [workspace : Workspaces, role : Roles]

PCs == {"idle", "login", "validate", "issue", "lookup", "revalidate", "reissue"}

Idle == [pc |-> "idle", claim |-> NoClaim, late |-> FALSE]

TypeOK ==
  /\ AuthTypeOK
  /\ members \in Seq(Row) /\ Len(members) <= MaxMembers
  /\ registering \in [Users -> BOOLEAN]
  /\ troubled \in [Users -> BOOLEAN]
  /\ holder \in [Sessions -> Users \cup {NoUser}]
  /\ tokens \in [Sessions -> SUBSET Claims]
  /\ request \in [Sessions -> [pc : PCs, claim : Claims, late : BOOLEAN]]
  /\ held \in [Sessions -> SUBSET Claims]
  /\ \A s \in Sessions :
       /\ holder[s] = NoUser =>
            refresh[s] = "none" /\ tokens[s] = {} /\ request[s] = Idle
       /\ request[s].pc = "login" => refresh[s] = "none" /\ tokens[s] = {}

Init ==
  /\ AuthInit
  /\ members = <<>>
  /\ registering = [u \in Users |-> FALSE]
  /\ troubled = [u \in Users |-> FALSE]
  /\ holder = [s \in Sessions |-> NoUser]
  /\ tokens = [s \in Sessions |-> {}]
  /\ request = [s \in Sessions |-> Idle]
  /\ held = [s \in Sessions |-> {}]

-----------------------------------------------------------------------------
(* Registration *)

Trouble(u) == troubled' = [troubled EXCEPT ![u] = TRUE]

(* A mutant: the handler leaves the workspace to somebody else.            *)
RegisterUserOnly(u) ==
  /\ CreateUser(u)
  /\ UNCHANGED <<gateVars, members, sessionVars>>

(* Register, first call.  When its answer is lost the handler says 409 and *)
(* never makes the second.                                                 *)
RegisterUser(u) ==
  /\ CreateUser(u)
  /\ \/ registering' = [registering EXCEPT ![u] = TRUE] /\ UNCHANGED troubled
     \/ Trouble(u) /\ UNCHANGED registering
  /\ UNCHANGED <<members, sessionVars>>

(* Register, second call.  It answers 201 whether or not the workspace was *)
(* created.                                                                *)
RegisterWorkspace(u) ==
  /\ registering[u]
  /\ registering' = [registering EXCEPT ![u] = FALSE]
  /\ \/ /\ \E w \in Workspaces \ Existing : CreateWorkspace(w, u)
        /\ UNCHANGED troubled
     \/ UNCHANGED members /\ Trouble(u)
  /\ UNCHANGED <<authVars, sessionVars>>

SendVerification(u) ==
  /\ \/ SaveVerification(u, TRUE) /\ UNCHANGED troubled
     \/ SaveVerification(u, FALSE) /\ Trouble(u)
  /\ UNCHANGED <<members, registering, sessionVars>>

(* VerifyEmail: two statements of auth-svc.                                *)
VerifyEmailToken(u) ==
  ConsumeToken(u) /\ UNCHANGED <<members, gateVars, sessionVars>>

VerifyEmailUser(u) ==
  /\ \/ MarkVerified(u, TRUE) /\ UNCHANGED troubled
     \/ MarkVerified(u, FALSE) /\ Trouble(u)
  /\ UNCHANGED <<members, registering, sessionVars>>

VerificationExpires(u) ==
  /\ ExpireVerification(u)
  /\ Trouble(u)
  /\ UNCHANGED <<members, registering, sessionVars>>

-----------------------------------------------------------------------------
(* Login *)

(* GetUserWorkspace: a lookup that fails or finds nothing is answered with *)
(* an empty workspace.                                                     *)
GetUserWorkspace(u) == {NoClaim} \cup GetMemberByEmail(u)

GoTo(s, pc) == request' = [request EXCEPT ![s].pc = pc]
Finish(s) == request' = [request EXCEPT ![s] = Idle]
AddToken(s, c) == tokens' = [tokens EXCEPT ![s] = @ \cup {c}]

(* Login, first call.                                                      *)
LoginLookup(s, u) ==
  /\ holder[s] = NoUser
  /\ holder' = [holder EXCEPT ![s] = u]
  /\ \E c \in GetUserWorkspace(u) :
       request' = [request EXCEPT ![s] = [Idle EXCEPT !.pc = "login",
                                                      !.claim = c]]
  /\ UNCHANGED <<authVars, members, gateVars, tokens>>

(* Login, second call: the pair carries the membership read before.        *)
LoginIssue(s) ==
  /\ request[s].pc = "login"
  /\ CanLogin(holder[s])
  /\ IssueHeld(s)
  /\ AddToken(s, request[s].claim)
  /\ Finish(s)
  /\ UNCHANGED <<account, verification, members, gateVars, holder>>

(* A mutant: a lost answer leaves the pair to the slot.                    *)
LoginFailsHalf(s) ==
  /\ request[s].pc = "login"
  /\ \/ CanLogin(holder[s]) /\ IssueHeld(s)
     \/ UNCHANGED <<refresh, orphaned>>
  /\ holder' = [holder EXCEPT ![s] = NoUser]
  /\ Finish(s)
  /\ UNCHANGED <<account, verification, members, gateVars, tokens>>

(* 401: unverified, wrong password, too many attempts, or a call failed;   *)
(* the tokens may have been issued before the answer was lost.             *)
LoginFails(s) ==
  /\ request[s].pc = "login"
  /\ \/ CanLogin(holder[s]) /\ IssueOrphan(holder[s])
     \/ UNCHANGED <<refresh, orphaned>>
  /\ holder' = [holder EXCEPT ![s] = NoUser]
  /\ Finish(s)
  /\ UNCHANGED <<account, verification, members, gateVars, tokens>>

(* OAuthGoogle: one call.  The token never has a workspace: it is looked   *)
(* up after the token was signed, for the answer only.                     *)
GoogleLogin(s, u) ==
  /\ holder[s] = NoUser
  /\ GoogleUpsert(u)
  /\ \/ /\ IssueHeld(s)
        /\ holder' = [holder EXCEPT ![s] = u]
        /\ AddToken(s, NoClaim)
     \/ /\ IssueOrphan(u) \/ UNCHANGED <<refresh, orphaned>>
        /\ UNCHANGED <<holder, tokens>>
  /\ UNCHANGED <<verification, members, gateVars, request>>

-----------------------------------------------------------------------------
(* Refresh *)

(* A client presents its refresh token, after a logout perhaps.            *)
RefreshBegin(s) ==
  /\ holder[s] # NoUser
  /\ request[s].pc = "idle"
  /\ request' = [request EXCEPT ![s] = [Idle EXCEPT !.pc = "validate",
                                                    !.late = refresh[s] = "dead"]]
  /\ UNCHANGED <<authVars, members, gateVars, holder, tokens>>

(* RefreshToken: validate, and later issue.                                *)
Validate(s, from, to) ==
  /\ request[s].pc = from
  /\ IF IsValid(s) THEN GoTo(s, to) ELSE Finish(s)
  /\ UNCHANGED <<authVars, members, gateVars, holder, tokens>>

RefreshValidate(s) == Validate(s, "validate", "issue")

(* Step 1: a pair without a workspace, for the e-mail address in it.       *)
RefreshIssue(s) ==
  /\ request[s].pc = "issue"
  /\ IssueOrphan(holder[s])
  /\ GoTo(s, "lookup")
  /\ UNCHANGED <<account, verification, members, gateVars, holder, tokens>>

(* A mutant: the workspace of the token that expired is used again.        *)
RefreshRemembers(s) ==
  /\ request[s].pc = "lookup"
  /\ \E c \in GetUserWorkspace(holder[s]) \cup tokens[s] :
       IF c = NoClaim
       THEN AddToken(s, NoClaim) /\ Finish(s)
       ELSE /\ request' = [request EXCEPT ![s].pc = "revalidate",
                                          ![s].claim = c]
            /\ UNCHANGED tokens
  /\ UNCHANGED <<authVars, members, gateVars, holder>>

(* Step 2: without a workspace, or when workspace-svc fails, the pair of   *)
(* step 1 is the answer.                                                   *)
RefreshLookup(s) ==
  /\ request[s].pc = "lookup"
  /\ \E c \in GetUserWorkspace(holder[s]) :
       IF c = NoClaim
       THEN AddToken(s, NoClaim) /\ Finish(s)
       ELSE /\ request' = [request EXCEPT ![s].pc = "revalidate",
                                          ![s].claim = c]
            /\ UNCHANGED tokens
  /\ UNCHANGED <<authVars, members, gateVars, holder>>

(* Step 3: the same refresh token once more, now with the workspace.       *)
RefreshRevalidate(s) == Validate(s, "revalidate", "reissue")

RefreshReissue(s) ==
  /\ request[s].pc = "reissue"
  /\ IssueOrphan(holder[s])
  /\ AddToken(s, request[s].claim)
  /\ Finish(s)
  /\ UNCHANGED <<account, verification, members, gateVars, holder>>

(* 401: a call failed, or its answer was lost after the pair was issued.   *)
RefreshFails(s) ==
  /\ request[s].pc \notin {"idle", "login"}
  /\ \/ request[s].pc \in {"issue", "reissue"} /\ IssueOrphan(holder[s])
     \/ UNCHANGED <<refresh, orphaned>>
  /\ Finish(s)
  /\ UNCHANGED <<account, verification, members, gateVars, holder, tokens>>

-----------------------------------------------------------------------------
(* The end of a session *)

(* Logout answers success whether or not the row could be revoked; access  *)
(* tokens stay good until they expire.                                     *)
Logout(s) ==
  /\ refresh[s] = "live"
  /\ Revoke(s)
  /\ UNCHANGED <<account, verification, orphaned, members, gateVars,
                 sessionVars>>

RefreshTokenExpires(s) ==
  ExpireRefresh(s) /\ UNCHANGED <<members, gateVars, sessionVars>>

(* exp passes, which is all the gateway's Auth looks at.                   *)
AccessTokenExpires(s, c) ==
  /\ c \in tokens[s]
  /\ tokens' = [tokens EXCEPT ![s] = @ \ {c}]
  /\ UNCHANGED <<authVars, members, gateVars, holder, request>>

-----------------------------------------------------------------------------
(* Members *)

Level == [viewer |-> 1, operator |-> 2, admin |-> 3]

(* RequireRole: the role is the token's, not the table's.                  *)
HasRole(s, w, minRole) ==
  \E c \in tokens[s] \ {NoClaim} :
    c.workspace = w /\ Level[c.role] >= Level[minRole]

IsAdmin(w) == w \in Existing \/ \E s \in Sessions : HasRole(s, w, "admin")

Invite(w, e, role) ==
  /\ IsAdmin(w)
  /\ InviteMember(w, e, role)
  /\ UNCHANGED <<authVars, gateVars, sessionVars>>

(* Somebody who has the link of an invitation, and any access token.       *)
Accept(i, p) ==
  /\ p \in Users => \E s \in Sessions : holder[s] = p /\ tokens[s] # {}
  /\ AcceptInvite(i, p)
  /\ UNCHANGED <<authVars, gateVars, sessionVars>>

Remove(i) ==
  /\ IsAdmin(members[i].workspace)
  /\ RevokeMember(i)
  /\ UNCHANGED <<authVars, gateVars, sessionVars>>

-----------------------------------------------------------------------------
Registration(u) ==
  \/ RegisterUser(u) \/ RegisterWorkspace(u) \/ SendVerification(u)
  \/ VerifyEmailToken(u) \/ VerifyEmailUser(u) \/ VerificationExpires(u)

(* What a request does once it runs.                                       *)
Proceed(s) ==
  \/ LoginIssue(s) \/ LoginFails(s)
  \/ RefreshValidate(s) \/ RefreshIssue(s) \/ RefreshLookup(s)
  \/ RefreshRevalidate(s) \/ RefreshReissue(s) \/ RefreshFails(s)

Session(s) ==
  \/ \E u \in Users : LoginLookup(s, u) \/ GoogleLogin(s, u)
  \/ RefreshBegin(s) \/ Proceed(s)
  \/ Logout(s) \/ RefreshTokenExpires(s)
  \/ \E c \in Claims : AccessTokenExpires(s, c)

Administration ==
  \/ \E w \in Workspaces, e \in People, r \in InviteRoles : Invite(w, e, r)
  \/ \E i \in Rows : Remove(i) \/ \E p \in People : Accept(i, p)

(* During a request held collects what the holder is a member of by user   *)
(* id, which is not what the request looks at.                             *)
Memberships(s) == IF holder[s] = NoUser THEN {} ELSE MembershipsOf(holder[s])

RecordHeld ==
  held' = [s \in Sessions |->
             IF request'[s].pc = "idle" THEN Memberships(s)'
                                        ELSE held[s] \cup Memberships(s)']

(* What is beside every step.                                              *)
Beside == RecordHeld /\ UNCHANGED resendKey

Next ==
  /\ \/ \E u \in Users : Registration(u)
     \/ \E s \in Sessions : Session(s)
     \/ Administration
  /\ Beside

Spec == Init /\ [][Next]_vars

(* Requests end, by an answer or by a timeout, goroutines run, and time    *)
(* passes.  Nothing is assumed of clients and administrators.              *)
Fairness ==
  /\ \A u \in Users : /\ WF_vars(SendVerification(u) /\ Beside)
                      /\ WF_vars(RegisterWorkspace(u) /\ Beside)
                      /\ WF_vars(VerifyEmailUser(u) /\ Beside)
  /\ \A s \in Sessions :
       /\ WF_vars(Proceed(s) /\ Beside)
       /\ \A c \in Claims : WF_vars(AccessTokenExpires(s, c) /\ Beside)

FairSpec == Spec /\ Fairness

-----------------------------------------------------------------------------
(* Properties *)

(* A token that names a workspace and a role is issued only to a request   *)
(* during which a row of that workspace gave this role to its user by user *)
(* id, although the gateway looks for the address.  There is one exception *)
(* and the code makes it: an invitation of the user's address that         *)
(* somebody else accepted still counts for the address.                    *)
TokensAreEarned ==
  [][\A s \in Sessions :
       tokens'[s] \ tokens[s] \subseteq
         held[s] \cup {NoClaim} \cup Diverted(holder[s])]_vars

(* Once a refresh token is revoked or expired, a refresh that begins with  *)
(* it never yields an access token; one that was under way still may.      *)
NothingAfterLogout ==
  [][\A s \in Sessions : request[s].late => tokens'[s] \subseteq tokens[s]]_vars

(* After a logout that reached the table the session comes to its end,     *)
(* although access tokens cannot be revoked and a refresh may be under     *)
(* way.                                                                    *)
LogoutEndsSession ==
  \A s \in Sessions : (refresh[s] = "dead") ~> [](tokens[s] = {})

(* A member whose address has left a workspace for good has no token for   *)
(* it in the end, although nothing invalidates sessions on revocation.     *)
RevocationReachesTokens ==
  \A s \in Sessions, w \in Workspaces :
    <>[](\A c \in GetMemberByEmail(holder[s]) : c.workspace # w)
      => <>[](\A c \in tokens[s] : c.workspace # w)

(* A revoked member never comes back: the unique index keeps the revoked   *)
(* row's user_id, so that every later invitation fails for this user.      *)
RevocationIsForGood ==
  [][\A w \in Workspaces, u \in People :
       WasRevoked(w, u) /\ ~IsMember(w, u) => ~IsMember(w, u)']_vars

(* What strands an account.  Without RESEND_API_KEY a user who registered  *)
(* is verified, or the token that verifies them is on its way to the log,  *)
(* in it or being used, unless a call failed or the token ran out; with    *)
(* the key the token goes nowhere and nobody is ever verified.  Either way *)
(* only a failed call leaves a registration without its workspace.         *)
OnlyFaultsStrand ==
  \A u \in Users :
    /\ account[u] \in {"unverified", "verified"} /\ ~troubled[u] =>
         /\ ~resendKey => \/ account[u] = "verified"
                          \/ verification[u] \in {"saving", "logged", "consumed"}
         /\ \/ registering[u]
            \/ \E i \in Rows : members[i].user = u /\ members[i].role = "admin"
    /\ resendKey => account[u] # "verified"
=============================================================================
