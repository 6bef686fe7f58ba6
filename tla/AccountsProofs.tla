--------------------------- MODULE AccountsProofs ---------------------------
(***************************************************************************)
(* Proofs about Accounts, for any users, sessions, workspaces and people.  *)
(***************************************************************************)
EXTENDS Accounts, TLAPS

-----------------------------------------------------------------------------
(* The table of members.                                                   *)

MembersOK == members \in Seq(Row) /\ Len(members) <= MaxMembers

(* A step appends a row, gives an open one to somebody, revokes one, or    *)
(* leaves the table as it is.                                              *)
Appends(r) ==
  /\ r \in Row
  /\ Len(members) < MaxMembers
  /\ members' = Append(members, r)

Changes(i, u, state) ==
  /\ i \in Rows
  /\ members' = [members EXCEPT ![i].user = u, ![i].state = state]

MembersStep ==
  \/ UNCHANGED members
  \/ \E w \in Workspaces, u \in Users : CreateWorkspace(w, u)
  \/ \E w \in Workspaces, e \in People, r \in Roles : InviteMember(w, e, r)
  \/ \E i \in Rows, p \in People : AcceptInvite(i, p)
  \/ \E i \in Rows : RevokeMember(i)

LEMMA RowFacts ==
  ASSUME MembersOK
  PROVE  /\ Rows = 1..Len(members) /\ Len(members) \in Nat
         /\ \A i \in Rows : members[i] \in Row
  BY DEF MembersOK, Rows

LEMMA AppendFacts ==
  ASSUME MembersOK, NEW r, Appends(r)
  PROVE  /\ MembersOK'
         /\ Rows' = 1..(Len(members) + 1)
         /\ \A i \in Rows : i \in Rows' /\ members'[i] = members[i]
         /\ \A i \in Rows' \ Rows : members'[i] = r
<1>1. /\ members' = Append(members, r) /\ members \in Seq(Row) /\ r \in Row
      /\ Len(members) < MaxMembers /\ MaxMembers \in Nat
  BY MembershipAssumption DEF Appends, MembersOK
<1>2. /\ Append(members, r) \in Seq(Row)
      /\ Len(members) \in Nat /\ Len(Append(members, r)) = Len(members) + 1
      /\ DOMAIN Append(members, r) = 1..(Len(members) + 1)
      /\ DOMAIN members = 1..Len(members)
      /\ \A i \in 1..Len(members) : Append(members, r)[i] = members[i]
      /\ Append(members, r)[Len(members) + 1] = r
  BY <1>1
<1>3. \A i \in 1..(Len(members) + 1) : i \in 1..Len(members) \/ i = Len(members) + 1
  BY <1>2
<1>4. \A i \in 1..Len(members) : i \in 1..(Len(members) + 1)
  BY <1>2
<1> QED BY <1>1, <1>2, <1>3, <1>4 DEF MembersOK, Rows

LEMMA ChangeFacts ==
  ASSUME MembersOK, NEW i \in Rows, NEW r \in Row,
         members' = [members EXCEPT ![i] = r]
  PROVE  /\ MembersOK'
         /\ Rows' = Rows
         /\ members'[i] = r
         /\ \A j \in Rows \ {i} : members'[j] = members[j]
<1>1. members \in Seq(Row) /\ i \in DOMAIN members
  BY DEF MembersOK, Rows
<1>2. /\ members' \in Seq(Row) /\ Len(members') = Len(members)
      /\ DOMAIN members' = DOMAIN members
      /\ members'[i] = r
      /\ \A j \in DOMAIN members \ {i} : members'[j] = members[j]
  BY <1>1
<1> QED BY <1>2 DEF MembersOK, Rows

LEMMA AcceptFacts ==
  ASSUME MembersOK, NEW i \in Rows, NEW p \in People, AcceptInvite(i, p)
  PROVE  /\ MembersOK'
         /\ Rows' = Rows
         /\ members'[i] = [members[i] EXCEPT !.user = p, !.state = "active"]
         /\ \A j \in Rows \ {i} : members'[j] = members[j]
<1> DEFINE r == [members[i] EXCEPT !.user = p, !.state = "active"]
<1>1. r \in Row
  BY RowFacts DEF Row, RowStates
<1>2. members' = [members EXCEPT ![i] = r]
  BY RowFacts DEF AcceptInvite, Row, MembersOK, Rows
<1> HIDE DEF r
<1>3. /\ MembersOK' /\ Rows' = Rows /\ members'[i] = r
      /\ \A j \in Rows \ {i} : members'[j] = members[j]
  BY <1>1, <1>2, ChangeFacts
<1> QED BY <1>3 DEF r

LEMMA RevokeFacts ==
  ASSUME MembersOK, NEW i \in Rows, RevokeMember(i)
  PROVE  /\ MembersOK'
         /\ Rows' = Rows
         /\ members[i].role # "admin"
         /\ members'[i] = [members[i] EXCEPT !.state = "revoked"]
         /\ \A j \in Rows \ {i} : members'[j] = members[j]
<1> DEFINE r == [members[i] EXCEPT !.state = "revoked"]
<1>1. r \in Row
  BY RowFacts DEF Row, RowStates
<1>2. members' = [members EXCEPT ![i] = r] /\ members[i].role # "admin"
  BY RowFacts DEF RevokeMember, Row, MembersOK, Rows
<1> HIDE DEF r
<1>3. /\ MembersOK' /\ Rows' = Rows /\ members'[i] = r
      /\ \A j \in Rows \ {i} : members'[j] = members[j]
  BY <1>1, <1>2, ChangeFacts
<1> QED BY <1>2, <1>3 DEF r

(* The row of a registration and the row of an invitation.                 *)
AdminRow(w, u) == [workspace |-> w, email |-> u, user |-> u,
                   role |-> "admin", state |-> "active"]
OpenRow(w, e, r) == [workspace |-> w, email |-> e, user |-> NoUser,
                     role |-> r, state |-> "pending"]

LEMMA CreateFacts ==
  ASSUME NEW w \in Workspaces, NEW u \in Users, CreateWorkspace(w, u)
  PROVE  Appends(AdminRow(w, u)) /\ Workspace(w) = {}
  BY AccountsAssumption
  DEF CreateWorkspace, Appends, AdminRow, Row, Roles, RowStates

LEMMA InviteFacts ==
  ASSUME NEW w \in Workspaces, NEW e \in People, NEW r \in Roles,
         InviteMember(w, e, r)
  PROVE  UNCHANGED members \/ Appends(OpenRow(w, e, r))
  BY DEF InviteMember, Appends, OpenRow, Row, RowStates

(* Whatever a step does to the table is one of workspace-svc's statements. *)
LEMMA NextMembers == [Next]_vars => MembersStep
<1> USE DEF MembersStep
<1>1. CASE UNCHANGED vars
  BY <1>1 DEF vars
<1>2. ASSUME NEW u \in Users, Registration(u) PROVE MembersStep
  BY <1>2
  DEF Registration, RegisterUser, RegisterWorkspace, SendVerification,
      VerifyEmailToken, VerifyEmailUser, VerificationExpires
<1>3. ASSUME NEW s \in Sessions, Session(s) PROVE UNCHANGED members
  BY <1>3
  DEF Session, Proceed, LoginLookup, GoogleLogin, LoginIssue, LoginFails,
      RefreshBegin, RefreshValidate, Validate, RefreshIssue, RefreshLookup,
      RefreshRevalidate, RefreshReissue, RefreshFails, Logout,
      RefreshTokenExpires, AccessTokenExpires
<1>4. CASE Administration
  BY <1>4, AccountsAssumption DEF Administration, Invite, Accept, Remove
<1> QED BY <1>1, <1>2, <1>3, <1>4 DEF Next

LEMMA MembersType == MembersOK /\ [Next]_vars => MembersOK'
<1> SUFFICES ASSUME MembersOK, [Next]_vars PROVE MembersOK'
  OBVIOUS
<1>1. CASE UNCHANGED members
  BY <1>1 DEF MembersOK
<1>2. ASSUME NEW w \in Workspaces, NEW u \in Users, CreateWorkspace(w, u)
      PROVE  MembersOK'
  BY <1>2, CreateFacts, AppendFacts
<1>3. ASSUME NEW w \in Workspaces, NEW e \in People, NEW r \in Roles,
             InviteMember(w, e, r)
      PROVE  MembersOK'
  BY <1>1, <1>3, InviteFacts, AppendFacts
<1> QED
  BY <1>1, <1>2, <1>3, AcceptFacts, RevokeFacts, NextMembers DEF MembersStep

(* For as long as the system runs, a user who was revoked in a workspace   *)
(* and is no member is never a member of it again: the revoked row keeps   *)
(* their user id, and every way into the table looks for one.              *)
THEOREM RevocationIsForGoodHolds == Spec => RevocationIsForGood
<1> DEFINE Good ==
      \A w \in Workspaces, u \in People :
        WasRevoked(w, u) /\ ~ IsMember(w, u) => ~ IsMember(w, u)'
<1>1. Init => MembersOK
  <2> SUFFICES ASSUME Init PROVE MembersOK
    OBVIOUS
  <2>1. members = <<>> /\ Len(<<>>) = 0 /\ <<>> \in Seq(Row)
    BY DEF Init
  <2> QED BY <2>1, MembershipAssumption DEF MembersOK
<1>2. MembersOK /\ [Next]_vars => MembersOK'
  BY MembersType
<1>3. MembersOK /\ [Next]_vars => Good
  <2> SUFFICES ASSUME MembersOK, [Next]_vars, NEW w \in Workspaces,
                      NEW u \in People, WasRevoked(w, u), ~ IsMember(w, u)
               PROVE  ~ IsMember(w, u)'
    OBVIOUS
  <2> USE DEF IsMember, Workspace
  <2>0. PICK k \in Rows : /\ members[k].workspace = w /\ members[k].user = u
                          /\ members[k].state = "revoked"
    BY DEF WasRevoked
  <2>1. CASE UNCHANGED members
    BY <2>1 DEF Rows
  <2>2. ASSUME NEW v \in Workspaces, NEW x \in Users, CreateWorkspace(v, x)
        PROVE  ~ IsMember(w, u)'
    <3>1. Appends(AdminRow(v, x)) /\ v # w
      BY <2>0, <2>2, CreateFacts
    <3>2. AdminRow(v, x).workspace # w
      BY <3>1 DEF AdminRow
    <3> QED BY <3>1, <3>2, AppendFacts
  <2>3. ASSUME NEW v \in Workspaces, NEW e \in People, NEW r \in Roles,
               InviteMember(v, e, r)
        PROVE  ~ IsMember(w, u)'
    <3>1. CASE Appends(OpenRow(v, e, r))
      <4>1. OpenRow(v, e, r).state # "active"
        BY DEF OpenRow
      <4> QED BY <3>1, <4>1, AppendFacts
    <3> QED BY <2>1, <2>3, <3>1, InviteFacts
  <2>4. ASSUME NEW i \in Rows, NEW p \in People, AcceptInvite(i, p)
        PROVE  ~ IsMember(w, u)'
    <3>1. members[i].workspace = w => p # u
      BY <2>0, <2>4 DEF AcceptInvite, UserIsFree
    <3>2. /\ Rows' = Rows /\ members[i] \in Row
          /\ members'[i] = [members[i] EXCEPT !.user = p, !.state = "active"]
          /\ \A j \in Rows \ {i} : members'[j] = members[j]
      BY <2>4, AcceptFacts, RowFacts
    <3>3. members'[i].workspace = members[i].workspace /\ members'[i].user = p
      BY <3>2 DEF Row
    <3> QED BY <3>1, <3>2, <3>3
  <2>5. ASSUME NEW i \in Rows, RevokeMember(i) PROVE ~ IsMember(w, u)'
    <3>1. members'[i].state = "revoked"
      BY <2>5, RevokeFacts, RowFacts DEF Row
    <3> QED BY <2>5, <3>1, RevokeFacts
  <2> QED BY <2>1, <2>2, <2>3, <2>4, <2>5, NextMembers DEF MembersStep
<1> QED BY <1>1, <1>2, <1>3, PTL DEF Spec, RevocationIsForGood

-----------------------------------------------------------------------------
(* Type correctness.                                                       *)

AuthOK ==
  /\ AuthTypeOK
  /\ registering \in [Users -> BOOLEAN]
  /\ troubled \in [Users -> BOOLEAN]

SessionOK ==
  /\ holder \in [Sessions -> Users \cup {NoUser}]
  /\ tokens \in [Sessions -> SUBSET Claims]
  /\ request \in [Sessions -> [pc : PCs, claim : Claims, late : BOOLEAN]]
  /\ \A s \in Sessions :
       /\ holder[s] = NoUser =>
            refresh[s] = "none" /\ tokens[s] = {} /\ request[s] = Idle
       /\ request[s].pc = "login" => refresh[s] = "none" /\ tokens[s] = {}

HeldOK == held \in [Sessions -> SUBSET Claims]

LEMMA TypeParts == TypeOK <=> AuthOK /\ MembersOK /\ SessionOK /\ HeldOK
  BY DEF TypeOK, AuthOK, MembersOK, SessionOK, HeldOK

LEMMA NobodyIsNoUser == NoUser \notin Users
  BY AccountsAssumption, MembershipAssumption

LEMMA ClaimsType ==
  ASSUME MembersOK
  PROVE  \A e : GetMemberByEmail(e) \subseteq Claims
<1> SUFFICES ASSUME NEW e, NEW i \in Rows PROVE Claim(i) \in Claims
  BY DEF GetMemberByEmail
<1>1. members[i] \in Row
  BY RowFacts
<1> QED BY <1>1 DEF Claim, Claims, Row

LEMMA AuthType == AuthOK /\ [Next]_vars => AuthOK'
<1> SUFFICES ASSUME AuthOK, [Next]_vars PROVE AuthOK'
  OBVIOUS
<1>0. UNCHANGED resendKey
  BY DEF Next, Beside, vars
<1> USE <1>0 DEF AuthOK, AuthTypeOK, AccountStates, Verifications, RefreshStates
<1>1. CASE UNCHANGED <<authVars, gateVars>>
  BY <1>1 DEF authVars, gateVars
<1>2. ASSUME NEW u \in Users, Registration(u) PROVE AuthOK'
  <2>1. CASE RegisterUser(u)
    BY <2>1 DEF RegisterUser, CreateUser, Trouble
  <2>2. CASE RegisterWorkspace(u)
    BY <2>2 DEF RegisterWorkspace, Trouble, authVars
  <2>3. CASE SendVerification(u)
    BY <2>3 DEF SendVerification, SaveVerification, Trouble
  <2>4. CASE VerifyEmailToken(u)
    BY <2>4 DEF VerifyEmailToken, ConsumeToken, gateVars
  <2>5. CASE VerifyEmailUser(u)
    BY <2>5 DEF VerifyEmailUser, MarkVerified, Trouble
  <2>6. CASE VerificationExpires(u)
    BY <2>6 DEF VerificationExpires, ExpireVerification, Trouble
  <2> QED BY <1>2, <2>1, <2>2, <2>3, <2>4, <2>5, <2>6 DEF Registration
<1>3. ASSUME NEW s \in Sessions, Session(s) PROVE AuthOK'
  <2> USE DEF IssueHeld, IssueOrphan, Revoke, gateVars
  <2>1. ASSUME NEW u \in Users, GoogleLogin(s, u) PROVE AuthOK'
    BY <2>1 DEF GoogleLogin, GoogleUpsert
  <2>2. CASE LoginIssue(s)
    BY <2>2 DEF LoginIssue
  <2>3. CASE LoginFails(s)
    BY <2>3 DEF LoginFails
  <2>4. CASE RefreshIssue(s)
    BY <2>4 DEF RefreshIssue
  <2>5. CASE RefreshReissue(s)
    BY <2>5 DEF RefreshReissue
  <2>6. CASE RefreshFails(s)
    BY <2>6 DEF RefreshFails
  <2>7. CASE Logout(s)
    BY <2>7 DEF Logout
  <2>8. CASE RefreshTokenExpires(s)
    BY <2>8 DEF RefreshTokenExpires, ExpireRefresh
  <2>9. CASE \/ \E u \in Users : LoginLookup(s, u)
             \/ RefreshBegin(s) \/ RefreshValidate(s) \/ RefreshLookup(s)
             \/ RefreshRevalidate(s) \/ \E c \in Claims : AccessTokenExpires(s, c)
    BY <1>1, <2>9
    DEF LoginLookup, RefreshBegin, RefreshValidate, Validate, RefreshLookup,
        RefreshRevalidate, AccessTokenExpires
  <2> QED
    BY <1>3, <2>1, <2>2, <2>3, <2>4, <2>5, <2>6, <2>7, <2>8, <2>9
    DEF Session, Proceed
<1>4. CASE Administration
  BY <1>1, <1>4 DEF Administration, Invite, Accept, Remove
<1> QED BY <1>1, <1>2, <1>3, <1>4 DEF Next, vars

(* A request that runs belongs to somebody, and one of a login has no      *)
(* tokens yet.                                                             *)
LEMMA SessionType == AuthOK /\ MembersOK /\ SessionOK /\ [Next]_vars => SessionOK'
<1> SUFFICES ASSUME AuthOK, MembersOK, SessionOK, [Next]_vars PROVE SessionOK'
  OBVIOUS
<1>0. /\ NoClaim \in Claims /\ Idle.pc = "idle" /\ Idle.claim = NoClaim
      /\ Idle \in [pc : PCs, claim : Claims, late : BOOLEAN]
      /\ \A e : GetUserWorkspace(e) \subseteq Claims
  BY ClaimsType DEF GetUserWorkspace, Claims, Idle, PCs
<1>1. CASE UNCHANGED <<holder, tokens, request, refresh>>
  BY <1>1 DEF SessionOK
<1>2. ASSUME NEW u \in Users, Registration(u) PROVE SessionOK'
  BY <1>1, <1>2
  DEF Registration, RegisterUser, CreateUser, RegisterWorkspace, SendVerification,
      SaveVerification, VerifyEmailToken, ConsumeToken, VerifyEmailUser,
      MarkVerified, VerificationExpires, ExpireVerification, authVars, sessionVars
<1>3. ASSUME NEW s \in Sessions, Session(s) PROVE SessionOK'
  <2> USE DEF SessionOK, AuthOK, AuthTypeOK
  <2>1. ASSUME NEW u \in Users, LoginLookup(s, u) PROVE SessionOK'
    <3>1. PICK c \in Claims :
            request' = [request EXCEPT ![s] = [Idle EXCEPT !.pc = "login", !.claim = c]]
      BY <1>0, <2>1 DEF LoginLookup
    <3>2. [Idle EXCEPT !.pc = "login", !.claim = c]
            \in [pc : PCs, claim : Claims, late : BOOLEAN]
      BY <1>0 DEF PCs
    <3> HIDE DEF AuthOK, AuthTypeOK
    <3> QED
      BY <2>1, <3>1, <3>2, NobodyIsNoUser DEF LoginLookup, authVars
  <2>2. ASSUME NEW u \in Users, GoogleLogin(s, u) PROVE SessionOK'
    <3>1. /\ holder[s] = NoUser /\ u # NoUser /\ request' = request
          /\ \/ /\ holder' = [holder EXCEPT ![s] = u]
                /\ tokens' = [tokens EXCEPT ![s] = @ \cup {NoClaim}]
                /\ refresh' = [refresh EXCEPT ![s] = "live"]
             \/ UNCHANGED <<holder, tokens, refresh>>
      BY <2>2, NobodyIsNoUser DEF GoogleLogin, IssueHeld, IssueOrphan, AddToken
    <3>2. request[s].pc = "idle"
      BY <1>0, <3>1
    <3> HIDE DEF AuthOK, AuthTypeOK
    <3>3. CASE UNCHANGED <<holder, tokens, refresh>>
      BY <3>1, <3>3
    <3>4. CASE /\ holder' = [holder EXCEPT ![s] = u]
               /\ tokens' = [tokens EXCEPT ![s] = @ \cup {NoClaim}]
               /\ refresh' = [refresh EXCEPT ![s] = "live"]
      BY <1>0, <3>1, <3>2, <3>4
    <3> QED BY <3>1, <3>3, <3>4
  <2>3. CASE LoginIssue(s)
    <3>1. request[s].claim \in Claims /\ holder[s] # NoUser
      BY <1>0, <2>3 DEF LoginIssue
    <3>2. /\ tokens' = [tokens EXCEPT ![s] = @ \cup {request[s].claim}]
          /\ request' = [request EXCEPT ![s] = Idle]
          /\ refresh' = [refresh EXCEPT ![s] = "live"]
          /\ UNCHANGED holder
      BY <2>3 DEF LoginIssue, IssueHeld, AddToken, Finish
    <3> HIDE DEF AuthOK, AuthTypeOK
    <3>3. refresh'[s] = "live" /\ \A t \in Sessions \ {s} : refresh'[t] = refresh[t]
      BY <3>2 DEF AuthOK, AuthTypeOK
    <3> QED BY <1>0, <3>1, <3>2, <3>3
  <2>4. CASE LoginFails(s)
    BY <1>0, <2>4 DEF LoginFails, IssueOrphan, Finish, Idle
  <2>5. CASE RefreshBegin(s)
    <3>1. [Idle EXCEPT !.pc = "validate", !.late = refresh[s] = "dead"]
            \in [pc : PCs, claim : Claims, late : BOOLEAN]
      BY <1>0 DEF PCs
    <3> QED BY <2>5, <3>1 DEF RefreshBegin, authVars, Idle
  <2>6. ASSUME NEW from \in {"validate", "revalidate"}, NEW to \in {"issue", "reissue"},
               Validate(s, from, to)
        PROVE  SessionOK'
    <3>1. holder[s] # NoUser
      BY <1>0, <2>6 DEF Validate, Idle
    <3>2. /\ \/ request' = [request EXCEPT ![s].pc = to]
             \/ request' = [request EXCEPT ![s] = Idle]
          /\ UNCHANGED <<holder, tokens, refresh>>
      BY <2>6 DEF Validate, GoTo, Finish, authVars
    <3>3. to \in PCs /\ to # "login"
      BY DEF PCs
    <3> HIDE DEF AuthOK, AuthTypeOK
    <3>4. CASE request' = [request EXCEPT ![s].pc = to]
      BY <3>1, <3>2, <3>3, <3>4
    <3>5. CASE request' = [request EXCEPT ![s] = Idle]
      BY <1>0, <3>1, <3>2, <3>5
    <3> QED BY <3>2, <3>4, <3>5
  <2>7. CASE RefreshIssue(s)
    BY <1>0, <2>7 DEF RefreshIssue, IssueOrphan, GoTo, Idle, PCs
  <2>8. CASE RefreshLookup(s)
    <3>1. PICK c \in Claims :
            \/ AddToken(s, NoClaim) /\ Finish(s)
            \/ /\ request' = [request EXCEPT ![s].pc = "revalidate", ![s].claim = c]
               /\ UNCHANGED tokens
      BY <1>0, <2>8 DEF RefreshLookup
    <3>2. holder[s] # NoUser /\ UNCHANGED <<holder, refresh>>
      BY <1>0, <2>8 DEF RefreshLookup, authVars, Idle
    <3> HIDE DEF AuthOK, AuthTypeOK
    <3>3. CASE AddToken(s, NoClaim) /\ Finish(s)
      BY <1>0, <3>2, <3>3 DEF AddToken, Finish
    <3>4. CASE /\ request' = [request EXCEPT ![s].pc = "revalidate", ![s].claim = c]
               /\ UNCHANGED tokens
      BY <3>2, <3>4 DEF PCs
    <3> QED BY <3>1, <3>3, <3>4
  <2>9. CASE RefreshReissue(s)
    <3>1. request[s].claim \in Claims /\ holder[s] # NoUser
      BY <1>0, <2>9 DEF RefreshReissue
    <3>2. /\ tokens' = [tokens EXCEPT ![s] = @ \cup {request[s].claim}]
          /\ request' = [request EXCEPT ![s] = Idle]
          /\ UNCHANGED <<holder, refresh>>
      BY <2>9 DEF RefreshReissue, IssueOrphan, AddToken, Finish
    <3> HIDE DEF AuthOK, AuthTypeOK
    <3> QED BY <1>0, <3>1, <3>2
  <2>10. CASE RefreshFails(s)
    BY <1>0, <2>10 DEF RefreshFails, IssueOrphan, Finish, Idle
  <2>11. CASE Logout(s) \/ RefreshTokenExpires(s)
    BY <2>11 DEF Logout, RefreshTokenExpires, ExpireRefresh, Revoke, sessionVars, Idle
  <2>12. ASSUME NEW c \in Claims, AccessTokenExpires(s, c) PROVE SessionOK'
    BY <2>12 DEF AccessTokenExpires, authVars
  <2> QED
    BY <1>3, <2>1, <2>2, <2>3, <2>4, <2>5, <2>6, <2>7, <2>8, <2>9, <2>10, <2>11, <2>12
    DEF Session, Proceed, RefreshValidate, RefreshRevalidate
<1>4. CASE Administration
  BY <1>1, <1>4 DEF Administration, Invite, Accept, Remove, authVars, sessionVars
<1> QED BY <1>1, <1>2, <1>3, <1>4 DEF Next, vars, authVars, sessionVars

LEMMA HeldType ==
  AuthOK /\ MembersOK /\ SessionOK /\ HeldOK /\ [Next]_vars => HeldOK'
<1> SUFFICES ASSUME AuthOK, MembersOK, SessionOK, HeldOK, [Next]_vars PROVE HeldOK'
  OBVIOUS
<1>1. CASE UNCHANGED vars
  BY <1>1 DEF HeldOK, vars
<1>2. CASE RecordHeld
  <2>1. MembersOK'
    BY MembersType
  <2>2. ASSUME NEW s \in Sessions PROVE Memberships(s)' \subseteq Claims
    <3>1. ASSUME NEW i \in Rows' PROVE Claim(i)' \in Claims
      <4>1. members'[i] \in Row
        BY <2>1 DEF MembersOK, Rows
      <4> QED BY <4>1 DEF Claim, Claims, Row
    <3> QED BY <3>1 DEF Memberships, MembershipsOf
  <2>3. \A s \in Sessions : Memberships(s)' \subseteq Claims
    BY <2>2
  <2> QED BY <1>2, <2>3, Zenon DEF RecordHeld, HeldOK
<1> QED BY <1>1, <1>2 DEF Next, Beside

LEMMA InitType == Init => TypeOK
<1> SUFFICES ASSUME Init PROVE TypeOK
  OBVIOUS
<1>1. MembersOK
  <2>1. members = <<>> /\ Len(<<>>) = 0 /\ <<>> \in Seq(Row)
    BY DEF Init
  <2> QED BY <2>1, MembershipAssumption DEF MembersOK
<1>2. AuthOK
  BY DEF Init, AuthInit, AuthOK, AuthTypeOK, AccountStates, Verifications, RefreshStates
<1>3. SessionOK
  <2>1. Idle \in [pc : PCs, claim : Claims, late : BOOLEAN] /\ Idle.pc = "idle"
    BY DEF Idle, PCs, Claims
  <2> QED BY <2>1 DEF Init, AuthInit, SessionOK
<1>4. HeldOK
  BY DEF Init, HeldOK
<1> QED BY <1>1, <1>2, <1>3, <1>4, TypeParts

(* The services keep to their types, whoever calls them in whatever order. *)
THEOREM TypeCorrect == Spec => []TypeOK
<1>1. Init => TypeOK
  BY InitType
<1>2. TypeOK /\ [Next]_vars => TypeOK'
  <2> SUFFICES ASSUME TypeOK, [Next]_vars PROVE TypeOK'
    OBVIOUS
  <2>1. AuthOK' /\ MembersOK' /\ SessionOK' /\ HeldOK'
    BY TypeParts, MembersType, AuthType, SessionType, HeldType
  <2> QED BY <2>1 DEF TypeOK, AuthOK, MembersOK, SessionOK, HeldOK
<1> QED BY <1>1, <1>2, PTL DEF Spec

-----------------------------------------------------------------------------
(* Tokens.                                                                 *)

(* A session without a request has an empty one, and a refresh that began  *)
(* with a dead token gets no further than looking at it.                   *)
Bounded ==
  \A s \in Sessions :
    /\ request[s].pc = "idle" => request[s] = Idle
    /\ request[s].late => request[s].pc = "validate" /\ refresh[s] = "dead"

(* What a step of one session may do to it: a dead token stays dead, a     *)
(* claim comes from workspace-svc or from the same user's request, and a   *)
(* token is added only by a request that is not late, with its claim or    *)
(* without one.                                                            *)
Move(s) ==
  /\ \A t \in Sessions \ {s} :
       /\ tokens'[t] = tokens[t] /\ request'[t] = request[t]
       /\ refresh'[t] = refresh[t] /\ holder'[t] = holder[t]
  /\ UNCHANGED members
  /\ refresh[s] = "dead" => refresh'[s] = "dead"
  /\ \/ tokens'[s] \subseteq tokens[s]
     \/ /\ ~ request[s].late
        /\ tokens'[s] \subseteq tokens[s] \cup {NoClaim, request[s].claim}
  /\ request'[s].pc = "idle" => request'[s] = Idle
  /\ request'[s].late => request'[s].pc = "validate" /\ refresh'[s] = "dead"
  /\ \/ request'[s].claim \in {NoClaim} \cup GetMemberByEmail(holder'[s])
     \/ request'[s].claim = request[s].claim /\ holder'[s] = holder[s]

LEMMA IdleFacts == Idle.pc = "idle" /\ Idle.claim = NoClaim /\ Idle.late = FALSE
  BY DEF Idle

LEMMA SessionMoves ==
  ASSUME AuthOK, SessionOK, Bounded, NEW s \in Sessions, Session(s)
  PROVE  Move(s)
<1>0. /\ tokens \in [Sessions -> SUBSET Claims]
      /\ request \in [Sessions -> [pc : PCs, claim : Claims, late : BOOLEAN]]
      /\ refresh \in [Sessions -> RefreshStates]
      /\ holder \in [Sessions -> Users \cup {NoUser}]
  BY DEF SessionOK, AuthOK, AuthTypeOK
<1>b. /\ request[s].pc = "idle" => request[s] = Idle
      /\ request[s].late => request[s].pc = "validate" /\ refresh[s] = "dead"
  BY DEF Bounded
<1>n. holder[s] = NoUser => refresh[s] = "none" /\ request[s] = Idle
  BY DEF SessionOK
<1>m. UNCHANGED members
  BY DEF Session, Proceed, LoginLookup, GoogleLogin, LoginIssue, LoginFails,
         RefreshBegin, RefreshValidate, Validate, RefreshIssue, RefreshLookup,
         RefreshRevalidate, RefreshReissue, RefreshFails, Logout,
         RefreshTokenExpires, AccessTokenExpires
<1>1. ASSUME NEW u \in Users, LoginLookup(s, u) PROVE Move(s)
  <2>1. PICK c \in GetUserWorkspace(u) :
          request' = [request EXCEPT ![s] = [Idle EXCEPT !.pc = "login", !.claim = c]]
    BY <1>1 DEF LoginLookup
  <2>2. /\ UNCHANGED <<tokens, refresh>>
        /\ holder' = [holder EXCEPT ![s] = u]
    BY <1>1 DEF LoginLookup, authVars
  <2>3. c \in {NoClaim} \cup GetMemberByEmail(holder'[s])
    BY <1>0, <2>1, <2>2 DEF GetUserWorkspace
  <2>4. request'[s] = [Idle EXCEPT !.pc = "login", !.claim = c]
    BY <1>0, <2>1
  <2>5. request'[s].pc = "login" /\ request'[s].claim = c /\ ~ request'[s].late
    BY <2>4 DEF Idle
  <2> QED BY <1>0, <1>m, <2>1, <2>2, <2>3, <2>5 DEF Move
<1>2. ASSUME NEW u \in Users, GoogleLogin(s, u) PROVE Move(s)
  <2>1. /\ UNCHANGED request /\ refresh[s] # "dead" /\ request[s].claim = NoClaim
        /\ \/ UNCHANGED holder
           \/ holder' = [holder EXCEPT ![s] = u]
        /\ \/ UNCHANGED <<tokens, refresh>>
           \/ /\ tokens' = [tokens EXCEPT ![s] = @ \cup {NoClaim}]
              /\ refresh' = [refresh EXCEPT ![s] = "live"]
    BY <1>2, <1>n, IdleFacts DEF GoogleLogin, IssueHeld, IssueOrphan, AddToken
  <2> QED BY <1>0, <1>b, <1>m, <2>1 DEF Move
<1>3. CASE LoginIssue(s)
  <2>1. /\ tokens' = [tokens EXCEPT ![s] = @ \cup {request[s].claim}]
        /\ request' = [request EXCEPT ![s] = Idle]
        /\ refresh' = [refresh EXCEPT ![s] = "live"]
        /\ request[s].pc = "login" /\ UNCHANGED holder
    BY <1>3 DEF LoginIssue, IssueHeld, AddToken, Finish
  <2>2. refresh[s] = "none"
    BY <2>1 DEF SessionOK
  <2> QED BY <1>0, <1>b, <1>m, <2>1, <2>2, IdleFacts DEF Move
<1>4. CASE LoginFails(s) \/ RefreshFails(s)
  <2>1. /\ request' = [request EXCEPT ![s] = Idle]
        /\ UNCHANGED <<tokens, refresh>>
        /\ UNCHANGED holder \/ holder' = [holder EXCEPT ![s] = NoUser]
    BY <1>4 DEF LoginFails, RefreshFails, IssueOrphan, Finish
  <2> QED BY <1>0, <1>m, <2>1, IdleFacts DEF Move
<1>5. CASE RefreshBegin(s)
  <2>1. /\ request' = [request EXCEPT ![s] = [Idle EXCEPT !.pc = "validate",
                                                 !.late = refresh[s] = "dead"]]
        /\ UNCHANGED <<tokens, refresh, holder>>
    BY <1>5 DEF RefreshBegin, authVars
  <2>2. request'[s] = [Idle EXCEPT !.pc = "validate", !.late = refresh[s] = "dead"]
    BY <1>0, <2>1
  <2>3. /\ request'[s].pc = "validate" /\ request'[s].claim = NoClaim
        /\ request'[s].late => refresh[s] = "dead"
    BY <2>2 DEF Idle
  <2> QED BY <1>0, <1>m, <2>1, <2>3 DEF Move
<1>6. ASSUME NEW from \in PCs, NEW to \in PCs \ {"idle"}, Validate(s, from, to)
      PROVE  Move(s)
  <2>1. CASE Finish(s) /\ UNCHANGED <<tokens, refresh, holder>>
    BY <1>0, <1>m, <2>1, IdleFacts DEF Finish, Move
  <2>2. CASE GoTo(s, to) /\ UNCHANGED <<tokens, refresh, holder>> /\ refresh[s] = "live"
    BY <1>0, <1>b, <1>m, <2>2 DEF GoTo, Move
  <2> QED BY <1>6, <2>1, <2>2 DEF Validate, IsValid, authVars
<1>7. CASE RefreshIssue(s)
  <2>1. /\ request' = [request EXCEPT ![s].pc = "lookup"] /\ request[s].pc = "issue"
        /\ UNCHANGED <<tokens, refresh, holder>>
    BY <1>7 DEF RefreshIssue, IssueOrphan, GoTo
  <2> QED BY <1>0, <1>b, <1>m, <2>1 DEF Move
<1>8. CASE RefreshLookup(s)
  <2>1. /\ UNCHANGED <<refresh, holder>>
        /\ request[s].pc = "lookup"
    BY <1>8 DEF RefreshLookup, authVars
  <2>2. CASE AddToken(s, NoClaim) /\ Finish(s)
    BY <1>0, <1>b, <1>m, <2>1, <2>2, IdleFacts DEF AddToken, Finish, Move
  <2>3. ASSUME NEW c \in GetUserWorkspace(holder[s]), c # NoClaim, UNCHANGED tokens,
               request' = [request EXCEPT ![s].pc = "revalidate", ![s].claim = c]
        PROVE  Move(s)
    <3>1. c \in GetMemberByEmail(holder'[s])
      BY <2>1, <2>3 DEF GetUserWorkspace
    <3>2. /\ request'[s].pc = "revalidate" /\ request'[s].claim = c
          /\ request'[s].late = request[s].late
      BY <1>0, <2>3
    <3> QED BY <1>0, <1>b, <1>m, <2>1, <2>3, <3>1, <3>2 DEF Move
  <2> QED BY <1>8, <2>2, <2>3 DEF RefreshLookup
<1>9. CASE RefreshReissue(s)
  <2>1. /\ tokens' = [tokens EXCEPT ![s] = @ \cup {request[s].claim}]
        /\ request' = [request EXCEPT ![s] = Idle]
        /\ UNCHANGED <<refresh, holder>> /\ request[s].pc = "reissue"
    BY <1>9 DEF RefreshReissue, IssueOrphan, AddToken, Finish
  <2> QED BY <1>0, <1>b, <1>m, <2>1, IdleFacts DEF Move
<1>10. CASE Logout(s) \/ RefreshTokenExpires(s)
  <2>1. /\ refresh' = [refresh EXCEPT ![s] = "dead"]
        /\ UNCHANGED <<tokens, request, holder>>
    BY <1>10 DEF Logout, RefreshTokenExpires, ExpireRefresh, Revoke, sessionVars
  <2> QED BY <1>0, <1>b, <1>m, <2>1 DEF Move
<1>11. ASSUME NEW c \in Claims, AccessTokenExpires(s, c) PROVE Move(s)
  <2>1. /\ tokens' = [tokens EXCEPT ![s] = @ \ {c}]
        /\ UNCHANGED <<request, refresh, holder>>
    BY <1>11 DEF AccessTokenExpires, authVars
  <2> QED BY <1>0, <1>b, <1>m, <2>1 DEF Move
<1> QED
  BY <1>1, <1>2, <1>3, <1>4, <1>5, <1>6, <1>7, <1>8, <1>9, <1>10, <1>11
  DEF Session, Proceed, RefreshValidate, RefreshRevalidate, PCs

(* Nothing but a session's own steps touches it.                           *)
LEMMA OtherSteps ==
  ASSUME [Next]_vars, \A s \in Sessions : ~ Session(s)
  PROVE  UNCHANGED <<tokens, request, refresh, holder>>
<1>1. CASE UNCHANGED vars
  BY <1>1 DEF vars, authVars, sessionVars
<1>2. ASSUME NEW u \in Users, Registration(u)
      PROVE  UNCHANGED <<tokens, request, refresh, holder>>
  BY <1>2
  DEF Registration, RegisterUser, CreateUser, RegisterWorkspace, SendVerification,
      SaveVerification, VerifyEmailToken, ConsumeToken, VerifyEmailUser,
      MarkVerified, VerificationExpires, ExpireVerification, authVars, sessionVars
<1>3. CASE Administration
  BY <1>3 DEF Administration, Invite, Accept, Remove, authVars, sessionVars
<1> QED BY <1>1, <1>2, <1>3 DEF Next

LEMMA NextBounded == AuthOK /\ SessionOK /\ Bounded /\ [Next]_vars => Bounded'
<1> SUFFICES ASSUME AuthOK, SessionOK, Bounded, [Next]_vars PROVE Bounded'
  OBVIOUS
<1>1. ASSUME NEW s \in Sessions, Session(s) PROVE Bounded'
  BY <1>1, SessionMoves DEF Move, Bounded
<1>2. CASE UNCHANGED <<tokens, request, refresh>>
  BY <1>2 DEF Bounded
<1> QED BY <1>1, <1>2, OtherSteps

LEMMA InitBounded == Init => Bounded
  BY IdleFacts DEF Init, Bounded

(* However a logout, an expiry and a refresh interleave: a refresh token   *)
(* that was dead when it was presented yields no access token.             *)
THEOREM NothingAfterLogoutHolds == Spec => NothingAfterLogout
<1> DEFINE Good ==
      \A s \in Sessions : request[s].late => tokens'[s] \subseteq tokens[s]
<1>1. Init => Bounded
  BY InitBounded
<1>2. TypeOK /\ Bounded /\ [Next]_vars => Bounded'
  BY NextBounded, TypeParts
<1>3. TypeOK /\ Bounded /\ [Next]_vars => Good
  <2> SUFFICES ASSUME TypeOK, Bounded, [Next]_vars PROVE Good
    OBVIOUS
  <2>1. ASSUME NEW s \in Sessions, Session(s) PROVE Good
    BY <2>1, SessionMoves, TypeParts DEF Move
  <2>2. CASE UNCHANGED <<tokens, request, refresh>>
    BY <2>2
  <2> QED BY <2>1, <2>2, OtherSteps
<1> QED BY <1>1, <1>2, <1>3, TypeCorrect, PTL DEF Spec, NothingAfterLogout

(* A row has no user exactly as long as its invitation is open, or it was  *)
(* revoked while it was.                                                   *)
OpenRowsAreFree ==
  \A i \in Rows : /\ members[i].state = "pending" => members[i].user = NoUser
                  /\ members[i].state = "active" => members[i].user # NoUser

LEMMA NextOpenRows == MembersOK /\ OpenRowsAreFree /\ [Next]_vars => OpenRowsAreFree'
<1> SUFFICES ASSUME MembersOK, OpenRowsAreFree, [Next]_vars PROVE OpenRowsAreFree'
  OBVIOUS
<1>1. CASE UNCHANGED members
  BY <1>1 DEF OpenRowsAreFree, Rows
<1>2. ASSUME NEW w \in Workspaces, NEW u \in Users, CreateWorkspace(w, u)
      PROVE  OpenRowsAreFree'
  <2>1. /\ Appends(AdminRow(w, u)) /\ AdminRow(w, u).state = "active"
        /\ AdminRow(w, u).user # NoUser
    BY <1>2, CreateFacts, NobodyIsNoUser DEF AdminRow
  <2> QED BY <2>1, AppendFacts DEF OpenRowsAreFree
<1>3. ASSUME NEW w \in Workspaces, NEW e \in People, NEW r \in Roles,
             InviteMember(w, e, r)
      PROVE  OpenRowsAreFree'
  <2>1. CASE Appends(OpenRow(w, e, r))
    <3>1. OpenRow(w, e, r).user = NoUser /\ OpenRow(w, e, r).state = "pending"
      BY DEF OpenRow
    <3> QED BY <2>1, <3>1, AppendFacts DEF OpenRowsAreFree
  <2> QED BY <1>1, <1>3, <2>1, InviteFacts
<1>4. ASSUME NEW i \in Rows, NEW p \in People, AcceptInvite(i, p)
      PROVE  OpenRowsAreFree'
  <2>1. /\ Rows' = Rows /\ members[i] \in Row
        /\ members'[i] = [members[i] EXCEPT !.user = p, !.state = "active"]
        /\ \A j \in Rows \ {i} : members'[j] = members[j]
    BY <1>4, AcceptFacts, RowFacts
  <2>2. members'[i].state = "active" /\ members'[i].user # NoUser
    BY <2>1, MembershipAssumption DEF Row
  <2> QED BY <2>1, <2>2 DEF OpenRowsAreFree
<1>5. ASSUME NEW i \in Rows, RevokeMember(i) PROVE OpenRowsAreFree'
  <2>1. /\ Rows' = Rows /\ members[i] \in Row
        /\ members'[i] = [members[i] EXCEPT !.state = "revoked"]
        /\ \A j \in Rows \ {i} : members'[j] = members[j]
    BY <1>5, RevokeFacts, RowFacts
  <2>2. members'[i].state = "revoked"
    BY <2>1 DEF Row
  <2> QED BY <2>1, <2>2 DEF OpenRowsAreFree
<1> QED BY <1>1, <1>2, <1>3, <1>4, <1>5, NextMembers DEF MembersStep

(* What the address lookup finds is a membership by user id or diverted,   *)
(* and a row that was diverted stays so.                                   *)
LEMMA LookupFinds ==
  ASSUME OpenRowsAreFree, NEW e
  PROVE  GetMemberByEmail(e) \subseteq MembershipsOf(e) \cup Diverted(e)
  BY DEF GetMemberByEmail, MembershipsOf, Diverted, OpenRowsAreFree

LEMMA RowsStay ==
  ASSUME MembersOK, OpenRowsAreFree, [Next]_vars, NEW i \in Rows,
         members[i].user # NoUser
  PROVE  /\ i \in Rows'
         /\ members'[i].user = members[i].user
         /\ members'[i].email = members[i].email
         /\ Claim(i)' = Claim(i)
<1> USE DEF Claim
<1>1. CASE UNCHANGED members
  BY <1>1 DEF Rows
<1>2. ASSUME NEW r, Appends(r)
      PROVE  i \in Rows' /\ members'[i] = members[i]
  BY <1>2, AppendFacts
<1>3. ASSUME NEW k \in Rows, NEW p \in People, AcceptInvite(k, p)
      PROVE  i \in Rows' /\ members'[i] = members[i]
  <2>1. k # i
    BY <1>3 DEF AcceptInvite, OpenRowsAreFree
  <2> QED BY <1>3, <2>1, AcceptFacts
<1>4. ASSUME NEW k \in Rows, RevokeMember(k)
      PROVE  /\ i \in Rows' /\ members'[i].user = members[i].user
             /\ members'[i].email = members[i].email
             /\ members'[i].workspace = members[i].workspace
             /\ members'[i].role = members[i].role
  <2>1. CASE k = i
    BY <1>4, <2>1, RevokeFacts, RowFacts DEF Row
  <2>2. CASE k # i
    BY <1>4, <2>2, RevokeFacts
  <2> QED BY <2>1, <2>2
<1> QED
  BY <1>1, <1>2, <1>3, <1>4, CreateFacts, InviteFacts, NextMembers DEF MembersStep

LEMMA DivertedStays ==
  ASSUME MembersOK, OpenRowsAreFree, [Next]_vars, NEW e
  PROVE  Diverted(e) \subseteq Diverted(e)'
<1> SUFFICES ASSUME NEW i \in Rows, members[i].email = e,
                    members[i].user \notin {e, NoUser}
             PROVE  Claim(i) \in Diverted(e)'
  BY DEF Diverted
<1>1. /\ i \in Rows' /\ members'[i].user = members[i].user
      /\ members'[i].email = members[i].email /\ Claim(i)' = Claim(i)
  BY RowsStay
<1> QED BY <1>1 DEF Diverted

(* The claim that a request carries is a membership its user had by user   *)
(* id while it ran, or one that was diverted.                              *)
Earned ==
  \A s \in Sessions :
    request[s].claim \in held[s] \cup {NoClaim} \cup Diverted(holder[s])

LEMMA NextEarned ==
  AuthOK /\ MembersOK /\ SessionOK /\ Bounded /\ OpenRowsAreFree /\ Earned
    /\ [Next]_vars => Earned'
<1> SUFFICES ASSUME AuthOK, MembersOK, SessionOK, Bounded, OpenRowsAreFree, Earned,
                    [Next]_vars
             PROVE  Earned'
  OBVIOUS
<1>1. CASE UNCHANGED vars
  BY <1>1 DEF Earned, vars, sessionVars, Diverted, Rows, Claim
<1>2. CASE RecordHeld
  <2>1. Bounded' /\ SessionOK'
    BY NextBounded, SessionType
  <2>2. ASSUME NEW s \in Sessions, request'[s].pc # "idle"
        PROVE  request'[s].claim \in held'[s] \cup {NoClaim} \cup Diverted(holder[s])'
    <3>1. \/ /\ request'[s].claim \in {NoClaim} \cup GetMemberByEmail(holder'[s])
             /\ UNCHANGED members
          \/ request'[s].claim = request[s].claim /\ holder'[s] = holder[s]
      BY SessionMoves, OtherSteps DEF Move
    <3>2. held'[s] = held[s] \cup Memberships(s)'
      BY <1>2, <2>2, Zenon DEF RecordHeld
    <3>3. CASE request'[s].claim = request[s].claim /\ holder'[s] = holder[s]
      <4>1. Diverted(holder[s]) \subseteq Diverted(holder[s])'
        BY <3>3, DivertedStays DEF Diverted
      <4> QED BY <3>2, <3>3, <4>1 DEF Earned
    <3>4. CASE /\ request'[s].claim \in {NoClaim} \cup GetMemberByEmail(holder'[s])
               /\ UNCHANGED members
      <4>1. holder'[s] # NoUser
        BY <2>1, <2>2, IdleFacts DEF SessionOK
      <4>2. Memberships(s)' = MembershipsOf(holder'[s])
        BY <3>4, <4>1 DEF Memberships, MembershipsOf, Rows, Claim
      <4>3. Diverted(holder[s])' = Diverted(holder'[s])
        BY <3>4 DEF Diverted, Rows, Claim
      <4> QED BY <3>2, <3>4, <4>2, <4>3, LookupFinds
    <3> QED BY <3>1, <3>3, <3>4
  <2>3. ASSUME NEW s \in Sessions, request'[s].pc = "idle"
        PROVE  request'[s].claim = NoClaim
    BY <2>1, <2>3, IdleFacts DEF Bounded
  <2> QED BY <2>2, <2>3 DEF Earned
<1> QED BY <1>1, <1>2 DEF Next, Beside

(* Whatever members are invited, accepted and revoked meanwhile: an access *)
(* token names a workspace and a role only when its user had them by user  *)
(* id while the request that issued it ran, unless somebody else accepted  *)
(* the invitation that was sent to the user's address.                     *)
THEOREM TokensAreEarnedHolds == Spec => TokensAreEarned
<1> DEFINE Good ==
      \A s \in Sessions :
        tokens'[s] \ tokens[s] \subseteq
          held[s] \cup {NoClaim} \cup Diverted(holder[s])
<1>1. Init => Bounded /\ OpenRowsAreFree /\ Earned
  <2>1. Init => Earned
    BY IdleFacts DEF Init, Earned
  <2>2. Init => OpenRowsAreFree
    BY DEF Init, OpenRowsAreFree, Rows
  <2> QED BY <2>1, <2>2, InitBounded
<1>2. TypeOK /\ Bounded /\ OpenRowsAreFree /\ Earned /\ [Next]_vars
        => Bounded' /\ OpenRowsAreFree' /\ Earned'
  BY NextBounded, NextOpenRows, NextEarned, TypeParts
<1>3. TypeOK /\ Bounded /\ Earned /\ [Next]_vars => Good
  <2> SUFFICES ASSUME TypeOK, Bounded, Earned, [Next]_vars PROVE Good
    OBVIOUS
  <2>1. ASSUME NEW s \in Sessions, Session(s) PROVE Good
    BY <2>1, SessionMoves, TypeParts DEF Move, Earned
  <2>2. CASE UNCHANGED <<tokens, request, refresh>>
    BY <2>2
  <2> QED BY <2>1, <2>2, OtherSteps
<1> QED BY <1>1, <1>2, <1>3, TypeCorrect, PTL DEF Spec, TokensAreEarned

-----------------------------------------------------------------------------
(* Registrations.                                                          *)

HasAdminRow(u) ==
  \E i \in Rows : members[i].user = u /\ members[i].role = "admin"

(* The admin of a workspace is an admin of it for good.                    *)
LEMMA AdminsStay ==
  ASSUME MembersOK, OpenRowsAreFree, [Next]_vars, NEW u \in Users, HasAdminRow(u)
  PROVE  HasAdminRow(u)'
<1> USE DEF HasAdminRow
<1>0. PICK k \in Rows : members[k].user = u /\ members[k].role = "admin"
  OBVIOUS
<1>1. CASE UNCHANGED members
  BY <1>1 DEF Rows
<1>2. ASSUME NEW r, Appends(r) PROVE HasAdminRow(u)'
  BY <1>0, <1>2, AppendFacts
<1>3. ASSUME NEW i \in Rows, NEW p \in People, AcceptInvite(i, p)
      PROVE  HasAdminRow(u)'
  <2>1. k # i
    BY <1>0, <1>3, NobodyIsNoUser DEF AcceptInvite, OpenRowsAreFree
  <2> QED BY <1>0, <1>3, <2>1, AcceptFacts
<1>4. ASSUME NEW i \in Rows, RevokeMember(i) PROVE HasAdminRow(u)'
  <2>1. k # i
    BY <1>0, <1>4, RevokeFacts
  <2> QED BY <1>0, <1>4, <2>1, RevokeFacts
<1> QED
  BY <1>1, <1>2, <1>3, <1>4, CreateFacts, InviteFacts, NextMembers DEF MembersStep

(* Who has a token that verifies an address has registered it,             *)
(* OnlyFaultsStrand of one user, and that no token that could be used is   *)
(* known to anybody where RESEND_API_KEY is set.                           *)
Registered(u) ==
  /\ verification[u] # "none" => account[u] \in {"unverified", "verified"}
  /\ account[u] \in {"unverified", "verified"} /\ ~ troubled[u] =>
       /\ ~ resendKey => \/ account[u] = "verified"
                         \/ verification[u] \in {"saving", "logged", "consumed"}
       /\ registering[u] \/ HasAdminRow(u)
  /\ resendKey => /\ account[u] # "verified"
                  /\ verification[u] \notin {"logged", "consumed", "used"}

IInv == OpenRowsAreFree /\ \A u \in Users : Registered(u)

LEMMA NextRegistered ==
  ASSUME AuthOK, MembersOK, SessionOK, IInv, [Next]_vars, NEW u \in Users
  PROVE  Registered(u)'
<1>0. /\ account \in [Users -> AccountStates]
      /\ verification \in [Users -> Verifications]
      /\ registering \in [Users -> BOOLEAN]
      /\ troubled \in [Users -> BOOLEAN]
  BY DEF AuthOK, AuthTypeOK
<1>r. Registered(u) /\ (HasAdminRow(u) => HasAdminRow(u)')
  BY AdminsStay DEF IInv
<1>k. resendKey' = resendKey
  BY DEF Next, Beside, vars
<1> USE <1>k
<1> HIDE DEF HasAdminRow
<1>1. CASE UNCHANGED <<account, verification, registering, troubled>>
  BY <1>1, <1>r DEF Registered
<1>2. ASSUME NEW v \in Users, Registration(v) PROVE Registered(u)'
  <2>1. CASE RegisterUser(v)
    BY <1>0, <1>r, <2>1 DEF RegisterUser, CreateUser, Trouble, Registered
  <2>2. CASE RegisterWorkspace(v)
    <3>1. \/ troubled' = [troubled EXCEPT ![v] = TRUE]
          \/ UNCHANGED troubled /\ \E w \in Workspaces : CreateWorkspace(w, v)
      BY <2>2 DEF RegisterWorkspace, Trouble
    <3>2. /\ UNCHANGED <<account, verification>>
          /\ registering' = [registering EXCEPT ![v] = FALSE]
      BY <2>2 DEF RegisterWorkspace, authVars
    <3>3. ASSUME NEW w \in Workspaces, CreateWorkspace(w, v) PROVE HasAdminRow(v)'
      <4>1. Appends(AdminRow(w, v))
        BY <3>3, CreateFacts
      <4>2. AdminRow(w, v).user = v /\ AdminRow(w, v).role = "admin"
        BY DEF AdminRow
      <4>3. Len(members) + 1 \in Rows' \ Rows
        BY <4>1, AppendFacts, RowFacts
      <4> QED BY <4>1, <4>2, <4>3, AppendFacts DEF HasAdminRow
    <3>4. CASE u = v
      BY <1>0, <1>r, <3>1, <3>2, <3>3, <3>4 DEF Registered
    <3>5. CASE u # v
      BY <1>0, <1>r, <3>1, <3>2, <3>5 DEF Registered
    <3> QED BY <3>4, <3>5
  <2>3. CASE SendVerification(v)
    BY <1>0, <1>r, <2>3 DEF SendVerification, SaveVerification, Trouble, Registered
  <2>4. CASE VerifyEmailToken(v)
    BY <1>0, <1>r, <2>4 DEF VerifyEmailToken, ConsumeToken, gateVars, Registered
  <2>5. CASE VerifyEmailUser(v)
    BY <1>0, <1>r, <2>5 DEF VerifyEmailUser, MarkVerified, Trouble, Registered
  <2>6. CASE VerificationExpires(v)
    BY <1>0, <1>r, <2>6 DEF VerificationExpires, ExpireVerification, Trouble, Registered
  <2> QED BY <1>2, <2>1, <2>2, <2>3, <2>4, <2>5, <2>6 DEF Registration
<1>3. ASSUME NEW s \in Sessions, Session(s) PROVE Registered(u)'
  <2>1. CASE UNCHANGED account
    <3>1. UNCHANGED <<verification, registering, troubled>>
      BY <1>3
      DEF Session, Proceed, LoginLookup, GoogleLogin, LoginIssue, LoginFails,
          RefreshBegin, RefreshValidate, Validate, RefreshIssue, RefreshLookup,
          RefreshRevalidate, RefreshReissue, RefreshFails, Logout,
          RefreshTokenExpires, ExpireRefresh, AccessTokenExpires, authVars, gateVars
    <3> QED BY <1>1, <2>1, <3>1
  <2>2. ASSUME NEW v \in Users, GoogleLogin(s, v) PROVE Registered(u)'
    <3>1. /\ account' = [account EXCEPT ![v] = IF @ = "none" THEN "google" ELSE @]
          /\ UNCHANGED <<verification, registering, troubled>>
      BY <2>2 DEF GoogleLogin, GoogleUpsert, gateVars
    <3>2. account'[u] = account[u] \/ (account[u] = "none" /\ account'[u] = "google")
      BY <1>0, <3>1
    <3> QED BY <1>r, <3>1, <3>2 DEF Registered
  <2> QED
    BY <1>3, <2>1, <2>2
    DEF Session, Proceed, LoginLookup, LoginIssue, LoginFails,
        RefreshBegin, RefreshValidate, Validate, RefreshIssue, RefreshLookup,
        RefreshRevalidate, RefreshReissue, RefreshFails, Logout,
        RefreshTokenExpires, ExpireRefresh, AccessTokenExpires, authVars
<1>4. CASE Administration
  BY <1>1, <1>4 DEF Administration, Invite, Accept, Remove, authVars, gateVars
<1> QED BY <1>1, <1>2, <1>3, <1>4 DEF Next, vars, authVars, gateVars

(* Where RESEND_API_KEY is set nobody who registered is ever verified.     *)
(* Where it is not, whoever registered can still become verified with the  *)
(* token in the log, and has a workspace or is about to get one, unless a  *)
(* call failed or the verification expired: no order in which the steps of *)
(* registrations, logins and administrators fall strands an account.       *)
THEOREM OnlyFaultsStrandHolds == Spec => []OnlyFaultsStrand
<1>1. Init => IInv
  <2> SUFFICES ASSUME Init PROVE IInv
    OBVIOUS
  <2>1. \A u \in Users : account[u] = "none" /\ verification[u] = "none"
    BY DEF Init, AuthInit
  <2>2. members = <<>>
    BY DEF Init
  <2>3. Rows = {}
    BY <2>2 DEF Rows
  <2> QED BY <2>1, <2>3 DEF IInv, OpenRowsAreFree, Registered
<1>2. TypeOK /\ IInv /\ [Next]_vars => IInv'
  <2> SUFFICES ASSUME TypeOK, IInv, [Next]_vars PROVE IInv'
    OBVIOUS
  <2>1. AuthOK /\ MembersOK /\ SessionOK
    BY TypeParts
  <2>2. OpenRowsAreFree'
    BY <2>1, NextOpenRows DEF IInv
  <2>3. \A u \in Users : Registered(u)'
    BY <2>1, NextRegistered
  <2> QED BY <2>2, <2>3 DEF IInv
<1>3. IInv => OnlyFaultsStrand
  BY DEF IInv, Registered, HasAdminRow, OnlyFaultsStrand
<1> QED BY <1>1, <1>2, <1>3, TypeCorrect, PTL DEF Spec
=============================================================================
