---------------------------- MODULE AuthSession -----------------------------
(***************************************************************************)
(* auth-svc: accounts, the token that verifies an e-mail address, and the  *)
(* refresh tokens.  One session slot stands for one refresh token that was *)
(* handed to a client; refresh tokens that no answer contains are only     *)
(* remembered as existing (orphaned).                                      *)
(*                                                                         *)
(* The actions are the statements of auth-svc.  Accounts composes them     *)
(* with the gateway's handlers, which decide when they run.                *)
(***************************************************************************)

CONSTANTS
  Users,    \* people with an e-mail address that auth-svc may know
  Sessions  \* refresh tokens that clients hold

VARIABLES
  account,      \* the row of users
  verification, \* the user's row of email_verifications and who works on it
  resendKey,    \* RESEND_API_KEY is set: configuration, it never changes
  refresh,      \* the session's row of refresh_tokens
  orphaned      \* the user has refresh tokens that nobody holds

authVars == <<account, verification, refresh, orphaned>>

(* An account made by Google has no password; one that was registered and  *)
(* then used with Google keeps its password and its is_verified.           *)
AccountStates == {"none", "unverified", "verified", "google"}

(* saving: the goroutine of Register runs; logged: saved, and the log has  *)
(* the raw token; undelivered: saved, and nobody has the raw token;        *)
(* consumed: used_at is set and MarkVerified has not run; dead: expired,   *)
(* never saved, or used in vain.                                           *)
Verifications ==
  {"none", "saving", "logged", "undelivered", "consumed", "used", "dead"}

RefreshStates == {"none", "live", "dead"}

AuthTypeOK ==
  /\ account \in [Users -> AccountStates]
  /\ verification \in [Users -> Verifications]
  /\ resendKey \in BOOLEAN
  /\ refresh \in [Sessions -> RefreshStates]
  /\ orphaned \in [Users -> BOOLEAN]

AuthInit ==
  /\ account = [u \in Users |-> "none"]
  /\ verification = [u \in Users |-> "none"]
  /\ resendKey \in BOOLEAN
  /\ refresh = [s \in Sessions |-> "none"]
  /\ orphaned = [u \in Users |-> FALSE]

-----------------------------------------------------------------------------
(* Registration and verification *)

(* Register: INSERT INTO users, then a goroutine nobody waits for.  A      *)
(* second registration of the address fails.                               *)
CreateUser(u) ==
  /\ account[u] = "none"
  /\ account' = [account EXCEPT ![u] = "unverified"]
  /\ verification' = [verification EXCEPT ![u] = "saving"]
  /\ UNCHANGED <<refresh, orphaned>>

(* sendVerificationEmail: it saves the token; an error is only logged.  It *)
(* sends nothing: without RESEND_API_KEY the token goes to the log, with   *)
(* it the token goes nowhere, and "verification email sent" to the log.    *)
SaveVerification(u, ok) ==
  /\ verification[u] = "saving"
  /\ verification' =
       [verification EXCEPT ![u] = IF ~ok THEN "dead"
                                   ELSE IF resendKey THEN "undelivered"
                                                     ELSE "logged"]
  /\ UNCHANGED <<account, refresh, orphaned>>

(* ConsumeEmailVerificationToken: a token works once, for whoever found it *)
(* in the log.                                                             *)
ConsumeToken(u) ==
  /\ verification[u] = "logged"
  /\ verification' = [verification EXCEPT ![u] = "consumed"]
  /\ UNCHANGED <<account, refresh, orphaned>>

(* MarkVerified, which may fail after the token was consumed.              *)
MarkVerified(u, ok) ==
  /\ verification[u] = "consumed"
  /\ verification' = [verification EXCEPT ![u] = IF ok THEN "used" ELSE "dead"]
  /\ account' = IF ok THEN [account EXCEPT ![u] = "verified"] ELSE account
  /\ UNCHANGED <<refresh, orphaned>>

(* expires_at passes: 24 hours.                                            *)
ExpireVerification(u) ==
  /\ verification[u] \in {"logged", "undelivered"}
  /\ verification' = [verification EXCEPT ![u] = "dead"]
  /\ UNCHANGED <<account, refresh, orphaned>>

-----------------------------------------------------------------------------
(* Sessions *)

(* Login: the checks it makes before it issues tokens.                     *)
CanLogin(u) == account[u] = "verified"

(* CreateOAuth: an upsert; is_verified of an existing row stays.           *)
GoogleUpsert(u) ==
  account' = [account EXCEPT ![u] = IF @ = "none" THEN "google" ELSE @]

(* A mutant: revoked_at is not looked at.                                  *)
IsKnown(s) == refresh[s] # "none"

(* ValidateRefreshToken: neither revoked nor expired.                      *)
IsValid(s) == refresh[s] = "live"

(* issueTokenPair for a login whose answer arrives.                        *)
IssueHeld(s) ==
  refresh' = [refresh EXCEPT ![s] = "live"] /\ UNCHANGED orphaned

(* issueTokenPair for a refresh, whose answer has no refresh token, and    *)
(* for a login whose answer is lost: the row is there and nobody knows it. *)
IssueOrphan(u) ==
  orphaned' = [orphaned EXCEPT ![u] = TRUE] /\ UNCHANGED refresh

(* RevokeRefreshToken: the one row of the given token.                     *)
Revoke(s) == refresh' = [refresh EXCEPT ![s] = "dead"]

(* expires_at passes: REFRESH_TOKEN_TTL_DAYS.                              *)
ExpireRefresh(s) ==
  /\ refresh[s] = "live"
  /\ Revoke(s)
  /\ UNCHANGED <<account, verification, orphaned>>
=============================================================================
