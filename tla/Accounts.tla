------------------------------- MODULE Accounts -------------------------------
(***************************************************************************)
(* Accounts, one-time links and codes, sessions (internal/auth, user,      *)
(* admin, middleware, pkg/jwt).                                            *)
(*                                                                         *)
(* Postgres keeps the accounts, Redis the links that verify an email and   *)
(* the codes that reset a password; nothing is kept of a session: its      *)
(* token names the account and the middleware looks the account up.  A     *)
(* request looks first and writes later, and in between an administrator   *)
(* may deactivate or delete the account and others may write it.           *)
(***************************************************************************)
EXTENDS Integers, FiniteSets

CONSTANTS
  Emails,        \* lower-case addresses: every handler lowers what it is given
  Ids,           \* ids of accounts, each given at most once
  Passwords,     \* passwords users choose from
  Calls,         \* requests served at once, each used again and again
  MaxCodes,      \* the bound on codes sent to an address
  MaxAdminCalls  \* the bound on what administrators do

ASSUME AccountsAssumption ==
  /\ {MaxCodes, MaxAdminCalls} \subseteq Nat
  /\ Ids # {} /\ Emails # {} /\ Passwords # {}

VARIABLES
  users,         \* table users
  mailed,        \* addresses a verification email was sent to
  links,         \* addresses with a link in Redis that still verifies them
  codes,         \* reset codes in Redis, by key
  codesSent,     \* codes sent to each address: the last one's number
  sessions,      \* accounts a token was given for; tokens are not revoked
  call,          \* what each request is at
  adminCalls     \* calls of administrators so far

accountsVars ==
  <<users, mailed, links, codes, codesSent, sessions, call, adminCalls>>

NoPassword == "noPassword"
NoId == "noId"
NoCode == 0
CodeSenders == {"auth", "admin"}
CodeKeys == CodeSenders \X Emails

Accounts ==
  [state: {"none", "active", "inactive", "deleted"}, email: Emails,
   authType: {"password", "google"}, password: Passwords \cup {NoPassword},
   verified: BOOLEAN, profile: {"none", "completed", "updated"}]

(* phase: checked (no such account), admitted, compared (old password),    *)
(* code (the code matched).  overtaken: the account was deactivated or     *)
(* deleted since; code and latest: the code given and the last one sent.   *)
CallStates ==
  [phase: {"idle", "signup", "social", "admitted", "compared", "code"},
   id: Ids \cup {NoId}, email: Emails, overtaken: BOOLEAN,
   code: 0..MaxCodes, latest: 0..MaxCodes]

AccountsTypeOK ==
  /\ users \in [Ids -> Accounts]
  /\ links \subseteq mailed /\ mailed \subseteq Emails
  /\ codes \in [CodeKeys -> 0..MaxCodes]
  /\ codesSent \in [Emails -> 0..MaxCodes]
  /\ sessions \subseteq Ids
  /\ call \in [Calls -> CallStates]
  /\ adminCalls \in 0..MaxAdminCalls

Exists(u) == users[u].state \in {"active", "inactive"}
WithEmail(e) == {u \in Ids : Exists(u) /\ users[u].email = e}
SomeEmail == CHOOSE e \in Emails : TRUE
NoAccount == [state |-> "none", email |-> SomeEmail, authType |-> "password",
              password |-> NoPassword, verified |-> FALSE,
              profile |-> "none"]
IdleCall == [phase |-> "idle", id |-> NoId, email |-> SomeEmail, overtaken |-> FALSE,
             code |-> NoCode, latest |-> NoCode]

AccountsInit ==
  /\ users = [u \in Ids |-> NoAccount]
  /\ mailed = {} /\ links = {}
  /\ codes = [k \in CodeKeys |-> NoCode]
  /\ codesSent = [e \in Emails |-> 0]
  /\ sessions = {}
  /\ call = [r \in Calls |-> IdleCall]
  /\ adminCalls = 0

Ends(r) == call' = [call EXCEPT ![r] = IdleCall]
-------------------------------------------------------------------------------
(***************************************************************************)
(* Sign-up and verification.                                               *)
(***************************************************************************)

(* GenerateAndSendEmail: a new link; the ones before it keep working.      *)
SendLink(e) ==
  /\ links' = links \cup {e}
  /\ mailed' = mailed \cup {e}

SendNoLink == UNCHANGED <<links, mailed>>

(* CreateNewUser and HandleSocialAuth first look for the address.          *)
FindUserByEmail(r, e, phase) ==
  /\ call[r].phase = "idle"
  /\ WithEmail(e) = {}
  /\ call' = [call EXCEPT ![r] = [IdleCall EXCEPT !.phase = phase, !.email = e]]
  /\ UNCHANGED <<users, mailed, links, codes, codesSent, sessions, adminCalls>>

(* Mutated form of EmailFree: no index, the earlier look decides.          *)
EmailFreeThen(e) == TRUE

(* The unique index on users.email.                                        *)
EmailFree(e) == WithEmail(e) = {}

(* The account, or the conflict a concurrent sign-up causes; the link may  *)
(* fail to be stored after the commit.                                     *)
CreateNewUser(r, u, password) ==
  LET e == call[r].email IN
  /\ call[r].phase = "signup" /\ EmailFree(e)
  /\ users[u].state = "none"
  /\ users' = [users EXCEPT ![u] = [NoAccount EXCEPT !.state = "active", !.email = e,
                                                   !.password = password]]
  /\ sessions' = sessions \cup {u}
  /\ SendLink(e) \/ SendNoLink
  /\ Ends(r)
  /\ UNCHANGED <<codes, codesSent, adminCalls>>

CreateSocialUser(r, u) ==
  LET e == call[r].email IN
  /\ call[r].phase = "social" /\ EmailFree(e)
  /\ users[u].state = "none"
  /\ users' = [users EXCEPT ![u] = [NoAccount EXCEPT !.state = "active", !.email = e,
                                                   !.authType = "google", !.verified = TRUE]]
  /\ sessions' = sessions \cup {u}
  /\ Ends(r)
  /\ UNCHANGED <<mailed, links, codes, codesSent, adminCalls>>

SignUpConflicts(r) ==
  /\ call[r].phase \in {"signup", "social"} /\ ~EmailFree(call[r].email)
  /\ Ends(r)
  /\ UNCHANGED <<users, mailed, links, codes, codesSent, sessions, adminCalls>>

(* An account Google made signs in with Google again.                      *)
HandleSocialAuth(u) ==
  /\ Exists(u) /\ users[u].authType = "google"
  /\ sessions' = sessions \cup {u}
  /\ UNCHANGED <<users, mailed, links, codes, codesSent, call, adminCalls>>

(* Login asks for a verified address, and sends a new link if it is not.   *)
(* It does not look at is_active.                                          *)
Login(u) ==
  /\ Exists(u) /\ users[u].password # NoPassword
  /\ IF users[u].verified
     THEN sessions' = sessions \cup {u} /\ SendNoLink
     ELSE UNCHANGED sessions /\ SendLink(users[u].email)
  /\ UNCHANGED <<users, codes, codesSent, call, adminCalls>>

ResendEmail(e) ==
  /\ SendLink(e)
  /\ UNCHANGED <<users, codes, codesSent, sessions, call, adminCalls>>

(* Mutated form of AnswerExpired: it says so, and no more.                 *)
AnswerExpiredOnly(e) == SendNoLink

(* What a link that has expired does.                                      *)
AnswerExpired(e) == SendLink(e)

(* A link from an email verifies its address, whoever has it now.          *)
ValidateEmail(e) ==
  /\ e \in mailed
  /\ IF e \in links
     THEN /\ users' = [u \in Ids |-> IF u \in WithEmail(e)
                                     THEN [users[u] EXCEPT !.verified = TRUE] ELSE users[u]]
          /\ sessions' = sessions \cup {u \in WithEmail(e) : ~users[u].verified}
          /\ SendNoLink
     ELSE UNCHANGED <<users, sessions>> /\ AnswerExpired(e)
  /\ UNCHANGED <<codes, codesSent, call, adminCalls>>

LinksExpire(e) ==
  /\ e \in links
  /\ links' = links \ {e}
  /\ UNCHANGED <<users, mailed, codes, codesSent, sessions, call, adminCalls>>
-------------------------------------------------------------------------------
(***************************************************************************)
(* Requests with a session.                                                *)
(***************************************************************************)
(* Mutated form of userIsActive: a valid token is enough.                  *)
tokenIsValid(u) == TRUE

userIsActive(u) == users[u].state = "active"

Authenticate(r, u) ==
  /\ call[r].phase = "idle" /\ u \in sessions
  /\ userIsActive(u)
  /\ call' = [call EXCEPT ![r] = [IdleCall EXCEPT !.phase = "admitted", !.id = u,
                                                  !.email = users[u].email]]
  /\ UNCHANGED <<users, mailed, links, codes, codesSent, sessions, adminCalls>>

(* By the address in the token, not by id; once, and verified only.        *)
CompleteUserProfile(r) ==
  /\ call[r].phase = "admitted"
  /\ \E u \in WithEmail(call[r].email) :
       /\ users[u].verified /\ users[u].profile = "none"
       /\ users' = [users EXCEPT ![u].profile = "completed"]
  /\ Ends(r)
  /\ UNCHANGED <<mailed, links, codes, codesSent, sessions, adminCalls>>

(* By id, under a lock on the active row; one without a name yet cannot be *)
(* read.                                                                   *)
UpdateProfile(r) ==
  LET u == call[r].id IN
  /\ call[r].phase = "admitted"
  /\ users[u].state = "active" /\ users[u].profile # "none"
  /\ users' = [users EXCEPT ![u].profile = "updated"]
  /\ Ends(r)
  /\ UNCHANGED <<mailed, links, codes, codesSent, sessions, adminCalls>>

(* ChangeUserPassword reads and compares the old password ...              *)
ComparePassword(r) ==
  /\ call[r].phase = "admitted"
  /\ users[call[r].id].state = "active" /\ users[call[r].id].password # NoPassword
  /\ call' = [call EXCEPT ![r].phase = "compared"]
  /\ UNCHANGED <<users, mailed, links, codes, codesSent, sessions, adminCalls>>

(* ... and writes the new one, whatever the old one is by now.             *)
ChangeUserPassword(r, password) ==
  /\ call[r].phase = "compared"
  /\ users[call[r].id].state = "active"
  /\ users' = [users EXCEPT ![call[r].id].password = password]
  /\ Ends(r)
  /\ UNCHANGED <<mailed, links, codes, codesSent, sessions, adminCalls>>

(* GenerateRefreshToken takes any token, and the middleware takes the      *)
(* refresh token like any other; every other end of a request, refused,    *)
(* failed or without effect, is here too.                                  *)
CallEnds(r) ==
  /\ call[r].phase # "idle"
  /\ Ends(r)
  /\ UNCHANGED <<users, mailed, links, codes, codesSent, sessions, adminCalls>>
-------------------------------------------------------------------------------
(***************************************************************************)
(* Reset codes: the auth service's for a week, the admin service's for ten *)
(* minutes, under one key.                                                 *)
(***************************************************************************)
(* Mutated form of CodeKey: each service has a key of its own.             *)
CodeKeyOfService(service, e) == <<service, e>>

CodeKey(service, e) == <<"auth", e>>

SendCode(service, e) ==
  /\ codesSent[e] < MaxCodes
  /\ codesSent' = [codesSent EXCEPT ![e] = @ + 1]
  /\ codes' = [codes EXCEPT ![CodeKey(service, e)] = codesSent[e] + 1]

RequestPasswordReset(e) ==
  /\ WithEmail(e) # {}
  /\ SendCode("auth", e)
  /\ UNCHANGED <<users, mailed, links, sessions, call, adminCalls>>

(* ResetPassword reads the code; when there is none it sends a new one     *)
(* (RequestPasswordReset).  The user gives some code that was sent.        *)
ReadCode(r, e, given) ==
  /\ call[r].phase = "idle"
  /\ given \in 1..codesSent[e]
  /\ codes[CodeKey("auth", e)] = given
  /\ call' = [call EXCEPT ![r] = [IdleCall EXCEPT !.phase = "code", !.email = e,
                                    !.code = given, !.latest = codesSent[e]]]
  /\ UNCHANGED <<users, mailed, links, codes, codesSent, sessions, adminCalls>>

(* By address: active or not, the same account or a new one.  The code     *)
(* stays.                                                                  *)
ResetPassword(r, password) ==
  /\ call[r].phase = "code"
  /\ users' = [u \in Ids |-> IF u \in WithEmail(call[r].email)
                             THEN [users[u] EXCEPT !.password = password] ELSE users[u]]
  /\ Ends(r)
  /\ UNCHANGED <<mailed, links, codes, codesSent, sessions, adminCalls>>

CodeExpires(k) ==
  /\ codes[k] # NoCode
  /\ codes' = [codes EXCEPT ![k] = NoCode]
  /\ UNCHANGED <<users, mailed, links, codesSent, sessions, call, adminCalls>>
-------------------------------------------------------------------------------
(***************************************************************************)
(* Administrators.                                                         *)
(***************************************************************************)
Overtake(u) ==
  call' = [r \in Calls |-> IF call[r].id = u THEN [call[r] EXCEPT !.overtaken = TRUE]
                                             ELSE call[r]]

AdminActs == adminCalls < MaxAdminCalls /\ adminCalls' = adminCalls + 1

SetUserActive(u, active) ==
  /\ Exists(u) /\ AdminActs
  /\ users' = [users EXCEPT ![u].state = IF active THEN "active" ELSE "inactive"]
  /\ IF active THEN UNCHANGED call ELSE Overtake(u)
  /\ UNCHANGED <<mailed, links, codes, codesSent, sessions>>

(* Refused by a foreign key when the account has invoices.                 *)
DeleteUser(u) ==
  /\ Exists(u) /\ AdminActs
  /\ users' = [users EXCEPT ![u] = [NoAccount EXCEPT !.state = "deleted", !.email = users[u].email]]
  /\ Overtake(u)
  /\ UNCHANGED <<mailed, links, codes, codesSent, sessions>>

AdminResetUserPassword(u) ==
  /\ Exists(u) /\ AdminActs
  /\ SendCode("admin", users[u].email)
  /\ UNCHANGED <<users, mailed, links, sessions, call>>
-------------------------------------------------------------------------------
SignUpNext(r) ==
  \/ \E e \in Emails : FindUserByEmail(r, e, "signup") \/ FindUserByEmail(r, e, "social")
  \/ \E u \in Ids : CreateSocialUser(r, u) \/ \E p \in Passwords : CreateNewUser(r, u, p)
  \/ SignUpConflicts(r)

SessionNext(r) ==
  \/ \E u \in Ids : Authenticate(r, u)
  \/ CompleteUserProfile(r) \/ UpdateProfile(r)
  \/ ComparePassword(r)
  \/ \E p \in Passwords : ChangeUserPassword(r, p) \/ ResetPassword(r, p)
  \/ \E e \in Emails, given \in 1..MaxCodes : ReadCode(r, e, given)
  \/ CallEnds(r)

AdminNext(u) ==
  \/ \E active \in BOOLEAN : SetUserActive(u, active)
  \/ DeleteUser(u)
  \/ AdminResetUserPassword(u)

AccountsNext ==
  \/ \E r \in Calls : SignUpNext(r) \/ SessionNext(r)
  \/ \E u \in Ids : HandleSocialAuth(u) \/ Login(u) \/ AdminNext(u)
  \/ \E e \in Emails : ResendEmail(e) \/ ValidateEmail(e) \/ LinksExpire(e) \/ RequestPasswordReset(e)
  \/ \E k \in CodeKeys : CodeExpires(k)

AccountsSpec == AccountsInit /\ [][AccountsNext]_accountsVars
-------------------------------------------------------------------------------
(* An address has one account, although sign-ups with a password and with  *)
(* Google look for it in one step and create it in another.                *)
OneAccountPerEmail == \A e \in Emails : Cardinality(WithEmail(e)) <= 1

(* A password is reset only with the last code that was sent to the        *)
(* address when the code was compared, whichever service had sent it: a    *)
(* newer code replaces the older ones.                                     *)
LatestCodeResets ==
  \A r \in Calls : call[r].phase = "code" => call[r].code = call[r].latest

Credentials(u) == <<users[u].password, users[u].profile>>

(* "userIsActive revokes the sessions of deleted or deactivated users:     *)
(* tokens are stateless" (middleware/auth.go:74).  What a deactivated      *)
(* account has changes only by a reset code, or by a request the           *)
(* middleware let through before the deactivation.                         *)
SessionsEnd ==
  [][\A u \in Ids :
       users[u].state = "inactive" /\ Credentials(u) # Credentials(u)' =>
         \/ users'[u].state = "deleted"
         \/ \E r \in Calls : call[r].phase = "code" \/
                             (call[r].phase = "admitted" /\ call[r].overtaken)]_accountsVars

(* A new account is verified in the end, however often its link expires    *)
(* before it is followed.                                                  *)
VerifiedInTheEnd ==
  \A u \in Ids : Exists(u) ~> users[u].verified \/ users[u].state = "deleted"
=============================================================================
