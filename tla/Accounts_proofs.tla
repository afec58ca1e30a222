---------------------------- MODULE Accounts_proofs ----------------------------
(***************************************************************************)
(* What holds of accounts for any number of addresses, accounts, requests  *)
(* and calls of administrators: an address has one account, only the last  *)
(* code resets a password, and a deactivated account is written no more by *)
(* requests admitted after the deactivation.                               *)
(***************************************************************************)
EXTENDS Accounts, FiniteSetTheorems, TLAPS

AccountStates == {"none", "active", "inactive", "deleted"}
AuthTypes == {"password", "google"}
Profiles == {"none", "completed", "updated"}
Phases == {"idle", "signup", "social", "admitted", "compared", "code"}

AccountRows ==
  [state: AccountStates, email: Emails, authType: AuthTypes,
   password: Passwords \cup {NoPassword}, verified: BOOLEAN, profile: Profiles]

CallRows ==
  [phase: Phases, id: Ids \cup {NoId}, email: Emails, overtaken: BOOLEAN,
   code: Nat, latest: Nat]

AccountsShape ==
  /\ users \in [Ids -> AccountRows]
  /\ codes \in [CodeKeys -> Nat]
  /\ codesSent \in [Emails -> Nat]
  /\ sessions \subseteq Ids
  /\ call \in [Calls -> CallRows]

SameEmail(u, v) == Exists(u) /\ Exists(v) /\ users[u].email = users[v].email
EmailsUnique == \A u, v \in Ids : SameEmail(u, v) => u = v

(* The key holds the last code or none.                                    *)
LastCodeKept == \A e \in Emails : codes[CodeKey("auth", e)] \in {NoCode, codesSent[e]}

(* A request the middleware let through works for the active account it    *)
(* looked up, until an administrator overtakes it.                         *)
AdmittedKnown(c) ==
  c.phase = "admitted" /\ ~ c.overtaken =>
    /\ c.id \in Ids /\ users[c.id].state = "active"
    /\ users[c.id].email = c.email

CodeLatest(c) == c.phase = "code" => c.code = c.latest

AccountsInv ==
  /\ AccountsShape
  /\ EmailsUnique
  /\ LastCodeKept
  /\ \A r \in Calls : AdmittedKnown(call[r]) /\ CodeLatest(call[r])

(* An account keeps its address and its state but for one that ends.       *)
LEMMA AccountsWritten ==
  ASSUME AccountsInv, users' \in [Ids -> AccountRows], sessions' \subseteq Ids,
         \A u \in Ids : users'[u].email = users[u].email /\ users'[u].state = users[u].state,
         UNCHANGED <<codes, codesSent>>,
         call' \in [Calls -> CallRows],
         \A r \in Calls : call'[r].phase \in {"admitted", "code"} => call'[r] = call[r]
  PROVE  AccountsInv'
  <1>1. \A u \in Ids : Exists(u)' <=> Exists(u)
    BY DEF Exists
  <1>2. EmailsUnique'
    BY <1>1 DEF AccountsInv, EmailsUnique, SameEmail
  <1>3. LastCodeKept'
    BY DEF AccountsInv, LastCodeKept, CodeKey
  <1>4. ASSUME NEW r \in Calls PROVE AdmittedKnown(call[r])' /\ CodeLatest(call[r])'
    <2>1. AdmittedKnown(call[r]) /\ CodeLatest(call[r])
      BY DEF AccountsInv
    <2> QED BY <2>1 DEF AdmittedKnown, CodeLatest
  <1> QED BY <1>2, <1>3, <1>4 DEF AccountsInv, AccountsShape

LEMMA SomeEmailIsOne == SomeEmail \in Emails
  BY AccountsAssumption DEF SomeEmail

LEMMA PhaseNames ==
  /\ "idle" \in Phases /\ "signup" \in Phases /\ "social" \in Phases
  /\ "admitted" \in Phases /\ "compared" \in Phases /\ "code" \in Phases
  BY DEF Phases

LEMMA StateNames ==
  /\ "none" \in AccountStates /\ "active" \in AccountStates
  /\ "inactive" \in AccountStates /\ "deleted" \in AccountStates
  BY DEF AccountStates

LEMMA IdleCallKnown ==
  IdleCall \in CallRows /\ IdleCall.phase = "idle"
  BY SomeEmailIsOne, PhaseNames DEF IdleCall, CallRows, NoCode, NoId

LEMMA NoAccountKnown ==
  NoAccount \in AccountRows /\ NoAccount.state = "none"
  BY SomeEmailIsOne DEF NoAccount, AccountRows, AccountStates, AuthTypes, Profiles

LEMMA RequestKnown ==
  ASSUME AccountsInv, NEW r \in Calls
  PROVE  /\ call[r] \in CallRows /\ call[r].email \in Emails /\ call[r].id \in Ids \cup {NoId}
         /\ AdmittedKnown(call[r]) /\ CodeLatest(call[r])
  <1>1. call[r] \in CallRows /\ AdmittedKnown(call[r]) /\ CodeLatest(call[r])
    BY DEF AccountsInv, AccountsShape
  <1>2. \A c \in CallRows : c.email \in Emails /\ c.id \in Ids \cup {NoId}
    BY DEF CallRows
  <1> QED BY <1>1, <1>2

LEMMA AccountKnown ==
  ASSUME AccountsInv, NEW u \in Ids
  PROVE  users[u] \in AccountRows /\ users[u].email \in Emails
  <1>1. users[u] \in AccountRows
    BY DEF AccountsInv, AccountsShape
  <1>2. \A row \in AccountRows : row.email \in Emails
    BY DEF AccountRows
  <1> QED BY <1>1, <1>2

(* A request ends and the accounts keep their address and state.           *)
LEMMA RequestEnds ==
  ASSUME AccountsInv, NEW r \in Calls, Ends(r)
  PROVE  /\ call' \in [Calls -> CallRows]
         /\ \A q \in Calls : call'[q].phase \in {"admitted", "code"} => call'[q] = call[q]
  BY IdleCallKnown DEF AccountsInv, AccountsShape, Ends

LEMMA AccountsWrittenByRequest ==
  ASSUME AccountsInv, NEW r \in Calls, Ends(r), users' \in [Ids -> AccountRows],
         \A u \in Ids : users'[u].email = users[u].email /\ users'[u].state = users[u].state,
         UNCHANGED <<codes, codesSent, sessions>>
  PROVE  AccountsInv'
  <1>1. sessions' \subseteq Ids
    BY DEF AccountsInv, AccountsShape
  <1> QED BY <1>1, RequestEnds, AccountsWritten

(* A request goes on and nothing else changes.                             *)
LEMMA RequestGoesOn ==
  ASSUME AccountsInv, NEW r \in Calls, NEW c \in CallRows,
         call' = [call EXCEPT ![r] = c],
         AdmittedKnown(c), CodeLatest(c),
         UNCHANGED <<users, codes, codesSent, sessions>>
  PROVE  AccountsInv'
  <1>1. AccountsShape'
    BY DEF AccountsInv, AccountsShape
  <1>2. EmailsUnique' /\ LastCodeKept'
    BY DEF AccountsInv, EmailsUnique, SameEmail, Exists, LastCodeKept, CodeKey
  <1>3. ASSUME NEW q \in Calls PROVE AdmittedKnown(call[q])' /\ CodeLatest(call[q])'
    <2>1. call'[q] = IF q = r THEN c ELSE call[q]
      BY DEF AccountsInv, AccountsShape
    <2>2. AdmittedKnown(call'[q]) /\ CodeLatest(call'[q])
      BY <2>1 DEF AccountsInv
    <2> QED BY <2>2 DEF AdmittedKnown, CodeLatest
  <1> QED BY <1>1, <1>2, <1>3 DEF AccountsInv

LEMMA RequestJustEnds ==
  ASSUME AccountsInv, NEW r \in Calls, Ends(r),
         UNCHANGED <<users, codes, codesSent, sessions>>
  PROVE  AccountsInv'
  <1>1. users' \in [Ids -> AccountRows]
    BY DEF AccountsInv, AccountsShape
  <1> QED BY <1>1, AccountsWrittenByRequest

(* The index admits an account only when its address is free.              *)
LEMMA AccountCreated ==
  ASSUME AccountsInv, NEW r \in Calls, NEW u \in Ids, NEW row \in AccountRows,
         row.state = "active", row.email = call[r].email, EmailFree(call[r].email),
         users[u].state = "none", users' = [users EXCEPT ![u] = row],
         sessions' = sessions \cup {u}, Ends(r), UNCHANGED <<codes, codesSent>>
  PROVE  AccountsInv'
  <1>1. /\ users' \in [Ids -> AccountRows] /\ sessions' \subseteq Ids
        /\ users'[u] = row /\ \A v \in Ids : v # u => users'[v] = users[v]
    BY DEF AccountsInv, AccountsShape
  <1>2. AccountsShape'
    BY <1>1, RequestEnds DEF AccountsInv, AccountsShape
  <1>3. EmailsUnique'
    <2> SUFFICES ASSUME NEW v \in Ids, NEW w \in Ids, SameEmail(v, w)' PROVE v = w
      BY DEF EmailsUnique
    <2>1. \A x \in Ids : x # u => Exists(x)' = Exists(x)
      BY <1>1 DEF Exists
    <2>2. \A x \in Ids : Exists(x) => users[x].email # call[r].email
      BY DEF EmailFree, WithEmail
    <2>3. CASE v # u /\ w # u
      BY <1>1, <2>1, <2>3 DEF SameEmail, AccountsInv, EmailsUnique
    <2>4. CASE v = u \/ w = u
      BY <1>1, <2>1, <2>2, <2>4 DEF SameEmail
    <2> QED BY <2>3, <2>4
  <1>4. LastCodeKept'
    BY DEF AccountsInv, LastCodeKept, CodeKey
  <1>5. ASSUME NEW q \in Calls PROVE AdmittedKnown(call[q])' /\ CodeLatest(call[q])'
    <2>1. CodeLatest(call[q])'
      <3>1. call'[q].phase = "code" => call'[q] = call[q]
        BY RequestEnds
      <3> QED BY <3>1, RequestKnown DEF CodeLatest
    <2>2. AdmittedKnown(call[q])'
      <3>1. call'[q].phase = "admitted" => call'[q] = call[q] /\ AdmittedKnown(call[q])
        BY RequestEnds, RequestKnown
      <3>2. call[q].id \in Ids /\ users[call[q].id].state = "active" => call[q].id # u
        OBVIOUS
      <3> QED BY <1>1, <3>1, <3>2 DEF AdmittedKnown
    <2> QED BY <2>1, <2>2
  <1> QED BY <1>2, <1>3, <1>4, <1>5 DEF AccountsInv

(* An administrator overtakes the requests of the account.                 *)
LEMMA Overtaken ==
  ASSUME AccountsInv, NEW u \in Ids, Overtake(u)
  PROVE  /\ call' \in [Calls -> CallRows]
         /\ \A q \in Calls :
              /\ call'[q].phase = call[q].phase /\ call'[q].id = call[q].id
              /\ call'[q].email = call[q].email
              /\ call'[q].code = call[q].code /\ call'[q].latest = call[q].latest
              /\ ~ call'[q].overtaken => ~ call[q].overtaken /\ call[q].id # u
  <1>1. \A c \in CallRows :
          LET d == [c EXCEPT !.overtaken = TRUE] IN
          /\ d \in CallRows /\ d.phase = c.phase /\ d.id = c.id /\ d.email = c.email
          /\ d.code = c.code /\ d.latest = c.latest /\ d.overtaken
    BY DEF CallRows
  <1>2. \A q \in Calls : call[q] \in CallRows
    BY DEF AccountsInv, AccountsShape
  <1> QED BY <1>1, <1>2 DEF Overtake

(* One account changes its state, and nothing is admitted for it unless it *)
(* is active.                                                              *)
LEMMA StateChanged ==
  ASSUME AccountsInv, NEW u \in Ids, NEW row \in AccountRows, Exists(u),
         row.email = users[u].email, users' = [users EXCEPT ![u] = row],
         \/ row.state = "active" /\ UNCHANGED call
         \/ Overtake(u),
         UNCHANGED <<codes, codesSent, sessions>>
  PROVE  AccountsInv'
  <1>1. /\ users' \in [Ids -> AccountRows]
        /\ users'[u] = row /\ \A v \in Ids : v # u => users'[v] = users[v]
    BY DEF AccountsInv, AccountsShape
  <1>2. AccountsShape'
    BY <1>1, Overtaken DEF AccountsInv, AccountsShape
  <1>3. EmailsUnique'
    <2>1. \A v \in Ids : (Exists(v)' => Exists(v)) /\ users'[v].email = users[v].email
      BY <1>1 DEF Exists
    <2> QED BY <2>1 DEF AccountsInv, EmailsUnique, SameEmail
  <1>4. LastCodeKept'
    BY DEF AccountsInv, LastCodeKept, CodeKey
  <1>5. ASSUME NEW q \in Calls PROVE AdmittedKnown(call[q])' /\ CodeLatest(call[q])'
    <2>1. AdmittedKnown(call[q]) /\ CodeLatest(call[q])
      BY RequestKnown
    <2>2. CodeLatest(call[q])'
      BY <2>1, Overtaken DEF CodeLatest
    <2>3. CASE row.state = "active" /\ UNCHANGED call
      BY <1>1, <2>1, <2>2, <2>3 DEF AdmittedKnown
    <2>4. CASE Overtake(u)
      BY <1>1, <2>1, <2>2, <2>4, Overtaken DEF AdmittedKnown
    <2> QED BY <2>3, <2>4
  <1> QED BY <1>2, <1>3, <1>4, <1>5 DEF AccountsInv

(* A code replaces the one before it, or expires.                          *)
LEMMA CodesMove ==
  ASSUME AccountsInv, codes' \in [CodeKeys -> Nat], codesSent' \in [Emails -> Nat],
         LastCodeKept', UNCHANGED <<users, sessions, call>>
  PROVE  AccountsInv'
  <1>1. EmailsUnique'
    BY DEF AccountsInv, EmailsUnique, SameEmail, Exists
  <1>2. \A r \in Calls : AdmittedKnown(call[r])' /\ CodeLatest(call[r])'
    BY DEF AccountsInv, AdmittedKnown, CodeLatest
  <1> QED BY <1>1, <1>2 DEF AccountsInv, AccountsShape

LEMMA CodeSent ==
  ASSUME AccountsInv, NEW e \in Emails, NEW s \in CodeSenders, SendCode(s, e),
         UNCHANGED <<users, sessions, call>>
  PROVE  AccountsInv'
  <1>1. /\ codes \in [CodeKeys -> Nat] /\ codesSent \in [Emails -> Nat] /\ LastCodeKept
        /\ codesSent' = [codesSent EXCEPT ![e] = @ + 1]
        /\ codes' = [codes EXCEPT ![CodeKey("auth", e)] = codesSent[e] + 1]
    BY DEF AccountsInv, AccountsShape, SendCode, CodeKey
  <1>2. \A d \in Emails : CodeKey("auth", d) \in CodeKeys
                          /\ (CodeKey("auth", d) = CodeKey("auth", e) => d = e)
    BY DEF CodeKey, CodeKeys, CodeSenders
  <1>3. codes' \in [CodeKeys -> Nat] /\ codesSent' \in [Emails -> Nat]
    <2>1. codesSent[e] + 1 \in Nat
      BY <1>1
    <2> QED BY <1>1, <2>1
  <1>4. ASSUME NEW d \in Emails PROVE codes'[CodeKey("auth", d)] \in {NoCode, codesSent'[d]}
    BY <1>1, <1>2 DEF LastCodeKept
  <1>5. LastCodeKept'
    BY <1>4 DEF LastCodeKept, CodeKey
  <1> QED BY <1>3, <1>5, CodesMove

LEMMA CodeGone ==
  ASSUME AccountsInv, NEW k \in CodeKeys, CodeExpires(k)
  PROVE  AccountsInv'
  <1>1. /\ codes' \in [CodeKeys -> Nat] /\ codesSent' \in [Emails -> Nat]
        /\ \A j \in CodeKeys : codes'[j] \in {NoCode, codes[j]}
        /\ UNCHANGED <<users, sessions, call, codesSent>>
    BY DEF CodeExpires, AccountsInv, AccountsShape, NoCode
  <1>2. \A d \in Emails : CodeKey("auth", d) \in CodeKeys
    BY DEF CodeKey, CodeKeys, CodeSenders
  <1>3. LastCodeKept'
    BY <1>1, <1>2 DEF AccountsInv, LastCodeKept, CodeKey
  <1> QED BY <1>1, <1>3, CodesMove

LEMMA OneWritten ==
  ASSUME AccountsInv, NEW r \in Calls, NEW u \in Ids, NEW row \in AccountRows,
         Ends(r), users' = [users EXCEPT ![u] = row],
         row.email = users[u].email, row.state = users[u].state,
         UNCHANGED <<codes, codesSent, sessions>>
  PROVE  AccountsInv'
  <1>1. /\ users' \in [Ids -> AccountRows]
        /\ \A v \in Ids : users'[v].email = users[v].email /\ users'[v].state = users[v].state
    BY DEF AccountsInv, AccountsShape
  <1> QED BY <1>1, AccountsWrittenByRequest

LEMMA SignUpKeeps ==
  ASSUME AccountsInv, NEW r \in Calls, SignUpNext(r)
  PROVE  AccountsInv'
  <1>1. ASSUME NEW e \in Emails, NEW ph \in {"signup", "social"}, FindUserByEmail(r, e, ph)
        PROVE  AccountsInv'
    <2> DEFINE c == [IdleCall EXCEPT !.phase = ph, !.email = e]
    <2>1. call' = [call EXCEPT ![r] = c] /\ UNCHANGED <<users, codes, codesSent, sessions>>
      BY <1>1 DEF FindUserByEmail
    <2>2. IdleCall \in CallRows /\ ph \in Phases
      BY IdleCallKnown, PhaseNames
    <2>3. c \in CallRows /\ c.phase = ph
      BY <2>2 DEF CallRows
    <2> HIDE DEF c
    <2>4. AdmittedKnown(c) /\ CodeLatest(c)
      BY <2>3 DEF AdmittedKnown, CodeLatest
    <2> QED BY <2>1, <2>3, <2>4, RequestGoesOn
  <1>2. ASSUME NEW u \in Ids, CreateSocialUser(r, u) PROVE AccountsInv'
    <2> DEFINE mail == call[r].email
               row == [NoAccount EXCEPT !.state = "active", !.email = mail,
                                        !.authType = "google", !.verified = TRUE]
    <2>1. /\ EmailFree(mail) /\ users[u].state = "none" /\ users' = [users EXCEPT ![u] = row]
          /\ sessions' = sessions \cup {u} /\ Ends(r) /\ UNCHANGED <<codes, codesSent>>
      BY <1>2 DEF CreateSocialUser
    <2>2. /\ NoAccount \in AccountRows /\ mail \in Emails
          /\ "active" \in AccountStates /\ "google" \in AuthTypes
      BY NoAccountKnown, RequestKnown, StateNames DEF AuthTypes
    <2>3. row \in AccountRows /\ row.state = "active" /\ row.email = mail
      <3> HIDE DEF mail
      <3> QED BY <2>2 DEF AccountRows
    <2> HIDE DEF row
    <2> QED BY <2>1, <2>3, AccountCreated
  <1>3. ASSUME NEW u \in Ids, NEW x \in Passwords, CreateNewUser(r, u, x) PROVE AccountsInv'
    <2> DEFINE mail == call[r].email
               row == [NoAccount EXCEPT !.state = "active", !.email = mail, !.password = x]
    <2>1. /\ EmailFree(mail) /\ users[u].state = "none" /\ users' = [users EXCEPT ![u] = row]
          /\ sessions' = sessions \cup {u} /\ Ends(r) /\ UNCHANGED <<codes, codesSent>>
      BY <1>3 DEF CreateNewUser
    <2>2. NoAccount \in AccountRows /\ mail \in Emails /\ "active" \in AccountStates
      BY NoAccountKnown, RequestKnown, StateNames
    <2>3. row \in AccountRows /\ row.state = "active" /\ row.email = mail
      <3> HIDE DEF mail
      <3> QED BY <2>2 DEF AccountRows
    <2> HIDE DEF row
    <2> QED BY <2>1, <2>3, AccountCreated
  <1>4. CASE SignUpConflicts(r)
    BY <1>4, RequestJustEnds DEF SignUpConflicts
  <1> QED BY <1>1, <1>2, <1>3, <1>4 DEF SignUpNext

LEMMA SessionKeeps ==
  ASSUME AccountsInv, NEW r \in Calls, SessionNext(r)
  PROVE  AccountsInv'
  <1>1. ASSUME NEW u \in Ids, Authenticate(r, u) PROVE AccountsInv'
    <2> DEFINE mail == users[u].email
               c == [IdleCall EXCEPT !.phase = "admitted", !.id = u, !.email = mail]
    <2>1. /\ call' = [call EXCEPT ![r] = c] /\ UNCHANGED <<users, codes, codesSent, sessions>>
          /\ users[u].state = "active"
      BY <1>1 DEF Authenticate, userIsActive
    <2>2. /\ IdleCall \in CallRows /\ mail \in Emails /\ "admitted" \in Phases
          /\ u \in Ids \cup {NoId}
      BY IdleCallKnown, PhaseNames, AccountKnown
    <2>3. c \in CallRows /\ c.phase = "admitted" /\ c.id = u /\ c.email = mail
      <3> HIDE DEF mail
      <3> QED BY <2>2 DEF CallRows
    <2> HIDE DEF c
    <2>4. AdmittedKnown(c) /\ CodeLatest(c)
      BY <2>1, <2>3 DEF AdmittedKnown, CodeLatest
    <2> QED BY <2>1, <2>3, <2>4, RequestGoesOn
  <1>2. CASE CompleteUserProfile(r)
    <2>1. PICK u \in Ids : users' = [users EXCEPT ![u].profile = "completed"]
      BY <1>2 DEF CompleteUserProfile, WithEmail
    <2>2. Ends(r) /\ UNCHANGED <<codes, codesSent, sessions>>
      BY <1>2 DEF CompleteUserProfile
    <2> DEFINE row == [users[u] EXCEPT !.profile = "completed"]
    <2>3. row \in AccountRows /\ row.email = users[u].email /\ row.state = users[u].state
      <3>1. users[u] \in AccountRows /\ "completed" \in Profiles
        BY AccountKnown DEF Profiles
      <3> QED BY <3>1 DEF AccountRows
    <2>4. users' = [users EXCEPT ![u] = row]
      BY <2>1
    <2> HIDE DEF row
    <2> QED BY <2>2, <2>3, <2>4, OneWritten
  <1>3. CASE UpdateProfile(r)
    <2> DEFINE u == call[r].id
               row == [users[u] EXCEPT !.profile = "updated"]
    <2>1. /\ users[u].state = "active" /\ users' = [users EXCEPT ![u] = row]
          /\ Ends(r) /\ UNCHANGED <<codes, codesSent, sessions>>
      BY <1>3 DEF UpdateProfile
    <2> HIDE DEF u
    <2>2. CASE u \in Ids
      <3>1. users[u] \in AccountRows /\ "updated" \in Profiles
        BY <2>2, AccountKnown DEF Profiles
      <3>2. row \in AccountRows /\ row.email = users[u].email /\ row.state = users[u].state
        BY <3>1 DEF AccountRows
      <3> HIDE DEF row
      <3> QED BY <2>1, <2>2, <3>2, OneWritten
    <2>3. CASE u \notin Ids
      <3>1. users' = users
        BY <2>1, <2>3 DEF AccountsInv, AccountsShape
      <3> QED BY <2>1, <3>1, RequestJustEnds
    <2> QED BY <2>2, <2>3
  <1>4. CASE ComparePassword(r)
    <2>1. PICK old \in CallRows : old = call[r]
      BY RequestKnown
    <2> DEFINE c == [old EXCEPT !.phase = "compared"]
    <2>2. call' = [call EXCEPT ![r] = c] /\ UNCHANGED <<users, codes, codesSent, sessions>>
      BY <1>4, <2>1 DEF ComparePassword
    <2>3. c \in CallRows /\ c.phase = "compared"
      <3>1. "compared" \in Phases
        BY PhaseNames
      <3> QED BY <3>1 DEF CallRows
    <2> HIDE DEF c
    <2>4. AdmittedKnown(c) /\ CodeLatest(c)
      BY <2>3 DEF AdmittedKnown, CodeLatest
    <2> QED BY <2>2, <2>3, <2>4, RequestGoesOn
  <1>5. ASSUME NEW x \in Passwords, ChangeUserPassword(r, x) PROVE AccountsInv'
    <2> DEFINE u == call[r].id
               row == [users[u] EXCEPT !.password = x]
    <2>1. /\ users' = [users EXCEPT ![u] = row]
          /\ Ends(r) /\ UNCHANGED <<codes, codesSent, sessions>>
      BY <1>5 DEF ChangeUserPassword
    <2> HIDE DEF u
    <2>2. CASE u \in Ids
      <3>1. users[u] \in AccountRows
        BY <2>2, AccountKnown
      <3>2. row \in AccountRows /\ row.email = users[u].email /\ row.state = users[u].state
        BY <3>1 DEF AccountRows
      <3> HIDE DEF row
      <3> QED BY <2>1, <2>2, <3>2, OneWritten
    <2>3. CASE u \notin Ids
      <3>1. users' = users
        BY <2>1, <2>3 DEF AccountsInv, AccountsShape
      <3> QED BY <2>1, <3>1, RequestJustEnds
    <2> QED BY <2>2, <2>3
  <1>6. ASSUME NEW x \in Passwords, ResetPassword(r, x) PROVE AccountsInv'
    <2>1. /\ users' = [u \in Ids |-> IF u \in WithEmail(call[r].email)
                                     THEN [users[u] EXCEPT !.password = x] ELSE users[u]]
          /\ Ends(r) /\ UNCHANGED <<codes, codesSent, sessions>>
      BY <1>6 DEF ResetPassword
    <2>2. \A u \in Ids :
            LET row == [users[u] EXCEPT !.password = x] IN
            row \in AccountRows /\ row.email = users[u].email /\ row.state = users[u].state
      <3>1. \A old \in AccountRows :
              LET row == [old EXCEPT !.password = x] IN
              row \in AccountRows /\ row.email = old.email /\ row.state = old.state
        BY DEF AccountRows
      <3> QED BY <3>1, AccountKnown
    <2>3. /\ users' \in [Ids -> AccountRows]
          /\ \A u \in Ids : users'[u].email = users[u].email /\ users'[u].state = users[u].state
      BY <2>1, <2>2, AccountKnown
    <2> QED BY <2>1, <2>3, AccountsWrittenByRequest
  <1>7. ASSUME NEW e \in Emails, NEW given \in 1..MaxCodes, ReadCode(r, e, given)
        PROVE  AccountsInv'
    <2> DEFINE sent == codesSent[e]
               c == [IdleCall EXCEPT !.phase = "code", !.email = e, !.code = given, !.latest = sent]
    <2>1. /\ call' = [call EXCEPT ![r] = c] /\ UNCHANGED <<users, codes, codesSent, sessions>>
          /\ given \in 1..sent /\ codes[CodeKey("auth", e)] = given
      BY <1>7 DEF ReadCode
    <2>2. sent \in Nat /\ codes[CodeKey("auth", e)] \in {NoCode, sent}
      BY DEF AccountsInv, AccountsShape, LastCodeKept
    <2>3. given \in Nat /\ given = sent
      BY <2>1, <2>2 DEF NoCode
    <2>4. IdleCall \in CallRows /\ "code" \in Phases
      BY IdleCallKnown, PhaseNames
    <2> HIDE DEF sent
    <2>5. c \in CallRows /\ c.phase = "code" /\ c.code = given /\ c.latest = sent
      BY <2>2, <2>3, <2>4 DEF CallRows
    <2> HIDE DEF c
    <2>6. AdmittedKnown(c) /\ CodeLatest(c)
      BY <2>3, <2>5 DEF AdmittedKnown, CodeLatest
    <2> QED BY <2>1, <2>5, <2>6, RequestGoesOn
  <1>8. CASE CallEnds(r)
    BY <1>8, RequestJustEnds DEF CallEnds
  <1> QED BY <1>1, <1>2, <1>3, <1>4, <1>5, <1>6, <1>7, <1>8 DEF SessionNext

LEMMA AdminKeeps ==
  ASSUME AccountsInv, NEW u \in Ids, AdminNext(u)
  PROVE  AccountsInv'
  <1>1. ASSUME NEW on \in BOOLEAN, SetUserActive(u, on) PROVE AccountsInv'
    <2> DEFINE now == IF on THEN "active" ELSE "inactive"
               row == [users[u] EXCEPT !.state = now]
    <2>1. /\ Exists(u) /\ users' = [users EXCEPT ![u] = row]
          /\ UNCHANGED <<codes, codesSent, sessions>>
          /\ on => UNCHANGED call
          /\ ~ on => Overtake(u)
      BY <1>1 DEF SetUserActive
    <2>2. users[u] \in AccountRows /\ now \in AccountStates /\ (on => now = "active")
      BY AccountKnown, StateNames
    <2> HIDE DEF now
    <2>3. row \in AccountRows /\ row.email = users[u].email /\ row.state = now
      BY <2>2 DEF AccountRows
    <2> HIDE DEF row
    <2> QED BY <2>1, <2>2, <2>3, StateChanged
  <1>2. CASE DeleteUser(u)
    <2> DEFINE mail == users[u].email
               row == [NoAccount EXCEPT !.state = "deleted", !.email = mail]
    <2>1. /\ Exists(u) /\ users' = [users EXCEPT ![u] = row] /\ Overtake(u)
          /\ UNCHANGED <<codes, codesSent, sessions>>
      BY <1>2 DEF DeleteUser
    <2>2. NoAccount \in AccountRows /\ mail \in Emails /\ "deleted" \in AccountStates
      BY NoAccountKnown, AccountKnown, StateNames
    <2>3. row \in AccountRows /\ row.email = mail
      <3> HIDE DEF mail
      <3> QED BY <2>2 DEF AccountRows
    <2> HIDE DEF row
    <2> QED BY <2>1, <2>3, StateChanged
  <1>3. CASE AdminResetUserPassword(u)
    BY <1>3, AccountKnown, CodeSent DEF AdminResetUserPassword, CodeSenders
  <1> QED BY <1>1, <1>2, <1>3, Zenon DEF AdminNext

LEMMA AccountsStart == AccountsInit => AccountsInv
  <1> SUFFICES ASSUME AccountsInit PROVE AccountsInv
    OBVIOUS
  <1>1. AccountsShape
    BY NoAccountKnown, IdleCallKnown DEF AccountsInit, AccountsShape, NoCode
  <1>2. EmailsUnique
    BY NoAccountKnown DEF AccountsInit, EmailsUnique, SameEmail, Exists
  <1>3. LastCodeKept
    BY DEF AccountsInit, LastCodeKept, CodeKey, CodeKeys, CodeSenders
  <1>4. \A r \in Calls : AdmittedKnown(call[r]) /\ CodeLatest(call[r])
    BY IdleCallKnown DEF AccountsInit, AdmittedKnown, CodeLatest
  <1> QED BY <1>1, <1>2, <1>3, <1>4 DEF AccountsInv

(* A link, a login or Google: no request is at work.                       *)
LEMMA SessionGiven ==
  ASSUME AccountsInv, users' \in [Ids -> AccountRows], sessions' \subseteq Ids,
         \A u \in Ids : users'[u].email = users[u].email /\ users'[u].state = users[u].state,
         UNCHANGED <<codes, codesSent, call>>
  PROVE  AccountsInv'
  <1>1. call' \in [Calls -> CallRows]
    BY DEF AccountsInv, AccountsShape
  <1> QED BY <1>1, AccountsWritten

LEMMA LinkKeeps ==
  ASSUME AccountsInv, NEW e \in Emails, ValidateEmail(e)
  PROVE  AccountsInv'
  <1>1. users \in [Ids -> AccountRows] /\ sessions \subseteq Ids
        /\ UNCHANGED <<codes, codesSent, call>>
    BY DEF AccountsInv, AccountsShape, ValidateEmail
  <1>2. CASE e \in links
    <2>1. /\ users' = [u \in Ids |-> IF u \in WithEmail(e)
                                     THEN [users[u] EXCEPT !.verified = TRUE] ELSE users[u]]
          /\ sessions' = sessions \cup {u \in WithEmail(e) : ~ users[u].verified}
      BY <1>2 DEF ValidateEmail
    <2>2. \A u \in Ids :
            LET row == [users[u] EXCEPT !.verified = TRUE] IN
            row \in AccountRows /\ row.email = users[u].email /\ row.state = users[u].state
      <3>1. \A old \in AccountRows :
              LET row == [old EXCEPT !.verified = TRUE] IN
              row \in AccountRows /\ row.email = old.email /\ row.state = old.state
        BY DEF AccountRows
      <3> QED BY <3>1, AccountKnown
    <2>3. /\ users' \in [Ids -> AccountRows]
          /\ \A u \in Ids : users'[u].email = users[u].email /\ users'[u].state = users[u].state
      BY <1>1, <2>1, <2>2
    <2>4. sessions' \subseteq Ids
      BY <1>1, <2>1 DEF WithEmail
    <2> QED BY <1>1, <2>3, <2>4, SessionGiven
  <1>3. CASE e \notin links
    <2>1. UNCHANGED <<users, sessions>>
      BY <1>3 DEF ValidateEmail
    <2> QED BY <1>1, <2>1, SessionGiven
  <1> QED BY <1>2, <1>3

LEMMA AccountsStepKeeps == AccountsInv /\ [AccountsNext]_accountsVars => AccountsInv'
  <1> SUFFICES ASSUME AccountsInv, [AccountsNext]_accountsVars PROVE AccountsInv'
    OBVIOUS
  <1>0. users \in [Ids -> AccountRows] /\ sessions \subseteq Ids
    BY DEF AccountsInv, AccountsShape
  <1>1. ASSUME NEW r \in Calls, SignUpNext(r) \/ SessionNext(r) PROVE AccountsInv'
    BY <1>1, SignUpKeeps, SessionKeeps
  <1>2. ASSUME NEW u \in Ids, HandleSocialAuth(u) \/ Login(u) PROVE AccountsInv'
    <2>1. UNCHANGED <<users, codes, codesSent, call>> /\ sessions' \subseteq sessions \cup {u}
      BY <1>2 DEF HandleSocialAuth, Login
    <2>2. users' \in [Ids -> AccountRows] /\ sessions' \subseteq Ids
      BY <1>0, <2>1
    <2> QED BY <2>1, <2>2, SessionGiven
  <1>3. ASSUME NEW u \in Ids, AdminNext(u) PROVE AccountsInv'
    BY <1>3, AdminKeeps
  <1>4. ASSUME NEW e \in Emails,
               ResendEmail(e) \/ ValidateEmail(e) \/ LinksExpire(e) \/ RequestPasswordReset(e)
        PROVE  AccountsInv'
    <2>1. CASE ValidateEmail(e)
      BY <2>1, LinkKeeps
    <2>2. CASE RequestPasswordReset(e)
      BY <2>2, CodeSent DEF RequestPasswordReset, CodeSenders
    <2>3. CASE ResendEmail(e) \/ LinksExpire(e)
      <3>1. UNCHANGED <<users, codes, codesSent, sessions, call>>
        BY <2>3 DEF ResendEmail, LinksExpire
      <3> QED BY <1>0, <3>1, SessionGiven
    <2> QED BY <1>4, <2>1, <2>2, <2>3
  <1>5. ASSUME NEW k \in CodeKeys, CodeExpires(k) PROVE AccountsInv'
    BY <1>5, CodeGone
  <1>6. CASE UNCHANGED accountsVars
    BY <1>0, <1>6, SessionGiven DEF accountsVars
  <1> QED BY <1>1, <1>2, <1>3, <1>4, <1>5, <1>6 DEF AccountsNext
-------------------------------------------------------------------------------
(* An address never has two accounts.                                      *)
THEOREM AddressHasOneAccount == AccountsSpec => []OneAccountPerEmail
  <1>1. AccountsInv => OneAccountPerEmail
    <2> SUFFICES ASSUME AccountsInv, NEW e \in Emails PROVE Cardinality(WithEmail(e)) <= 1
      BY DEF OneAccountPerEmail
    <2>1. CASE WithEmail(e) = {}
      BY <2>1, FS_EmptySet
    <2>2. CASE WithEmail(e) # {}
      <3>1. PICK u \in WithEmail(e) : TRUE
        BY <2>2
      <3>2. WithEmail(e) = {u}
        BY <3>1 DEF WithEmail, AccountsInv, EmailsUnique, SameEmail
      <3> QED BY SMTT(30), <3>2, FS_Singleton
    <2> QED BY <2>1, <2>2
  <1> QED BY <1>1, AccountsStart, AccountsStepKeeps, PTL DEF AccountsSpec

(* A request resets a password only with the last code that was sent.      *)
THEOREM OnlyLatestCodeResets == AccountsSpec => []LatestCodeResets
  <1>1. AccountsInv => LatestCodeResets
    BY DEF AccountsInv, CodeLatest, LatestCodeResets
  <1> QED BY <1>1, AccountsStart, AccountsStepKeeps, PTL DEF AccountsSpec

(* What may change the password or the profile of an inactive account.     *)
MayTouch(u) ==
  \/ users'[u].state = "deleted"
  \/ \E r \in Calls : call[r].phase = "code" \/ (call[r].phase = "admitted" /\ call[r].overtaken)

(* A step that changes only the state or the verification of accounts.     *)
LEMMA SameCredentials ==
  ASSUME NEW u, users'[u].password = users[u].password, users'[u].profile = users[u].profile
  PROVE  Credentials(u)' = Credentials(u)
  BY DEF Credentials

(* A request admitted before is the only one that completes the profile of *)
(* an account that is not active: the address has no other.                *)
LEMMA ProfileCompleted ==
  ASSUME AccountsInv, NEW r \in Calls, CompleteUserProfile(r),
         NEW u \in Ids, users[u].state = "inactive"
  PROVE  Credentials(u)' = Credentials(u) \/ MayTouch(u)
  <1>1. PICK v \in Ids : /\ v \in WithEmail(call[r].email)
                         /\ users' = [users EXCEPT ![v].profile = "completed"]
    BY DEF CompleteUserProfile, WithEmail
  <1>2. CASE v # u
    <2>1. users'[u] = users[u]
      BY <1>1, <1>2 DEF AccountsInv, AccountsShape
    <2> QED BY <2>1, SameCredentials
  <1>3. CASE v = u
    <2>1. call[r].phase = "admitted" /\ AdmittedKnown(call[r])
      BY RequestKnown DEF CompleteUserProfile
    <2>2. call[r].overtaken \in BOOLEAN
      <3>1. \A c \in CallRows : c.overtaken \in BOOLEAN
        BY DEF CallRows
      <3> QED BY <3>1, RequestKnown
    <2>3. ~ call[r].overtaken => call[r].id = u
      BY <1>1, <1>3, <2>1 DEF AdmittedKnown, WithEmail, Exists, AccountsInv, EmailsUnique, SameEmail
    <2>4. call[r].overtaken
      BY <2>1, <2>3 DEF AdmittedKnown
    <2> QED BY <2>1, <2>4 DEF MayTouch
  <1> QED BY <1>2, <1>3

LEMMA InactiveLeftAlone ==
  ASSUME AccountsInv, AccountsNext, NEW u \in Ids, users[u].state = "inactive"
  PROVE  Credentials(u)' = Credentials(u) \/ MayTouch(u)
  <1>0. users \in [Ids -> AccountRows] /\ users[u] \in AccountRows
    BY DEF AccountsInv, AccountsShape
  <1>1. ASSUME users' = users PROVE Credentials(u)' = Credentials(u)
    BY <1>1, SameCredentials
  <1>2. ASSUME NEW r \in Calls, SignUpNext(r) PROVE Credentials(u)' = Credentials(u)
    <2>1. ASSUME NEW v \in Ids, users[v].state = "none", NEW row,
                 users' = [users EXCEPT ![v] = row]
          PROVE  Credentials(u)' = Credentials(u)
      <3>1. users'[u] = users[u]
        BY <1>0, <2>1
      <3> QED BY <3>1, SameCredentials
    <2>2. ASSUME NEW v \in Ids, CreateSocialUser(r, v) PROVE Credentials(u)' = Credentials(u)
      BY <2>1, <2>2 DEF CreateSocialUser
    <2>3. ASSUME NEW v \in Ids, NEW x \in Passwords, CreateNewUser(r, v, x)
          PROVE  Credentials(u)' = Credentials(u)
      BY <2>1, <2>3 DEF CreateNewUser
    <2>4. ASSUME NEW e \in Emails, FindUserByEmail(r, e, "signup") \/ FindUserByEmail(r, e, "social")
          PROVE  Credentials(u)' = Credentials(u)
      BY <1>1, <2>4 DEF FindUserByEmail
    <2>5. CASE SignUpConflicts(r)
      BY <1>1, <2>5 DEF SignUpConflicts
    <2> QED BY <1>2, <2>2, <2>3, <2>4, <2>5 DEF SignUpNext
  <1>3. ASSUME NEW r \in Calls, SessionNext(r)
        PROVE  Credentials(u)' = Credentials(u) \/ MayTouch(u)
    <2>1. ASSUME users[call[r].id].state = "active", NEW row,
                 users' = [users EXCEPT ![call[r].id] = row]
          PROVE  Credentials(u)' = Credentials(u)
      <3>1. users'[u] = users[u]
        BY <1>0, <2>1
      <3> QED BY <3>1, SameCredentials
    <2>2. CASE CompleteUserProfile(r)
      BY <2>2, ProfileCompleted
    <2>3. CASE UpdateProfile(r)
      BY <2>1, <2>3 DEF UpdateProfile
    <2>4. ASSUME NEW x \in Passwords, ChangeUserPassword(r, x)
          PROVE  Credentials(u)' = Credentials(u)
      BY <2>1, <2>4 DEF ChangeUserPassword
    <2>5. ASSUME NEW x \in Passwords, ResetPassword(r, x) PROVE MayTouch(u)
      BY <2>5 DEF ResetPassword, MayTouch
    <2>6. ASSUME NEW v \in Ids, Authenticate(r, v) PROVE Credentials(u)' = Credentials(u)
      BY <1>1, <2>6 DEF Authenticate
    <2>7. CASE ComparePassword(r) \/ CallEnds(r)
      BY <1>1, <2>7 DEF ComparePassword, CallEnds
    <2>8. ASSUME NEW e \in Emails, NEW given \in 1..MaxCodes, ReadCode(r, e, given)
          PROVE  Credentials(u)' = Credentials(u)
      BY <1>1, <2>8 DEF ReadCode
    <2> QED BY <1>3, <2>2, <2>3, <2>4, <2>5, <2>6, <2>7, <2>8 DEF SessionNext
  <1>4. ASSUME NEW v \in Ids, AdminNext(v)
        PROVE  Credentials(u)' = Credentials(u) \/ MayTouch(u)
    <2>1. ASSUME NEW on \in BOOLEAN, SetUserActive(v, on) PROVE Credentials(u)' = Credentials(u)
      <3> DEFINE now == IF on THEN "active" ELSE "inactive"
      <3>1. users' = [users EXCEPT ![v].state = now]
        BY <2>1 DEF SetUserActive
      <3> HIDE DEF now
      <3>2. users'[u].password = users[u].password /\ users'[u].profile = users[u].profile
        <4>1. CASE u = v
          <5>1. users'[u] = [users[u] EXCEPT !.state = now]
            BY <1>0, <3>1, <4>1
          <5>2. \A row \in AccountRows :
                  /\ [row EXCEPT !.state = now].password = row.password
                  /\ [row EXCEPT !.state = now].profile = row.profile
            BY DEF AccountRows
          <5> QED BY <1>0, <5>1, <5>2
        <4>2. CASE u # v
          BY <1>0, <3>1, <4>2
        <4> QED BY <4>1, <4>2
      <3> QED BY <3>2, SameCredentials
    <2>2. CASE DeleteUser(v)
      <3> DEFINE gone == [NoAccount EXCEPT !.state = "deleted", !.email = users[v].email]
      <3>1. users' = [users EXCEPT ![v] = gone]
        BY <2>2 DEF DeleteUser
      <3>2. gone.state = "deleted"
        BY DEF NoAccount
      <3> HIDE DEF gone
      <3>3. CASE u = v
        BY <1>0, <3>1, <3>2, <3>3 DEF MayTouch
      <3>4. CASE u # v
        <4>1. users'[u] = users[u]
          BY <1>0, <3>1, <3>4
        <4> QED BY <4>1, SameCredentials
      <3> QED BY <3>3, <3>4
    <2>3. CASE AdminResetUserPassword(v)
      BY <1>1, <2>3 DEF AdminResetUserPassword
    <2> QED BY <1>4, <2>1, <2>2, <2>3, Zenon DEF AdminNext
  <1>5. ASSUME NEW e \in Emails, ValidateEmail(e) PROVE Credentials(u)' = Credentials(u)
    <2>1. users'[u] \in {users[u], [users[u] EXCEPT !.verified = TRUE]}
      BY <1>5 DEF ValidateEmail
    <2>2. \A row \in AccountRows :
            /\ [row EXCEPT !.verified = TRUE].password = row.password
            /\ [row EXCEPT !.verified = TRUE].profile = row.profile
      BY DEF AccountRows
    <2>3. users'[u].password = users[u].password /\ users'[u].profile = users[u].profile
      BY <1>0, <2>1, <2>2
    <2> QED BY <2>3, SameCredentials
  <1>6. ASSUME NEW v \in Ids, HandleSocialAuth(v) \/ Login(v)
        PROVE  Credentials(u)' = Credentials(u)
    BY <1>1, <1>6 DEF HandleSocialAuth, Login
  <1>7. ASSUME NEW e \in Emails, ResendEmail(e) \/ LinksExpire(e) \/ RequestPasswordReset(e)
        PROVE  Credentials(u)' = Credentials(u)
    BY <1>1, <1>7 DEF ResendEmail, LinksExpire, RequestPasswordReset
  <1>8. ASSUME NEW k \in CodeKeys, CodeExpires(k) PROVE Credentials(u)' = Credentials(u)
    BY <1>1, <1>8 DEF CodeExpires
  <1> QED BY <1>2, <1>3, <1>4, <1>5, <1>6, <1>7, <1>8 DEF AccountsNext

(* A deactivated account changes its password or profile only by a reset   *)
(* code or by a request that was let through before.                       *)
THEOREM SessionsEndWithAccount == AccountsSpec => SessionsEnd
  <1>1. AccountsInv /\ [AccountsNext]_accountsVars =>
        [\A u \in Ids :
           users[u].state = "inactive" /\ Credentials(u) # Credentials(u)' =>
             \/ users'[u].state = "deleted"
             \/ \E r \in Calls : call[r].phase = "code" \/
                                 (call[r].phase = "admitted" /\ call[r].overtaken)]_accountsVars
    BY InactiveLeftAlone DEF MayTouch
  <1> QED BY <1>1, AccountsStart, AccountsStepKeeps, PTL DEF AccountsSpec, SessionsEnd
================================================================================
