------------------------------ MODULE Accounts -------------------------------
(***************************************************************************)
(* The accounts of apps/web: sign-up, sign-in and sign-out, the links that  *)
(* are mailed, and the changes of password and email with the sessions they *)
(* end.                                                                     *)
(*                                                                         *)
(* A flow of packages/auth is a sequence of calls to the auth service, and  *)
(* each call is a transaction there.  A flow of one call is one action; the *)
(* flows of several are a step per call, and other browsers act in between. *)
(* The service itself is not in the repository: its users, sessions, tokens *)
(* and refusals are modelled from how the flows use them.                   *)
(*                                                                         *)
(* A password is a number, higher for every change, and no two accounts     *)
(* have the same one.  Every account has a password (the OAuth providers    *)
(* ship disabled).                                                          *)
(***************************************************************************)
EXTENDS AuthEmail, FiniteSets

CONSTANTS
    Ids,           \* accounts
    Addresses,
    Browsers,
    Seed,          \* the address of each account of supabase/seed.sql
    HookKeys,      \* the secrets the hook may have been deployed with
    MaxTokens,     \* bound: mails asked for
    MaxPasswords,  \* bound: changes of one account's password
    MaxSessions,   \* bound: sessions that are opened
    MaxFaults      \* bound: refusals, requests that die, mails not taken

ASSUME AccountsAssumption ==
    /\ Ids # {}
    /\ NoAddress \notin Addresses
    /\ NoToken \notin Ids \X Nat \X {"only", "new", "old"}
    /\ Seed \in [Ids -> Addresses \cup {NoAddress}]
    /\ \A a, c \in Ids : Seed[a] = Seed[c] /\ Seed[a] # NoAddress => a = c
    /\ "current" \in HookKeys
    /\ MaxTokens \in Nat /\ MaxPasswords \in Nat
    /\ MaxSessions \in Nat /\ MaxFaults \in Nat

VARIABLES
    users,     \* rows of auth.users
    sessions,  \* rows of auth.sessions
    cookie,    \* the session each browser holds, live or not
    call,      \* the flow of several calls each browser is in
    mails,     \* the messages that have been delivered
    opened,    \* observed: the messages whose link did something
    moved,     \* observed: the email changes that were applied
    setter,    \* observed: the session that set each account's password
    spared,    \* observed: accounts whose last setter revoked nothing
    tokens, opens, faults  \* the bounds used up

observed == <<opened, moved, setter, spared>>
vars == <<users, sessions, cookie, call, mails, observed, tokens, opens, faults>>

NoSession == 0
SessionIds == 1 .. MaxSessions
Tokens == 0 .. MaxTokens   \* 0: none
Halves == {"only", "new", "old"}
Flows == {"change-password", "change-email", "update-password"}
Pcs == {"idle", "reauth", "update", "revoke"}

NoChange == [to |-> NoAddress, n |-> 0, unopened |-> {}]
Idle == [flow |-> "change-password", pc |-> "idle", id |-> CHOOSE a \in Ids : TRUE,
         email |-> NoAddress, to |-> NoAddress, session |-> NoSession]

UserRow == [status : {"none", "unconfirmed", "confirmed"},
            email : Addresses \cup {NoAddress},
            password : 0 .. MaxPasswords,
            signup : Tokens, recovery : Tokens,
            change : [to : Addresses \cup {NoAddress}, n : Tokens,
                      unopened : SUBSET Halves]]
SessionRow == [sid : SessionIds, id : Ids, since : 0 .. MaxPasswords]
Call == [flow : Flows, pc : Pcs, id : Ids, email : Addresses \cup {NoAddress},
         to : Addresses \cup {NoAddress}, session : SessionIds \cup {NoSession}]
Message == [to : Addresses, token : Ids \X Tokens \X Halves, type : ActionTypes]
Move == [id : Ids, n : Tokens, from : Addresses, to : Addresses]

TypeOK ==
    /\ users \in [Ids -> UserRow]
    /\ sessions \subseteq SessionRow
    /\ cookie \in [Browsers -> SessionIds \cup {NoSession}]
    /\ call \in [Browsers -> Call]
    /\ mails \subseteq Message
    /\ opened \subseteq mails
    /\ moved \subseteq Move
    /\ setter \in [Ids -> SessionIds \cup {NoSession}]
    /\ spared \subseteq Ids
    /\ tokens \in Tokens
    /\ opens \in 0 .. MaxSessions
    /\ faults \in 0 .. MaxFaults

Init ==
    /\ users = [a \in Ids |->
                  [status |-> IF Seed[a] = NoAddress THEN "none" ELSE "confirmed",
                   email |-> Seed[a], password |-> 0, signup |-> 0,
                   recovery |-> 0, change |-> NoChange]]
    /\ sessions = {} /\ mails = {} /\ opened = {} /\ moved = {} /\ spared = {}
    /\ cookie = [b \in Browsers |-> NoSession]
    /\ call = [b \in Browsers |-> Idle]
    /\ setter = [a \in Ids |-> NoSession]
    /\ tokens = 0 /\ opens = 0 /\ faults = 0

-----------------------------------------------------------------------------
(* The auth service.                                                        *)

Live(s) == \E x \in sessions : x.sid = s
AccountOf(s) == (CHOOSE x \in sessions : x.sid = s).id
HolderOf(address) == {a \in Ids : users[a].email = address}

\* A new session for a, under the password it has now.
NewSession == opens + 1
OpenSession(a) ==
    /\ opens < MaxSessions
    /\ opens' = NewSession
    /\ sessions' = sessions \cup
          {[sid |-> NewSession, id |-> a, since |-> users[a].password]}

\* The service calls the send-email hook inside its own transaction: unless
\* the hook answers 200 its row stays as it was, but what the provider took
\* has been sent.  During a rotation it signs with both secrets.
Headers == [complete |-> TRUE,
            signature |-> <<[version |-> "v1", key |-> "current"],
                            [version |-> "v1", key |-> "next"]>>]
Mail(a, row, payload) ==
    /\ tokens < MaxTokens
    /\ tokens' = tokens + 1
    /\ \E key \in HookKeys : \E taken \in Taken(payload) :
          LET answer == POST(Headers, key, payload, taken)
          IN /\ mails' = mails \cup answer.sent
             /\ \/ /\ answer.status = 200
                   /\ users' = [users EXCEPT ![a] = row]
                   /\ UNCHANGED faults
                \/ /\ answer.status # 200
                   /\ faults < MaxFaults
                   /\ faults' = faults + 1
                   /\ UNCHANGED users

Payload(type, email, new_email, token, token_new) ==
    [type |-> type, email |-> email, new_email |-> new_email,
     token_hash |-> token, token_hash_new |-> token_new]
Single(type, a, email) ==
    Payload(type, email, NoAddress, <<a, tokens + 1, "only">>, NoToken)

-----------------------------------------------------------------------------
(* Flows of one call.                                                       *)

\* What supabase-js returns for a sign-up, and what the flow makes of it.
\* weak: the password is in the breach corpus; mailed: the hook answers 200.
AuthSignUp(email, weak, mailed) ==
    IF weak THEN "weak_password"
    ELSE IF \E a \in HolderOf(email) : users[a].status = "confirmed"
    THEN "user_already_exists"
    ELSE IF mailed THEN "ok" ELSE "hook_error"

isWeakPasswordError(error) == error = "weak_password"
weakPasswordResult == "invalid-input"
isUserAlreadyExistsError(error) == error \in {"user_already_exists", "email_exists"}

signUpAnswer(email, weak, mailed) ==
    LET error == AuthSignUp(email, weak, mailed)
    IN IF error = "ok" THEN "check-your-email"
       ELSE IF isWeakPasswordError(error) THEN weakPasswordResult
       ELSE IF isUserAlreadyExistsError(error) THEN "check-your-email"
       ELSE "unexpected"

\* A new address gets a row and a link; an unconfirmed one a new link, which
\* is also what resend does; a confirmed one nothing.
SignupLink(a, email, status) ==
    Mail(a, [users[a] EXCEPT !.status = status, !.email = email,
                             !.signup = tokens + 1],
         Single("signup", a, email))

signUp(email) ==
    /\ \/ \E a \in HolderOf(email) : /\ users[a].status = "unconfirmed"
                                     /\ SignupLink(a, email, "unconfirmed")
       \/ \E a \in HolderOf(NoAddress) : /\ HolderOf(email) = {}
                                         /\ SignupLink(a, email, "unconfirmed")
    /\ UNCHANGED <<sessions, cookie, call, observed, opens>>

resendVerification(email) ==
    /\ \E a \in HolderOf(email) : /\ users[a].status = "unconfirmed"
                                  /\ SignupLink(a, email, "unconfirmed")
    /\ UNCHANGED <<sessions, cookie, call, observed, opens>>

requestPasswordReset(email) ==
    /\ \E a \in HolderOf(email) :
          Mail(a, [users[a] EXCEPT !.recovery = tokens + 1],
               Single("recovery", a, email))
    /\ UNCHANGED <<sessions, cookie, call, observed, opens>>

\* The service tells an unconfirmed account apart only to who has its
\* password; the flow tells everything else the same.
AuthSignIn(email, right) ==
    IF \E a \in HolderOf(email) : right /\ users[a].status = "confirmed" THEN "ok"
    ELSE IF \E a \in HolderOf(email) : right THEN "email_not_confirmed"
    ELSE "invalid_credentials"
isNotConfirmedError(error) == error = "email_not_confirmed"
signInAnswer(email, right) ==
    CASE AuthSignIn(email, right) = "ok" -> "ok"
      [] isNotConfirmedError(AuthSignIn(email, right)) -> "not-confirmed"
      [] OTHER -> "invalid-credentials"

signIn(b, email) ==
    /\ signInAnswer(email, TRUE) = "ok"
    /\ \E a \in HolderOf(email) : OpenSession(a)
    /\ cookie' = [cookie EXCEPT ![b] = NewSession]
    /\ UNCHANGED <<users, call, mails, observed, tokens, faults>>

\* Only this device's session.
signOut(b) ==
    /\ cookie[b] # NoSession
    /\ sessions' = {x \in sessions : x.sid # cookie[b]}
    /\ cookie' = [cookie EXCEPT ![b] = NoSession]
    /\ UNCHANGED <<users, call, mails, observed, tokens, opens, faults>>

-----------------------------------------------------------------------------
(* /auth/confirm: a link is opened, in whichever browser.  A link that is    *)
(* used or superseded changes nothing.                                       *)

verifyEmailToken(b, m) ==
    LET a == m.token[1]  n == m.token[2]
    IN /\ users' = [users EXCEPT ![a].status = "confirmed",
                                 ![a].signup = IF m.type = "signup" THEN 0 ELSE @,
                                 ![a].recovery = IF m.type = "recovery" THEN 0 ELSE @]
       /\ \/ m.type = "signup" /\ users[a].signup = n
          \/ m.type = "recovery" /\ users[a].recovery = n
       /\ OpenSession(a)
       /\ cookie' = [cookie EXCEPT ![b] = NewSession]
       /\ UNCHANGED moved

\* The first click of an email change only counts; the second applies it,
\* unless the address has been taken meanwhile.
FirstHalf(m) ==
    LET a == m.token[1]
    IN /\ users[a].change.unopened = {"new", "old"}
       /\ users' = [users EXCEPT ![a].change.unopened = @ \ {m.token[3]}]
       /\ UNCHANGED <<sessions, cookie, moved, opens>>

SecondHalf(b, m) ==
    LET a == m.token[1]  change == users[a].change
    IN /\ change.unopened = {m.token[3]}
       /\ HolderOf(change.to) = {}
       /\ users' = [users EXCEPT ![a].email = change.to, ![a].change = NoChange]
       /\ moved' = moved \cup {[id |-> a, n |-> change.n, to |-> change.to,
                                from |-> users[a].email]}
       /\ OpenSession(a)
       /\ cookie' = [cookie EXCEPT ![b] = NewSession]

OpenLink(b, m) ==
    /\ m \in mails
    /\ \/ verifyEmailToken(b, m)
       \/ /\ m.type = "email_change"
          /\ users[m.token[1]].change.n = m.token[2]
          /\ m.token[3] \in users[m.token[1]].change.unopened
          /\ FirstHalf(m) \/ SecondHalf(b, m)
    /\ opened' = opened \cup {m}
    /\ UNCHANGED <<call, mails, setter, spared, tokens, faults>>

-----------------------------------------------------------------------------
(* Flows of several calls.                                                  *)

\* Deviation: the other sessions are ended before the password is changed.
RevokeFirst(flow, pc) ==
    CASE pc = "reauth" -> IF flow = "change-password" THEN "revoke" ELSE "update"
      [] pc = "revoke" /\ flow = "change-password" -> "update"
      [] OTHER -> "idle"

\* The call that follows the one at pc, when that succeeds.
Then(flow, pc) ==
    CASE pc = "reauth" -> "update"
      [] pc = "update" /\ flow \in {"change-password", "update-password"} -> "revoke"
      [] OTHER -> "idle"

\* The answer writes the cookie of the session the flow ended up with, if a
\* call of the flow got so far as to save one.
Return(b, saved) ==
    /\ call' = [call EXCEPT ![b] = Idle]
    /\ cookie' = [cookie EXCEPT ![b] = IF saved = NoSession THEN @ ELSE saved]
GoOn(b, session) ==
    LET next == Then(call[b].flow, call[b].pc)
    IN IF next = "idle" THEN Return(b, session)
       ELSE /\ call' = [call EXCEPT ![b].pc = next, ![b].session = session]
            /\ UNCHANGED cookie
Saved(b) == IF call[b].flow = "update-password" THEN NoSession ELSE call[b].session

\* getAuthenticatedUser asks the service, so there is none unless the session
\* is live; the flow reads the email there and then.
getAuthenticatedUser(b) == {x.id : x \in {y \in sessions : y.sid = cookie[b]}}

changePassword(b) ==
    /\ call[b].pc = "idle"
    /\ \E a \in getAuthenticatedUser(b) : call' = [call EXCEPT ![b] =
             [flow |-> "change-password", pc |-> "reauth", id |-> a,
              email |-> users[a].email, to |-> NoAddress, session |-> cookie[b]]]
    /\ UNCHANGED <<users, sessions, cookie, mails, observed, tokens, opens, faults>>

changeEmail(b, to) ==
    /\ call[b].pc = "idle"
    /\ \E a \in getAuthenticatedUser(b) :
          /\ to # users[a].email
          /\ call' = [call EXCEPT ![b] =
                [flow |-> "change-email", pc |-> "reauth", id |-> a,
                 email |-> users[a].email, to |-> to, session |-> cookie[b]]]
    /\ UNCHANGED <<users, sessions, cookie, mails, observed, tokens, opens, faults>>

\* updatePassword only looks whether the browser has a session, but with one
\* that has ended updateUser is refused, and the flow changes nothing.
updatePassword(b) ==
    /\ call[b].pc = "idle" /\ Live(cookie[b])
    /\ call' = [call EXCEPT ![b] =
          [flow |-> "update-password", pc |-> "update",
           id |-> AccountOf(cookie[b]), email |-> NoAddress, to |-> NoAddress,
           session |-> cookie[b]]]
    /\ UNCHANGED <<users, sessions, cookie, mails, observed, tokens, opens, faults>>

\* The silent sign-in, with the email as it was read: it opens a session of
\* its own, and the rest of the flow runs under it.
reauthenticateUser(b) ==
    /\ call[b].pc = "reauth"
    /\ \/ /\ users[call[b].id].email = call[b].email
          /\ OpenSession(call[b].id)
          /\ GoOn(b, NewSession)
       \/ \* the wrong password, or an email that has changed since
          /\ Return(b, NoSession)
          /\ UNCHANGED <<sessions, opens>>
    /\ UNCHANGED <<users, mails, observed, tokens, faults>>

\* updateUser with a password.
UpdatePassword(b) ==
    /\ call[b].pc = "update" /\ call[b].flow # "change-email"
    /\ Live(call[b].session)
    /\ users[call[b].id].password < MaxPasswords
    /\ users' = [users EXCEPT ![call[b].id].password = @ + 1]
    /\ setter' = [setter EXCEPT ![call[b].id] = call[b].session]
    /\ GoOn(b, call[b].session)
    /\ UNCHANGED <<sessions, mails, opened, moved, spared, tokens, opens, faults>>

\* updateUser with an email: a token for each side, and a message for each.
UpdateEmail(b) ==
    LET a == call[b].id  n == tokens + 1  to == call[b].to
    IN /\ call[b].pc = "update" /\ call[b].flow = "change-email"
       /\ Live(call[b].session)
       /\ HolderOf(to) = {}
       /\ Mail(a, [users[a] EXCEPT
                     !.change = [to |-> to, n |-> n, unopened |-> {"new", "old"}]],
               Payload("email_change", users[a].email, to,
                       <<a, n, "old">>, <<a, n, "new">>))
       /\ GoOn(b, call[b].session)
       /\ UNCHANGED <<sessions, observed, opens>>

isSessionMissingError(b) == ~ Live(call[b].session)

\* The session has been ended, the password is weak, the address is taken.
UpdateRefused(b) ==
    /\ call[b].pc = "update"
    /\ \/ isSessionMissingError(b)
       \/ call[b].flow # "change-email"
       \/ HolderOf(call[b].to) # {}
    /\ Return(b, Saved(b))
    /\ UNCHANGED <<users, sessions, mails, observed, tokens, opens, faults>>

\* signOut with scope 'others'.  Refused or not, the flow reports success.
RevokeOthers(b) ==
    LET a == call[b].id  mine == call[b].session
    IN /\ call[b].pc = "revoke"
       /\ GoOn(b, mine)
       /\ \/ /\ Live(mine)
             /\ sessions' = {x \in sessions : x.id = a => x.sid = mine}
             /\ spared' = IF setter[a] = mine THEN spared \ {a} ELSE spared
             /\ UNCHANGED faults
          \/ /\ ~ Live(mine) \/ faults < MaxFaults
             /\ faults' = IF Live(mine) THEN faults + 1 ELSE faults
             /\ spared' = IF setter[a] = mine THEN spared \cup {a} ELSE spared
             /\ UNCHANGED sessions
       /\ UNCHANGED <<users, mails, opened, moved, setter, tokens, opens>>

\* The request dies between two calls: what was done stays, and the browser
\* keeps the cookie it had.
Die(b) ==
    /\ call[b].pc \in {"update", "revoke"}
    /\ faults < MaxFaults
    /\ faults' = faults + 1
    /\ call' = [call EXCEPT ![b] = Idle]
    /\ spared' = IF call[b].pc = "revoke" /\ setter[call[b].id] = call[b].session
                 THEN spared \cup {call[b].id} ELSE spared
    /\ UNCHANGED <<users, sessions, cookie, mails, opened, moved, setter, tokens, opens>>

-----------------------------------------------------------------------------
Next ==
    \/ \E email \in Addresses : signUp(email)
    \/ \E email \in Addresses : resendVerification(email)
    \/ \E email \in Addresses : requestPasswordReset(email)
    \/ \E b \in Browsers, email \in Addresses : signIn(b, email)
    \/ \E b \in Browsers : signOut(b)
    \/ \E b \in Browsers, m \in mails : OpenLink(b, m)
    \/ \E b \in Browsers : changePassword(b)
    \/ \E b \in Browsers, to \in Addresses : changeEmail(b, to)
    \/ \E b \in Browsers : updatePassword(b)
    \/ \E b \in Browsers : reauthenticateUser(b)
    \/ \E b \in Browsers : UpdatePassword(b)
    \/ \E b \in Browsers : UpdateEmail(b)
    \/ \E b \in Browsers : UpdateRefused(b)
    \/ \E b \in Browsers : RevokeOthers(b)
    \/ \E b \in Browsers : Die(b)

Spec == Init /\ [][Next]_vars

-----------------------------------------------------------------------------
(* Properties.                                                              *)

\* A password that was changed locks every other device out: unless the
\* revocation itself was refused or the request died before it, no session is
\* left that was opened under an earlier password, but the one that set the
\* new one.  Whatever signed in meanwhile (change-password.ts,
\* update-password.ts: ADR-0003).
OldSessionsEnd ==
    \A a \in Ids :
        \/ a \in spared
        \/ \E b \in Browsers : call[b].pc = "revoke" /\ call[b].id = a
        \/ \A x \in sessions :
              x.id = a => x.since = users[a].password \/ x.sid = setter[a]

\* Nobody has an account under an address whose mail they did not open, and
\* no email was changed without a click from the address it replaced: of both
\* links of one and the same request (change-email.ts: double-confirm;
\* send-email.ts).
AddressesAreProven ==
    /\ \A a \in Ids :
          \/ users[a].status # "confirmed"
          \/ users[a].email = Seed[a]
          \/ \E m \in opened : m.to = users[a].email /\ m.token[1] = a
    /\ \A c \in moved : \A half \in {"new", "old"} :
          \E m \in opened : /\ m.token = <<c.id, c.n, half>>
                            /\ m.to = IF half = "new" THEN c.to ELSE c.from

=============================================================================
