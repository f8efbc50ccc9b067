------------------------------ MODULE Web_proofs -------------------------------
(***************************************************************************)
(* What holds of apps/web for any number of browsers, tabs, accounts,       *)
(* addresses and mails: first the accounts and their sessions, then the     *)
(* pages.                                                                   *)
(*                                                                         *)
(* Accounts.  The invariant is one about a single row of auth.users: the    *)
(* links of its current requests were sent to the addresses that they       *)
(* prove, and each half of an email change that was clicked is recorded.    *)
(* It survives mails with a new token and links that are opened, so that a  *)
(* step only has to say what it does to the one row it changes.             *)
(*                                                                         *)
(* Pages.  The invariant is one about a single tab and the sessions: a tab  *)
(* that keeps its layout has a session unless that was changed elsewhere,   *)
(* and a tab that a link led to has the session of the link.  A step either *)
(* leaves a tab as it is, or tells it that the session has changed, or is   *)
(* a step of that tab; each case is a lemma.                                *)
(***************************************************************************)
EXTENDS Accounts, WebPages, TLAPS

-----------------------------------------------------------------------------
(* The accounts: what the helpers of the flows do.                          *)

LEMMA FirstState == Init => TypeOK
<1>1. Idle \in Call
  BY AccountsAssumption DEF Idle, Call, Flows, Pcs, NoSession
<1>2. NoChange \in [to : Addresses \cup {NoAddress}, n : Tokens, unopened : SUBSET Halves]
  BY AccountsAssumption DEF NoChange, Tokens
<1>3. ASSUME NEW a \in Ids, Init PROVE users[a] \in UserRow
  <2>1. Seed[a] \in Addresses \cup {NoAddress} /\ 0 \in Tokens /\ 0 \in 0 .. MaxPasswords
    BY AccountsAssumption DEF Tokens
  <2> QED BY <1>2, <1>3, <2>1 DEF Init, UserRow
<1>4. Init => users \in [Ids -> UserRow]
  BY <1>3 DEF Init
<1>5. 0 \in Tokens /\ 0 \in 0 .. MaxSessions /\ 0 \in 0 .. MaxFaults
  BY AccountsAssumption DEF Tokens
<1> QED BY <1>1, <1>4, <1>5 DEF Init, TypeOK, NoSession

\* The service opens a session under the password of the moment.
LEMMA Opens ==
    ASSUME TypeOK, NEW a \in Ids, OpenSession(a)
    PROVE  /\ opens' \in 0 .. MaxSessions /\ NewSession \in SessionIds
           /\ sessions' \subseteq SessionRow
           /\ \A s \in sessions' : \/ s \in sessions
                                   \/ s.id = a /\ s.since = users[a].password
<1>1. NewSession \in SessionIds /\ opens' \in 0 .. MaxSessions
  BY AccountsAssumption DEF TypeOK, OpenSession, NewSession, SessionIds
<1>2. users[a].password \in 0 .. MaxPasswords
  BY DEF TypeOK, UserRow
<1> QED BY <1>1, <1>2 DEF TypeOK, OpenSession, SessionRow

\* Who asks with a live session is the account of one.
LEMMA Users ==
    ASSUME TypeOK, NEW b \in Browsers
    PROVE  /\ \A a \in getAuthenticatedUser(b) :
                a \in Ids /\ \E s \in sessions : s.id = a
           /\ Live(cookie[b]) =>
                /\ AccountOf(cookie[b]) \in Ids
                /\ \E s \in sessions : s.id = AccountOf(cookie[b])
<1>1. \A s \in sessions : s.id \in Ids
  BY DEF TypeOK, SessionRow
<1> QED BY <1>1 DEF getAuthenticatedUser, Live, AccountOf

\* A flow goes on for the same account to the same address, or is over.
CallMoves ==
    \A b \in Browsers :
        \/ call'[b] \in {call[b], Idle}
        \/ /\ call[b].pc # "idle"
           /\ call'[b].id = call[b].id /\ call'[b].flow = call[b].flow
           /\ call'[b].to = call[b].to

\* A flow goes on to the call that Then names, or the browser has its answer.
LEMMA Goes ==
    ASSUME TypeOK, NEW b \in Browsers, NEW s \in SessionIds \cup {NoSession},
           \/ GoOn(b, s)
           \/ Return(b, s)
           \/ call' = [call EXCEPT ![b] = Idle] /\ UNCHANGED cookie
    PROVE  /\ call' \in [Browsers -> Call]
           /\ cookie' \in [Browsers -> SessionIds \cup {NoSession}]
           /\ \A c \in Browsers \ {b} : call'[c] = call[c]
           /\ \/ call'[b] = Idle
              \/ /\ GoOn(b, s)
                 /\ call'[b] = [call[b] EXCEPT !.pc = Then(call[b].flow, call[b].pc),
                                               !.session = s]
           /\ call[b].pc # "idle" => CallMoves
<1>1. Idle \in Call
  BY AccountsAssumption DEF Idle, Call, Flows, Pcs, NoSession
<1>2. Then(call[b].flow, call[b].pc) \in Pcs
  BY DEF Then, Pcs
<1>3. call[b] \in Call
  BY DEF TypeOK
<1>4. [call[b] EXCEPT !.pc = Then(call[b].flow, call[b].pc), !.session = s] \in Call
  BY <1>2, <1>3 DEF Call
<1>5. /\ call' \in [Browsers -> Call]
      /\ cookie' \in [Browsers -> SessionIds \cup {NoSession}]
      /\ \A c \in Browsers \ {b} : call'[c] = call[c]
      /\ \/ call'[b] = Idle
         \/ /\ GoOn(b, s)
            /\ call'[b] = [call[b] EXCEPT !.pc = Then(call[b].flow, call[b].pc),
                                          !.session = s]
  BY <1>1, <1>4 DEF TypeOK, GoOn, Return
<1>6. call[b].pc # "idle" => CallMoves
  <2>1. \/ call'[b] = Idle
        \/ /\ call'[b].id = call[b].id /\ call'[b].flow = call[b].flow
           /\ call'[b].to = call[b].to
    BY <1>3, <1>5 DEF Call
  <2> QED BY <1>5, <2>1 DEF CallMoves
<1> QED BY <1>5, <1>6

-----------------------------------------------------------------------------
(* The mails.                                                               *)

\* A recovery or signup mail is one message, to the address it is about.
LEMMA OneMessage ==
    ASSUME NEW type \in {"signup", "recovery"}, NEW a, NEW email
    PROVE  buildAuthEmail(Single(type, a, email)) =
               <<[to |-> email, token |-> <<a, tokens + 1, "only">>, type |-> type]>>
BY DEF buildAuthEmail, Single, Payload, ActionTypes, verifyMessage

\* An email change is two messages, one to each side.
LEMMA TwoMessages ==
    ASSUME NEW a \in Ids, NEW to \in Addresses, NEW email, tokens \in Nat
    PROVE  buildAuthEmail(Payload("email_change", email, to, <<a, tokens + 1, "old">>,
                                  <<a, tokens + 1, "new">>)) =
             <<[to |-> to, token |-> <<a, tokens + 1, "new">>, type |-> "email_change"],
               [to |-> email, token |-> <<a, tokens + 1, "old">>, type |-> "email_change"]>>
<1>1. <<a, tokens + 1, "new">> # NoToken /\ to # NoAddress
  BY AccountsAssumption
<1> QED BY <1>1 DEF buildAuthEmail, buildEmailChangeMessages, Payload, verifyMessage

\* What a call of the hook leaves: a token more, some of its messages, and the
\* row the service asked for or the one it had.
LEMMA HookCalls ==
    ASSUME TypeOK, NEW a, NEW row, NEW payload, Mail(a, row, payload)
    PROVE  /\ tokens \in Nat /\ tokens' = tokens + 1 /\ tokens' \in Tokens
           /\ faults' \in 0 .. MaxFaults
           /\ users' = users \/ users' = [users EXCEPT ![a] = row]
           /\ mails \subseteq mails'
           /\ \A m \in mails' \ mails : \E i \in 1 .. Len(buildAuthEmail(payload)) :
                 m = buildAuthEmail(payload)[i]
<1>1. tokens \in Nat /\ tokens' = tokens + 1 /\ tokens' \in Tokens
  BY AccountsAssumption DEF TypeOK, Mail, Tokens
<1>2. faults' \in 0 .. MaxFaults /\ (users' = users \/ users' = [users EXCEPT ![a] = row])
  BY AccountsAssumption DEF TypeOK, Mail
<1>3. PICK key \in HookKeys, taken \in Taken(payload) :
         mails' = mails \cup POST(Headers, key, payload, taken).sent
  BY DEF Mail
<1>4. ASSUME NEW m \in POST(Headers, key, payload, taken).sent
      PROVE  \E i \in 1 .. Len(buildAuthEmail(payload)) : m = buildAuthEmail(payload)[i]
  <2>1. POST(Headers, key, payload, taken).sent
          \subseteq {buildAuthEmail(payload)[i] : i \in 1 .. taken}
    BY DEF POST, handleSendEmailHook
  <2>2. taken \in 0 .. Len(buildAuthEmail(payload))
    BY DEF Taken
  <2>3. PICK i \in 1 .. taken : m = buildAuthEmail(payload)[i]
    BY <1>4, <2>1
  <2>4. Len(buildAuthEmail(payload)) \in Nat
    BY DEF buildAuthEmail, buildEmailChangeMessages
  <2> QED BY <2>2, <2>3, <2>4
<1> QED BY <1>1, <1>2, <1>3, <1>4

-----------------------------------------------------------------------------
(* What is true of an account, of the mails that were sent for it and of who *)
(* acts for it.  Whoever holds a link of the current request is at the       *)
(* address that the link is to prove, whatever was sent or opened before.   *)

\* The address that a half of the email change of row u is sent to.
Side(u, half) == IF half = "new" THEN u.change.to ELSE u.email

\* Row u of account a, when ms were sent, os opened and t tokens made.
LinksFit(a, u, ms) ==
    /\ \A m \in ms :
          (/\ m.token[1] = a /\ u.status # "confirmed"
           /\ \/ m.type = "signup" /\ m.token[2] = u.signup
              \/ m.type = "recovery" /\ m.token[2] = u.recovery) => m.to = u.email
    /\ \A m \in ms :
          (/\ m.token[1] = a /\ m.type = "email_change"
           /\ m.token[2] = u.change.n) => m.to = Side(u, m.token[3])
HalvesFit(a, u, os) ==
    u.change.n # 0 =>
        /\ u.change.to \in Addresses
        /\ \A half \in {"new", "old"} \ u.change.unopened :
              \E m \in os : m.token = <<a, u.change.n, half>> /\ m.to = Side(u, half)
StatusFits(u) ==
    /\ (u.status = "none") <=> (u.email = NoAddress)
    /\ u.status = "none" => u.signup = 0 /\ u.recovery = 0
    /\ u.status # "confirmed" => u.change = NoChange
    /\ u.change.unopened \subseteq {"new", "old"}
TokensFit(u, t) == u.signup <= t /\ u.recovery <= t /\ u.change.n <= t
Proven(a, u, os) ==
    \/ u.status # "confirmed" \/ u.email = Seed[a]
    \/ \E m \in os : m.to = u.email /\ m.token[1] = a
RowFits(a, u, ms, os, t) ==
    LinksFit(a, u, ms) /\ HalvesFit(a, u, os) /\ StatusFits(u) /\ TokensFit(u, t)
    /\ Proven(a, u, os)

RowsFit == \A a \in Ids : RowFits(a, users[a], mails, opened, tokens)
OneHolder ==
    \A a, c \in Ids : users[a].email = users[c].email /\ users[a].email # NoAddress => a = c
MailsFit == \A m \in mails : m.token[2] \in 1 .. tokens
SessionsFit == \A s \in sessions : users[s.id].status = "confirmed"
CallFits(c) ==
    /\ c.pc # "idle" => users[c.id].status = "confirmed"
    /\ c.flow = "change-email" => c.to \in Addresses
CallsFit == \A b \in Browsers : CallFits(call[b])
MovesFit ==
    \A c \in moved : \A half \in {"new", "old"} :
        \E m \in opened : /\ m.token = <<c.id, c.n, half>>
                          /\ m.to = IF half = "new" THEN c.to ELSE c.from
AccountInv ==
    TypeOK /\ RowsFit /\ OneHolder /\ MailsFit /\ SessionsFit /\ CallsFit /\ MovesFit

\* A row goes on fitting when mails with a new token are sent and others are
\* opened.
LEMMA RowStays ==
    ASSUME NEW a, NEW u \in UserRow, NEW ms, NEW ms2, NEW os, NEW os2,
           NEW t \in Nat, NEW t2 \in {t, t + 1},
           RowFits(a, u, ms, os, t),
           \A m \in ms2 \ ms : m.token[2] = t + 1, os \subseteq os2
    PROVE  RowFits(a, u, ms2, os2, t2)
<1>1. u.signup \in Nat /\ u.recovery \in Nat /\ u.change.n \in Nat
  BY AccountsAssumption DEF UserRow, Tokens
<1>2. /\ u.signup <= t /\ u.recovery <= t /\ u.change.n <= t
  BY DEF RowFits, TokensFit
<1>3. t + 1 # u.signup /\ t + 1 # u.recovery /\ t + 1 # u.change.n /\ TokensFit(u, t2)
  BY <1>1, <1>2 DEF TokensFit
<1>4. LinksFit(a, u, ms2)
  <2>1. LinksFit(a, u, ms)
    BY DEF RowFits
  <2> QED BY <1>3, <2>1 DEF LinksFit
<1>5. HalvesFit(a, u, os2) /\ Proven(a, u, os2) /\ StatusFits(u)
  BY DEF RowFits, HalvesFit, Proven
<1> QED BY <1>3, <1>4, <1>5 DEF RowFits

\* A call of the hook, for a row that fits once the token is made.
LEMMA MailKeeps ==
    ASSUME AccountInv, NEW a \in Ids, NEW row, NEW payload, Mail(a, row, payload),
           opened' = opened,
           tokens + 1 \in Tokens => row \in UserRow,
           \A i \in 1 .. Len(buildAuthEmail(payload)) :
              /\ tokens + 1 \in Tokens => buildAuthEmail(payload)[i] \in Message
              /\ buildAuthEmail(payload)[i].token[2] = tokens + 1,
           RowFits(a, row, mails', opened, tokens + 1),
           row.email = users[a].email \/ HolderOf(row.email) = {},
           users[a].status = "confirmed" => row.status = "confirmed"
    PROVE  /\ users' \in [Ids -> UserRow] /\ mails' \subseteq Message
           /\ mails \subseteq mails' /\ tokens' \in Tokens /\ faults' \in 0 .. MaxFaults
           /\ RowsFit' /\ OneHolder' /\ MailsFit'
           /\ \A c \in Ids : users[c].status = "confirmed" => users'[c].status = "confirmed"
<1>1. TypeOK /\ RowsFit /\ OneHolder /\ MailsFit
  BY DEF AccountInv
<1>2. /\ tokens \in Nat /\ tokens' = tokens + 1 /\ tokens' \in Tokens
      /\ faults' \in 0 .. MaxFaults /\ mails \subseteq mails'
      /\ users' = users \/ users' = [users EXCEPT ![a] = row]
  BY <1>1, HookCalls
<1>3. \A m \in mails' \ mails : m \in Message /\ m.token[2] = tokens + 1
  BY <1>1, <1>2, HookCalls
<1>4. users \in [Ids -> UserRow] /\ row \in UserRow /\ mails \subseteq Message
  BY <1>1, <1>2 DEF TypeOK
<1>5. mails' \subseteq Message /\ users' \in [Ids -> UserRow]
  BY <1>2, <1>3, <1>4
<1>6. RowsFit'
  <2> SUFFICES ASSUME NEW c \in Ids PROVE RowFits(c, users'[c], mails', opened', tokens')
    BY DEF RowsFit
  <2>1. RowFits(c, users[c], mails', opened, tokens + 1)
    <3>1. users[c] \in UserRow /\ RowFits(c, users[c], mails, opened, tokens)
      BY <1>1, <1>4 DEF RowsFit
    <3> QED BY <1>2, <1>3, <3>1, RowStays
  <2>2. users'[c] = users[c] \/ (c = a /\ users'[c] = row)
    BY <1>2, <1>4
  <2> QED BY <1>2, <2>1, <2>2
<1>7. OneHolder'
  <2> SUFFICES ASSUME NEW c \in Ids, NEW d \in Ids,
                      users'[c].email = users'[d].email, users'[c].email # NoAddress
               PROVE  c = d
    BY DEF OneHolder
  <2>1. CASE users' = users
    BY <1>1, <2>1 DEF OneHolder
  <2>2. CASE users' = [users EXCEPT ![a] = row]
    <3>1. \A e \in Ids : e # a => users'[e] = users[e]
      BY <1>4, <2>2
    <3>2. users'[a] = row
      BY <1>4, <2>2
    <3>3. CASE row.email = users[a].email
      BY <1>1, <3>1, <3>2, <3>3 DEF OneHolder
    <3>4. CASE HolderOf(row.email) = {}
      BY <1>1, <3>1, <3>2, <3>4 DEF OneHolder, HolderOf
    <3> QED BY <3>3, <3>4
  <2> QED BY <1>2, <2>1, <2>2
<1>8. MailsFit'
  BY <1>1, <1>2, <1>3 DEF MailsFit
<1>9. \A c \in Ids : users[c].status = "confirmed" => users'[c].status = "confirmed"
  BY <1>2, <1>4
<1> QED BY <1>2, <1>5, <1>6, <1>7, <1>8, <1>9

\* Who may act stays confirmed.
LEMMA RestKeeps ==
    ASSUME AccountInv,
           \A c \in Ids : users[c].status = "confirmed" => users'[c].status = "confirmed",
           CallMoves,
           \A s \in sessions' \ sessions : users'[s.id].status = "confirmed",
           opened \subseteq opened', moved' = moved
    PROVE  SessionsFit' /\ CallsFit' /\ MovesFit'
<1>1. TypeOK /\ SessionsFit /\ CallsFit /\ MovesFit
  BY DEF AccountInv
<1>2. SessionsFit'
  BY <1>1 DEF SessionsFit, TypeOK, SessionRow
<1>3. CallsFit'
  <2> SUFFICES ASSUME NEW b \in Browsers PROVE CallFits(call[b])'
    BY DEF CallsFit
  <2>1. CallFits(call[b]) /\ call[b].id \in Ids
    BY <1>1 DEF CallsFit, TypeOK, Call
  <2>2. Idle.pc = "idle" /\ Idle.flow # "change-email"
    BY DEF Idle
  <2> QED BY <2>1, <2>2 DEF CallFits, CallMoves
<1>4. MovesFit'
  BY <1>1 DEF MovesFit
<1> QED BY <1>2, <1>3, <1>4

\* Steps that change no account and send nothing.
LEMMA QuietKeeps ==
    ASSUME AccountInv, TypeOK', UNCHANGED <<users, mails, opened, moved, tokens>>,
           CallMoves, \A s \in sessions' \ sessions : users[s.id].status = "confirmed"
    PROVE  AccountInv'
<1>1. RowsFit' /\ OneHolder' /\ MailsFit'
  BY DEF AccountInv, RowsFit, OneHolder, MailsFit
<1>2. SessionsFit' /\ CallsFit' /\ MovesFit'
  BY RestKeeps
<1> QED BY <1>1, <1>2 DEF AccountInv

-----------------------------------------------------------------------------
(* One action at a time: those that mail.                                   *)

LEMMA SignupKeeps ==
    ASSUME AccountInv, NEW a \in Ids, NEW email \in Addresses,
           \/ users[a].status = "unconfirmed" /\ users[a].email = email
           \/ users[a].email = NoAddress /\ HolderOf(email) = {},
           SignupLink(a, email, "unconfirmed"),
           UNCHANGED <<sessions, cookie, call, observed, opens>>
    PROVE  AccountInv'
<1> DEFINE row == [users[a] EXCEPT !.status = "unconfirmed", !.email = email,
                                   !.signup = tokens + 1]
           payload == Single("signup", a, email)
           message == [to |-> email, token |-> <<a, tokens + 1, "only">>, type |-> "signup"]
<1>1. TypeOK /\ RowsFit /\ MailsFit /\ Mail(a, row, payload)
  BY DEF AccountInv, SignupLink
<1>2. users[a] \in UserRow /\ RowFits(a, users[a], mails, opened, tokens) /\ tokens \in Nat
  BY <1>1, HookCalls DEF TypeOK, RowsFit
<1>3. buildAuthEmail(payload) = <<message>>
  BY OneMessage
<1>4. /\ row.status = "unconfirmed" /\ row.email = email /\ row.signup = tokens + 1
      /\ row.recovery = users[a].recovery /\ row.change = users[a].change
      /\ tokens + 1 \in Tokens => row \in UserRow
  BY <1>2 DEF UserRow
<1>5. tokens + 1 \in Tokens => message \in Message
  BY DEF Message, ActionTypes, Halves
<1>6. users[a].status # "confirmed" /\ users[a].change = NoChange
      /\ users[a].recovery \in Nat /\ users[a].recovery <= tokens
  BY <1>2, AccountsAssumption DEF RowFits, StatusFits, TokensFit, UserRow, Tokens
<1>7. \A m \in mails' : m = message \/ (m \in mails /\ m.token[2] \in 1 .. tokens)
  BY <1>1, <1>3, HookCalls DEF MailsFit
<1>8. RowFits(a, row, mails', opened, tokens + 1)
  <2>1. LinksFit(a, row, mails')
    <3> SUFFICES ASSUME NEW m \in mails', m.token[1] = a
                 PROVE  /\ m.type = "signup" /\ m.token[2] = row.signup => m.to = row.email
                        /\ m.type = "recovery" /\ m.token[2] = row.recovery => m.to = row.email
                        /\ m.type = "email_change" => m.token[2] # row.change.n
      BY DEF LinksFit
    <3>1. CASE m = message
      BY <1>2, <1>4, <1>6, <3>1 DEF NoChange
    <3>2. CASE m \in mails /\ m.token[2] \in 1 .. tokens
      <4>1. m.token[2] # row.signup /\ m.token[2] # row.change.n
        BY <1>2, <1>4, <1>6, <3>2 DEF NoChange
      <4>2. CASE users[a].status = "unconfirmed" /\ users[a].email = email
        BY <1>2, <1>4, <3>2, <4>1, <4>2 DEF RowFits, LinksFit
      <4>3. CASE users[a].email = NoAddress
        BY <1>2, <1>4, <3>2, <4>1, <4>3 DEF RowFits, StatusFits
      <4> QED BY <4>1, <4>2, <4>3
    <3> QED BY <1>7, <3>1, <3>2
  <2>2. HalvesFit(a, row, opened) /\ StatusFits(row) /\ Proven(a, row, opened)
    BY <1>4, <1>6, AccountsAssumption DEF HalvesFit, StatusFits, Proven, NoChange
  <2>3. TokensFit(row, tokens + 1)
    BY <1>2, <1>4, <1>6 DEF TokensFit, NoChange
  <2> QED BY <2>1, <2>2, <2>3 DEF RowFits
<1>9. row.email = users[a].email \/ HolderOf(row.email) = {}
  BY <1>4
<1>10. /\ users' \in [Ids -> UserRow] /\ mails' \subseteq Message
       /\ mails \subseteq mails' /\ tokens' \in Tokens /\ faults' \in 0 .. MaxFaults
       /\ RowsFit' /\ OneHolder' /\ MailsFit'
       /\ \A c \in Ids : users[c].status = "confirmed" => users'[c].status = "confirmed"
  <2> HIDE DEF row, payload, message
  <2>1. \A i \in 1 .. Len(buildAuthEmail(payload)) : buildAuthEmail(payload)[i] = message
    BY <1>3
  <2>2. message.token[2] = tokens + 1
    BY DEF message
  <2>3. opened' = opened
    BY DEF observed
  <2> QED BY <1>1, <1>4, <1>5, <1>6, <1>8, <1>9, <2>1, <2>2, <2>3, MailKeeps
<1>11. TypeOK'
  BY <1>1, <1>10 DEF TypeOK, observed
<1>12. SessionsFit' /\ CallsFit' /\ MovesFit'
  BY <1>10, RestKeeps DEF CallMoves, observed
<1> QED BY <1>10, <1>11, <1>12 DEF AccountInv

LEMMA RecoveryKeeps ==
    ASSUME AccountInv, NEW email \in Addresses, requestPasswordReset(email)
    PROVE  AccountInv'
<1>1. PICK a \in HolderOf(email) :
         Mail(a, [users[a] EXCEPT !.recovery = tokens + 1], Single("recovery", a, email))
  BY DEF requestPasswordReset
<1> DEFINE row == [users[a] EXCEPT !.recovery = tokens + 1]
           payload == Single("recovery", a, email)
           message == [to |-> email, token |-> <<a, tokens + 1, "only">>, type |-> "recovery"]
<1>2. TypeOK /\ RowsFit /\ MailsFit /\ Mail(a, row, payload) /\ a \in Ids
      /\ users[a].email = email
  BY <1>1 DEF AccountInv, HolderOf
<1>3. users[a] \in UserRow /\ RowFits(a, users[a], mails, opened, tokens) /\ tokens \in Nat
  BY <1>2, HookCalls DEF TypeOK, RowsFit
<1>4. buildAuthEmail(payload) = <<message>>
  BY OneMessage
<1>5. /\ row.status = users[a].status /\ row.email = email /\ row.signup = users[a].signup
      /\ row.recovery = tokens + 1 /\ row.change = users[a].change
      /\ tokens + 1 \in Tokens => row \in UserRow
  BY <1>2, <1>3 DEF UserRow
<1>6. tokens + 1 \in Tokens => message \in Message
  BY <1>2 DEF Message, ActionTypes, Halves
<1>7. /\ users[a].signup \in Nat /\ users[a].signup <= tokens
      /\ users[a].change.n \in Nat /\ users[a].change.n <= tokens
      /\ users[a].status # "none"
  BY <1>2, <1>3, AccountsAssumption DEF RowFits, StatusFits, TokensFit, UserRow, Tokens
<1>8. \A m \in mails' : m = message \/ (m \in mails /\ m.token[2] \in 1 .. tokens)
  BY <1>2, <1>4, HookCalls DEF MailsFit
<1>9. RowFits(a, row, mails', opened, tokens + 1)
  <2>1. LinksFit(a, row, mails')
    <3>1. LinksFit(a, users[a], mails)
      BY <1>3 DEF RowFits
    <3> QED BY <1>3, <1>5, <1>7, <1>8, <3>1 DEF LinksFit, Side
  <2>2. HalvesFit(a, row, opened) /\ StatusFits(row) /\ Proven(a, row, opened)
    BY <1>2, <1>3, <1>5, <1>7 DEF RowFits, HalvesFit, StatusFits, Proven, Side
  <2>3. TokensFit(row, tokens + 1)
    BY <1>3, <1>5, <1>7 DEF TokensFit
  <2> QED BY <2>1, <2>2, <2>3 DEF RowFits
<1>10. /\ users' \in [Ids -> UserRow] /\ mails' \subseteq Message
       /\ mails \subseteq mails' /\ tokens' \in Tokens /\ faults' \in 0 .. MaxFaults
       /\ RowsFit' /\ OneHolder' /\ MailsFit'
       /\ \A c \in Ids : users[c].status = "confirmed" => users'[c].status = "confirmed"
  <2> HIDE DEF row, payload, message
  <2>1. \A i \in 1 .. Len(buildAuthEmail(payload)) : buildAuthEmail(payload)[i] = message
    BY <1>4
  <2>2. message.token[2] = tokens + 1
    BY DEF message
  <2>3. opened' = opened
    BY DEF requestPasswordReset, observed
  <2> QED BY <1>2, <1>5, <1>6, <1>9, <2>1, <2>2, <2>3, MailKeeps
<1>11. UNCHANGED <<sessions, cookie, call, opened, moved, setter, spared, opens>>
  BY DEF requestPasswordReset, observed
<1>12. TypeOK'
  BY <1>2, <1>10, <1>11 DEF TypeOK
<1>13. SessionsFit' /\ CallsFit' /\ MovesFit'
  BY <1>10, <1>11, RestKeeps DEF CallMoves
<1> QED BY <1>10, <1>12, <1>13 DEF AccountInv

LEMMA ChangeKeeps ==
    ASSUME AccountInv, NEW b \in Browsers, UpdateEmail(b)
    PROVE  AccountInv'
<1> DEFINE a == call[b].id  to == call[b].to  n == tokens + 1
           row == [users[a] EXCEPT
                     !.change = [to |-> to, n |-> n, unopened |-> {"new", "old"}]]
           payload == Payload("email_change", users[a].email, to,
                              <<a, n, "old">>, <<a, n, "new">>)
           New == [to |-> to, token |-> <<a, n, "new">>, type |-> "email_change"]
           Old == [to |-> users[a].email, token |-> <<a, n, "old">>, type |-> "email_change"]
<1>1. TypeOK /\ RowsFit /\ MailsFit /\ CallsFit
  BY DEF AccountInv
<1>2. /\ Mail(a, row, payload) /\ call[b].pc # "idle" /\ GoOn(b, call[b].session)
      /\ call[b].flow = "change-email"
      /\ UNCHANGED <<sessions, opened, moved, setter, spared, opens>>
  BY DEF UpdateEmail, observed
<1>3. /\ a \in Ids /\ call[b].session \in SessionIds \cup {NoSession}
      /\ users[a].status = "confirmed" /\ to \in Addresses
  BY <1>1, <1>2 DEF TypeOK, Call, CallsFit, CallFits
<1>4. users[a] \in UserRow /\ RowFits(a, users[a], mails, opened, tokens) /\ tokens \in Nat
  BY <1>1, <1>2, <1>3, HookCalls DEF TypeOK, RowsFit
<1>5. buildAuthEmail(payload) = <<New, Old>>
  BY <1>3, <1>4, TwoMessages
<1>6. /\ row.status = "confirmed" /\ row.email = users[a].email
      /\ row.signup = users[a].signup /\ row.recovery = users[a].recovery
      /\ row.change = [to |-> to, n |-> n, unopened |-> {"new", "old"}]
      /\ n \in Tokens => row \in UserRow
  BY <1>3, <1>4 DEF UserRow, Halves
<1>7. users[a].email \in Addresses
  BY <1>3, <1>4 DEF RowFits, StatusFits, UserRow
<1>8. n \in Tokens => New \in Message /\ Old \in Message
  BY <1>3, <1>7 DEF Message, ActionTypes, Halves
<1>9. \A m \in mails' : m \in {New, Old} \/ (m \in mails /\ m.token[2] \in 1 .. tokens)
  BY <1>1, <1>2, <1>5, HookCalls DEF MailsFit
<1>10. RowFits(a, row, mails', opened, n)
  <2>1. LinksFit(a, row, mails')
    BY <1>4, <1>6, <1>9 DEF LinksFit, Side
  <2>2. HalvesFit(a, row, opened) /\ StatusFits(row) /\ Proven(a, row, opened)
    BY <1>3, <1>4, <1>6 DEF RowFits, HalvesFit, StatusFits, Proven
  <2>3. TokensFit(row, n)
    <3>1. /\ users[a].signup \in Nat /\ users[a].signup <= tokens
          /\ users[a].recovery \in Nat /\ users[a].recovery <= tokens
      BY <1>4, AccountsAssumption DEF RowFits, TokensFit, UserRow, Tokens
    <3> QED BY <1>4, <1>6, <3>1 DEF TokensFit
  <2> QED BY <2>1, <2>2, <2>3 DEF RowFits
<1>11. /\ users' \in [Ids -> UserRow] /\ mails' \subseteq Message
       /\ mails \subseteq mails' /\ tokens' \in Tokens /\ faults' \in 0 .. MaxFaults
       /\ RowsFit' /\ OneHolder' /\ MailsFit'
       /\ \A c \in Ids : users[c].status = "confirmed" => users'[c].status = "confirmed"
  <2>1. New.token[2] = n /\ Old.token[2] = n
    OBVIOUS
  <2> HIDE DEF row, payload, New, Old
  <2>2. \A i \in 1 .. Len(buildAuthEmail(payload)) : buildAuthEmail(payload)[i] \in {New, Old}
    BY <1>5
  <2> HIDE DEF a
  <2> QED BY <1>2, <1>3, <1>6, <1>8, <1>10, <2>1, <2>2, MailKeeps
<1>12. /\ call' \in [Browsers -> Call] /\ cookie' \in [Browsers -> SessionIds \cup {NoSession}]
       /\ CallMoves
  BY <1>1, <1>2, <1>3, Goes
<1>13. TypeOK'
  BY <1>1, <1>2, <1>11, <1>12 DEF TypeOK
<1>14. SessionsFit' /\ CallsFit' /\ MovesFit'
  BY <1>2, <1>11, <1>12, RestKeeps
<1> QED BY <1>11, <1>13, <1>14 DEF AccountInv

-----------------------------------------------------------------------------
(* Those that change an account themselves.                                 *)

LEMMA RowKeeps ==
    ASSUME AccountInv, NEW a \in Ids, NEW row \in UserRow,
           users' = [users EXCEPT ![a] = row], UNCHANGED <<mails, tokens>>,
           opened \subseteq opened', opened' \subseteq mails,
           RowFits(a, row, mails, opened', tokens),
           row.email = users[a].email \/ HolderOf(row.email) = {},
           users[a].status = "confirmed" => row.status = "confirmed"
    PROVE  /\ users' \in [Ids -> UserRow]
           /\ RowsFit' /\ OneHolder' /\ MailsFit'
           /\ \A c \in Ids : users[c].status = "confirmed" => users'[c].status = "confirmed"
<1>1. /\ users \in [Ids -> UserRow] /\ tokens \in Nat
      /\ RowsFit /\ OneHolder /\ MailsFit
  BY AccountsAssumption DEF AccountInv, TypeOK, Tokens
<1>2. users'[a] = row /\ \A c \in Ids \ {a} : users'[c] = users[c]
  BY <1>1
<1>3. RowsFit'
  <2> SUFFICES ASSUME NEW c \in Ids PROVE RowFits(c, users'[c], mails', opened', tokens')
    BY DEF RowsFit
  <2>1. CASE c = a
    BY <1>2, <2>1
  <2>2. CASE c # a
    <3>1. users[c] \in UserRow /\ RowFits(c, users[c], mails, opened, tokens)
      BY <1>1 DEF RowsFit
    <3>2. RowFits(c, users[c], mails, opened', tokens)
      BY <1>1, <3>1, RowStays
    <3> QED BY <1>2, <2>2, <3>2
  <2> QED BY <2>1, <2>2
<1>4. OneHolder'
  <2>1. CASE row.email = users[a].email
    BY <1>1, <1>2, <2>1 DEF OneHolder
  <2>2. CASE HolderOf(row.email) = {}
    BY <1>1, <1>2, <2>2 DEF OneHolder, HolderOf
  <2> QED BY <2>1, <2>2
<1> QED BY <1>1, <1>2, <1>3, <1>4 DEF MailsFit

LEMMA PasswordKeeps ==
    ASSUME AccountInv, NEW b \in Browsers, UpdatePassword(b)
    PROVE  AccountInv'
<1> DEFINE a == call[b].id
           row == [users[a] EXCEPT !.password = @ + 1]
<1>1. TypeOK /\ RowsFit
  BY DEF AccountInv
<1>2. /\ call[b] \in Call /\ a \in Ids /\ users[a] \in UserRow
      /\ call[b].session \in SessionIds \cup {NoSession}
      /\ RowFits(a, users[a], mails, opened, tokens)
  BY <1>1 DEF TypeOK, Call, RowsFit
<1>3. /\ users' = [users EXCEPT ![a] = row] /\ users[a].password < MaxPasswords
      /\ setter' = [setter EXCEPT ![a] = call[b].session]
      /\ call[b].pc # "idle" /\ GoOn(b, call[b].session)
      /\ UNCHANGED <<sessions, mails, opened, moved, spared, tokens, opens, faults>>
  BY DEF UpdatePassword
<1>4. /\ row \in UserRow /\ row.status = users[a].status /\ row.email = users[a].email
      /\ row.signup = users[a].signup /\ row.recovery = users[a].recovery
      /\ row.change = users[a].change
  BY <1>2, <1>3, AccountsAssumption DEF UserRow
<1>5. RowFits(a, row, mails, opened, tokens)
  <2> HIDE DEF row, a
  <2>1. LinksFit(a, row, mails) /\ HalvesFit(a, row, opened)
    BY <1>2, <1>4 DEF RowFits, LinksFit, HalvesFit, Side
  <2>2. StatusFits(row) /\ TokensFit(row, tokens) /\ Proven(a, row, opened)
    BY <1>2, <1>4 DEF RowFits, StatusFits, TokensFit, Proven
  <2> QED BY <2>1, <2>2 DEF RowFits
<1>6. /\ users' \in [Ids -> UserRow]
      /\ RowsFit' /\ OneHolder' /\ MailsFit'
      /\ \A c \in Ids : users[c].status = "confirmed" => users'[c].status = "confirmed"
  <2> HIDE DEF row, a
  <2> QED BY <1>1, <1>2, <1>3, <1>4, <1>5, RowKeeps DEF TypeOK
<1>7. /\ call' \in [Browsers -> Call] /\ cookie' \in [Browsers -> SessionIds \cup {NoSession}]
      /\ CallMoves
  BY <1>1, <1>2, <1>3, Goes
<1>8. setter' \in [Ids -> SessionIds \cup {NoSession}]
  BY <1>1, <1>2, <1>3 DEF TypeOK
<1>9. TypeOK'
  BY <1>1, <1>3, <1>6, <1>7, <1>8 DEF TypeOK
<1>10. SessionsFit' /\ CallsFit' /\ MovesFit'
  BY <1>3, <1>6, <1>7, RestKeeps
<1> QED BY <1>6, <1>9, <1>10 DEF AccountInv

\* A mail says whose it is, of which request, and for which half.
LEMMA MailIsOf ==
    ASSUME AccountInv, NEW m \in mails
    PROVE  /\ m.to \in Addresses /\ m.token[1] \in Ids /\ m.token[2] \in 1 .. tokens
           /\ m.token[3] \in Halves /\ m.token = <<m.token[1], m.token[2], m.token[3]>>
           /\ users[m.token[1]] \in UserRow
           /\ RowFits(m.token[1], users[m.token[1]], mails, opened, tokens)
<1>1. m \in Message /\ m.token[2] \in 1 .. tokens
  BY DEF AccountInv, TypeOK, MailsFit
<1>2. m.token \in Ids \X Tokens \X Halves /\ m.to \in Addresses
  BY <1>1 DEF Message
<1> QED BY <1>1, <1>2 DEF AccountInv, TypeOK, RowsFit

LEMMA VerifyKeeps ==
    ASSUME AccountInv, NEW b \in Browsers, NEW m \in mails, verifyEmailToken(b, m),
           opened' = opened \cup {m},
           UNCHANGED <<call, mails, setter, spared, tokens, faults>>
    PROVE  AccountInv'
<1> DEFINE a == m.token[1]
           row == [users[a] EXCEPT !.status = "confirmed",
                                   !.signup = IF m.type = "signup" THEN 0 ELSE @,
                                   !.recovery = IF m.type = "recovery" THEN 0 ELSE @]
<1>1. TypeOK
  BY DEF AccountInv
<1>2. /\ a \in Ids /\ m.token[2] \in 1 .. tokens /\ users[a] \in UserRow
      /\ RowFits(a, users[a], mails, opened, tokens)
  BY MailIsOf
<1>3. /\ users' = [users EXCEPT ![a] = row] /\ moved' = moved
      /\ \/ m.type = "signup" /\ users[a].signup = m.token[2]
         \/ m.type = "recovery" /\ users[a].recovery = m.token[2]
      /\ OpenSession(a) /\ cookie' = [cookie EXCEPT ![b] = NewSession]
  BY <1>1, <1>2 DEF verifyEmailToken, TypeOK
<1>4. /\ row \in UserRow /\ row.status = "confirmed" /\ row.email = users[a].email
      /\ row.signup \in {0, users[a].signup} /\ row.recovery \in {0, users[a].recovery}
      /\ row.change = users[a].change
  <2>1. 0 \in Tokens
    BY AccountsAssumption DEF Tokens
  <2> QED BY <1>2, <2>1 DEF UserRow
<1>5. tokens \in Nat
  BY <1>1, AccountsAssumption DEF TypeOK, Tokens
<1>6. RowFits(a, row, mails, opened', tokens)
  <2> HIDE DEF row
  <2>1. LinksFit(a, row, mails) /\ HalvesFit(a, row, opened')
    BY <1>2, <1>4 DEF RowFits, LinksFit, HalvesFit, Side
  <2>2. StatusFits(row)
    BY <1>2, <1>3, <1>4, <1>5 DEF RowFits, StatusFits
  <2>3. TokensFit(row, tokens)
    BY <1>2, <1>4, <1>5 DEF RowFits, TokensFit
  <2>4. users[a].status = "confirmed" \/ m.to = users[a].email
    BY <1>2, <1>3 DEF RowFits, LinksFit
  <2>5. Proven(a, row, opened')
    BY <1>2, <1>4, <2>4 DEF RowFits, Proven
  <2> QED BY <2>1, <2>2, <2>3, <2>5 DEF RowFits
<1>7. /\ users' \in [Ids -> UserRow]
      /\ RowsFit' /\ OneHolder' /\ MailsFit'
      /\ \A c \in Ids : users[c].status = "confirmed" => users'[c].status = "confirmed"
  <2> HIDE DEF row, a
  <2> QED BY <1>1, <1>2, <1>3, <1>4, <1>6, RowKeeps DEF TypeOK
<1>8. /\ opens' \in 0 .. MaxSessions /\ sessions' \subseteq SessionRow
      /\ cookie' \in [Browsers -> SessionIds \cup {NoSession}]
      /\ \A s \in sessions' : s \in sessions \/ s.id = a
  BY <1>1, <1>2, <1>3, Opens DEF TypeOK
<1>9. TypeOK'
  BY <1>1, <1>3, <1>7, <1>8 DEF TypeOK
<1>10. users'[a].status = "confirmed"
  BY <1>1, <1>2, <1>3, <1>4 DEF TypeOK
<1>11. SessionsFit' /\ CallsFit' /\ MovesFit'
  BY <1>3, <1>7, <1>8, <1>10, RestKeeps DEF CallMoves
<1> QED BY <1>7, <1>9, <1>11 DEF AccountInv

LEMMA FirstHalfKeeps ==
    ASSUME AccountInv, NEW m \in mails, FirstHalf(m), m.type = "email_change",
           users[m.token[1]].change.n = m.token[2],
           m.token[3] \in users[m.token[1]].change.unopened,
           opened' = opened \cup {m},
           UNCHANGED <<call, mails, setter, spared, tokens, faults>>
    PROVE  AccountInv'
<1> DEFINE a == m.token[1]  half == m.token[3]
           row == [users[a] EXCEPT !.change.unopened = @ \ {half}]
<1>1. TypeOK
  BY DEF AccountInv
<1>2. /\ a \in Ids /\ m.token[2] \in 1 .. tokens /\ users[a] \in UserRow
      /\ RowFits(a, users[a], mails, opened, tokens)
      /\ m.token = <<a, m.token[2], half>>
  BY MailIsOf
<1>3. /\ users' = [users EXCEPT ![a] = row] /\ users[a].change.unopened = {"new", "old"}
      /\ UNCHANGED <<sessions, cookie, moved, opens>>
  BY DEF FirstHalf
<1>4. /\ row \in UserRow /\ row.status = users[a].status /\ row.email = users[a].email
      /\ row.signup = users[a].signup /\ row.recovery = users[a].recovery
      /\ row.change.n = users[a].change.n /\ row.change.to = users[a].change.to
      /\ row.change.unopened = {"new", "old"} \ {half}
  BY <1>2, <1>3 DEF UserRow
<1>5. m.to = Side(users[a], half)
  BY <1>2 DEF RowFits, LinksFit
<1>6. RowFits(a, row, mails, opened', tokens)
  <2> HIDE DEF row, a, half
  <2>1. LinksFit(a, row, mails)
    BY <1>2, <1>4 DEF RowFits, LinksFit, Side
  <2>2. HalvesFit(a, row, opened')
    BY <1>2, <1>4, <1>5 DEF RowFits, HalvesFit, Side
  <2>3. StatusFits(row)
    <3>1. users[a].change.n # 0 /\ NoChange.n = 0
      BY <1>2 DEF a, NoChange
    <3> QED BY <1>2, <1>4, <3>1 DEF RowFits, StatusFits
  <2>4. TokensFit(row, tokens) /\ Proven(a, row, opened')
    BY <1>2, <1>4 DEF RowFits, TokensFit, Proven
  <2> QED BY <2>1, <2>2, <2>3, <2>4 DEF RowFits
<1>7. /\ users' \in [Ids -> UserRow]
      /\ RowsFit' /\ OneHolder' /\ MailsFit'
      /\ \A c \in Ids : users[c].status = "confirmed" => users'[c].status = "confirmed"
  <2> HIDE DEF row, a
  <2> QED BY <1>1, <1>2, <1>3, <1>4, <1>6, RowKeeps DEF TypeOK
<1>8. TypeOK'
  BY <1>1, <1>3, <1>7 DEF TypeOK
<1>9. SessionsFit' /\ CallsFit' /\ MovesFit'
  BY <1>3, <1>7, RestKeeps DEF CallMoves
<1> QED BY <1>7, <1>8, <1>9 DEF AccountInv

LEMMA SecondHalfKeeps ==
    ASSUME AccountInv, NEW b \in Browsers, NEW m \in mails, SecondHalf(b, m),
           m.type = "email_change",
           users[m.token[1]].change.n = m.token[2],
           opened' = opened \cup {m},
           UNCHANGED <<call, mails, setter, spared, tokens, faults>>
    PROVE  AccountInv'
<1> DEFINE a == m.token[1]  half == m.token[3]  change == users[a].change
           row == [users[a] EXCEPT !.email = change.to, !.change = NoChange]
           move == [id |-> a, n |-> change.n, to |-> change.to, from |-> users[a].email]
<1>1. TypeOK
  BY DEF AccountInv
<1>2. /\ a \in Ids /\ m.token[2] \in 1 .. tokens /\ users[a] \in UserRow
      /\ RowFits(a, users[a], mails, opened, tokens)
      /\ m.token = <<a, m.token[2], half>>
  BY MailIsOf
<1>3. /\ change.unopened = {half} /\ HolderOf(change.to) = {}
      /\ OpenSession(a) /\ cookie' = [cookie EXCEPT ![b] = NewSession]
      /\ moved' = moved \cup {move}
  BY DEF SecondHalf
<1>4. users' = [users EXCEPT ![a] = row]
  BY <1>1, <1>2 DEF SecondHalf, TypeOK
<1>5. /\ change.n # 0 /\ change.n = m.token[2] /\ change # NoChange
      /\ users[a].status = "confirmed" /\ users[a].email \in Addresses
      /\ change.to \in Addresses /\ half \in {"new", "old"}
  <2>1. change.n # 0 /\ change.n = m.token[2] /\ NoChange.n = 0
    BY <1>2 DEF NoChange
  <2>2. users[a].status = "confirmed" /\ half \in {"new", "old"}
    BY <1>2, <1>3, <2>1 DEF RowFits, StatusFits
  <2>3. users[a].email \in Addresses /\ change.to \in Addresses
    BY <1>2, <2>1, <2>2 DEF RowFits, StatusFits, HalvesFit, UserRow
  <2> QED BY <2>1, <2>2, <2>3
<1>6. \A h \in {"new", "old"} : \E x \in opened' :
         /\ x.token = <<a, change.n, h>>
         /\ x.to = IF h = "new" THEN change.to ELSE users[a].email
  <2>1. m.to = Side(users[a], half)
    BY <1>2 DEF RowFits, LinksFit
  <2>2. \A h \in {"new", "old"} \ {half} : \E x \in opened :
           x.token = <<a, change.n, h>> /\ x.to = Side(users[a], h)
    BY <1>2, <1>3, <1>5 DEF RowFits, HalvesFit
  <2> QED BY <1>2, <1>5, <2>1, <2>2 DEF Side
<1>7. /\ row \in UserRow /\ row.status = "confirmed" /\ row.email = change.to
      /\ row.signup = users[a].signup /\ row.recovery = users[a].recovery
      /\ row.change = NoChange
  <2>1. NoChange \in [to : Addresses \cup {NoAddress}, n : Tokens, unopened : SUBSET Halves]
    BY AccountsAssumption DEF NoChange, Tokens
  <2> QED BY <1>2, <1>5, <2>1 DEF UserRow
<1>8. RowFits(a, row, mails, opened', tokens)
  <2>1. tokens \in Nat /\ NoChange.n = 0 /\ NoChange.unopened = {}
    BY <1>1, AccountsAssumption DEF TypeOK, Tokens, NoChange
  <2> HIDE DEF row, change
  <2>2. LinksFit(a, row, mails)
    <3>1. \A x \in mails : x.token[2] # 0
      BY DEF AccountInv, MailsFit
    <3> QED BY <1>7, <2>1, <3>1 DEF LinksFit
  <2>3. HalvesFit(a, row, opened') /\ StatusFits(row)
    BY <1>5, <1>7, <2>1, AccountsAssumption DEF HalvesFit, StatusFits
  <2>4. TokensFit(row, tokens)
    BY <1>2, <1>7, <2>1 DEF RowFits, TokensFit
  <2>5. Proven(a, row, opened')
    <3>1. PICK x \in opened' : x.token = <<a, change.n, "new">> /\ x.to = change.to
      BY <1>6
    <3> HIDE DEF a
    <3>2. x.token[1] = a
      BY <3>1
    <3> QED BY <1>7, <3>1, <3>2 DEF Proven
  <2> QED BY <2>2, <2>3, <2>4, <2>5 DEF RowFits
<1>9. /\ users' \in [Ids -> UserRow]
      /\ RowsFit' /\ OneHolder' /\ MailsFit'
      /\ \A c \in Ids : users[c].status = "confirmed" => users'[c].status = "confirmed"
  <2> HIDE DEF row, a, change
  <2> QED BY <1>1, <1>2, <1>3, <1>4, <1>7, <1>8, RowKeeps DEF TypeOK
<1>10. /\ opens' \in 0 .. MaxSessions /\ sessions' \subseteq SessionRow
       /\ cookie' \in [Browsers -> SessionIds \cup {NoSession}]
       /\ \A s \in sessions' : s \in sessions \/ s.id = a
  BY <1>1, <1>2, <1>3, Opens DEF TypeOK
<1>11. move \in Move
  BY <1>2, <1>5 DEF Move, UserRow
<1>12. TypeOK'
  BY <1>1, <1>3, <1>9, <1>10, <1>11 DEF TypeOK
<1>13. SessionsFit' /\ CallsFit'
  <2> HIDE DEF a
  <2>1. users'[a].status = "confirmed"
    BY <1>2, <1>5, <1>9
  <2>2. SessionsFit'
    BY <1>1, <1>9, <1>10, <2>1 DEF AccountInv, SessionsFit, TypeOK, SessionRow
  <2>3. CallsFit'
    BY <1>1, <1>9 DEF AccountInv, CallsFit, CallFits, TypeOK, Call
  <2> QED BY <2>2, <2>3
<1>14. MovesFit'
  <2>1. move.id = a /\ move.n = change.n /\ move.to = change.to /\ move.from = users[a].email
    OBVIOUS
  <2> HIDE DEF move, a, change
  <2>2. MovesFit
    BY DEF AccountInv
  <2> SUFFICES ASSUME NEW c \in moved', NEW h \in {"new", "old"}
               PROVE  \E x \in opened' : /\ x.token = <<c.id, c.n, h>>
                                         /\ x.to = IF h = "new" THEN c.to ELSE c.from
    BY DEF MovesFit
  <2>3. CASE c \in moved
    BY <2>2, <2>3 DEF MovesFit
  <2>4. CASE c = move
    BY <1>6, <2>1, <2>4
  <2> QED BY <1>3, <2>3, <2>4
<1> QED BY <1>9, <1>12, <1>13, <1>14 DEF AccountInv

-----------------------------------------------------------------------------
(* Those that only sign in and out, and the steps of the longer flows.      *)

\* A call that begins is of an account with a live session.
LEMMA Begins ==
    ASSUME AccountInv, NEW b \in Browsers, NEW c \in Call,
           call' = [call EXCEPT ![b] = c],
           \E s \in sessions : s.id = c.id,
           c.flow = "change-email" => c.to \in Addresses,
           UNCHANGED <<users, sessions, cookie, mails, observed, tokens, opens, faults>>
    PROVE  AccountInv'
<1>1. TypeOK /\ SessionsFit /\ CallsFit /\ RowsFit /\ OneHolder /\ MailsFit /\ MovesFit
  BY DEF AccountInv
<1>2. TypeOK'
  BY <1>1 DEF TypeOK, observed
<1>3. RowsFit' /\ OneHolder' /\ MailsFit' /\ SessionsFit' /\ MovesFit'
  BY <1>1 DEF RowsFit, OneHolder, MailsFit, SessionsFit, MovesFit, observed
<1>4. CallsFit'
  BY <1>1 DEF CallsFit, CallFits, SessionsFit, TypeOK
<1> QED BY <1>2, <1>3, <1>4 DEF AccountInv

LEMMA changePasswordKeeps ==
    ASSUME AccountInv, NEW b \in Browsers, changePassword(b)
    PROVE  AccountInv'
<1>1. PICK a \in getAuthenticatedUser(b) : call' = [call EXCEPT ![b] =
         [flow |-> "change-password", pc |-> "reauth", id |-> a,
          email |-> users[a].email, to |-> NoAddress, session |-> cookie[b]]]
  BY DEF changePassword
<1>2. TypeOK /\ a \in Ids /\ \E s \in sessions : s.id = a
  BY <1>1, Users DEF AccountInv
<1> DEFINE c == [flow |-> "change-password", pc |-> "reauth", id |-> a,
                 email |-> users[a].email, to |-> NoAddress, session |-> cookie[b]]
<1>3. c \in Call
  BY <1>2 DEF TypeOK, UserRow, Call, Flows, Pcs
<1> QED BY <1>1, <1>2, <1>3, Begins DEF changePassword

LEMMA changeEmailKeeps ==
    ASSUME AccountInv, NEW b \in Browsers, NEW to \in Addresses, changeEmail(b, to)
    PROVE  AccountInv'
<1>1. PICK a \in getAuthenticatedUser(b) : call' = [call EXCEPT ![b] =
         [flow |-> "change-email", pc |-> "reauth", id |-> a,
          email |-> users[a].email, to |-> to, session |-> cookie[b]]]
  BY DEF changeEmail
<1>2. TypeOK /\ a \in Ids /\ \E s \in sessions : s.id = a
  BY <1>1, Users DEF AccountInv
<1> DEFINE c == [flow |-> "change-email", pc |-> "reauth", id |-> a,
                 email |-> users[a].email, to |-> to, session |-> cookie[b]]
<1>3. c \in Call
  BY <1>2 DEF TypeOK, UserRow, Call, Flows, Pcs
<1> QED BY <1>1, <1>2, <1>3, Begins DEF changeEmail

LEMMA updatePasswordKeeps ==
    ASSUME AccountInv, NEW b \in Browsers, updatePassword(b)
    PROVE  AccountInv'
<1> DEFINE a == AccountOf(cookie[b])
           c == [flow |-> "update-password", pc |-> "update", id |-> a,
                 email |-> NoAddress, to |-> NoAddress, session |-> cookie[b]]
<1>1. call' = [call EXCEPT ![b] = c] /\ Live(cookie[b])
      /\ UNCHANGED <<users, sessions, cookie, mails, observed, tokens, opens, faults>>
  BY DEF updatePassword
<1>2. TypeOK /\ a \in Ids /\ \E s \in sessions : s.id = a
  BY <1>1, Users DEF AccountInv
<1> HIDE DEF a
<1>3. c \in Call
  BY <1>2 DEF TypeOK, Call, Flows, Pcs
<1> QED BY <1>1, <1>2, <1>3, Begins

LEMMA signInKeeps ==
    ASSUME AccountInv, NEW b \in Browsers, NEW email \in Addresses, signIn(b, email)
    PROVE  AccountInv'
<1>1. PICK a \in HolderOf(email) : OpenSession(a)
  BY DEF signIn
<1>2. /\ TypeOK /\ OneHolder /\ a \in Ids /\ users[a].email = email
      /\ email # NoAddress
  BY <1>1, AccountsAssumption DEF AccountInv, HolderOf
<1>3. /\ cookie' = [cookie EXCEPT ![b] = NewSession]
      /\ UNCHANGED <<users, call, mails, observed, tokens, faults>>
  BY DEF signIn
<1>4. users[a].status = "confirmed"
  <2>1. PICK c \in HolderOf(email) : users[c].status = "confirmed"
    BY DEF signIn, signInAnswer, AuthSignIn, isNotConfirmedError
  <2> QED BY <1>2, <2>1 DEF OneHolder, HolderOf
<1>5. /\ opens' \in 0 .. MaxSessions /\ sessions' \subseteq SessionRow
      /\ NewSession \in SessionIds /\ \A s \in sessions' : s \in sessions \/ s.id = a
  BY <1>1, <1>2, Opens
<1>6. TypeOK'
  BY <1>2, <1>3, <1>5 DEF TypeOK, observed
<1> QED BY <1>3, <1>4, <1>5, <1>6, QuietKeeps DEF CallMoves, observed

LEMMA signOutKeeps ==
    ASSUME AccountInv, NEW b \in Browsers, signOut(b)
    PROVE  AccountInv'
<1>1. TypeOK'
  BY DEF AccountInv, signOut, TypeOK, observed
<1> QED BY <1>1, QuietKeeps DEF signOut, observed, CallMoves

LEMMA reauthKeeps ==
    ASSUME AccountInv, NEW b \in Browsers, reauthenticateUser(b)
    PROVE  AccountInv'
<1> DEFINE a == call[b].id
<1>1. /\ TypeOK /\ a \in Ids /\ call[b].pc # "idle" /\ users[a].status = "confirmed"
      /\ NoSession \in SessionIds \cup {NoSession}
      /\ UNCHANGED <<users, mails, observed, tokens, faults>>
  BY DEF AccountInv, TypeOK, Call, reauthenticateUser, CallsFit, CallFits
<1>2. CASE OpenSession(a) /\ GoOn(b, NewSession)
  <2>1. /\ opens' \in 0 .. MaxSessions /\ sessions' \subseteq SessionRow
        /\ NewSession \in SessionIds /\ \A s \in sessions' : s \in sessions \/ s.id = a
    BY <1>1, <1>2, Opens
  <2>2. /\ call' \in [Browsers -> Call] /\ CallMoves
        /\ cookie' \in [Browsers -> SessionIds \cup {NoSession}]
    BY <1>1, <1>2, <2>1, Goes
  <2>3. TypeOK'
    BY <1>1, <2>1, <2>2 DEF TypeOK, observed
  <2> QED BY <1>1, <2>1, <2>2, <2>3, QuietKeeps DEF observed
<1>3. CASE Return(b, NoSession) /\ UNCHANGED <<sessions, opens>>
  <2>1. /\ call' \in [Browsers -> Call] /\ CallMoves
        /\ cookie' \in [Browsers -> SessionIds \cup {NoSession}]
    BY <1>1, <1>3, Goes
  <2>2. TypeOK'
    BY <1>1, <1>3, <2>1 DEF TypeOK, observed
  <2> QED BY <1>1, <1>3, <2>1, <2>2, QuietKeeps DEF observed
<1> QED BY <1>2, <1>3 DEF reauthenticateUser

LEMMA refusedKeeps ==
    ASSUME AccountInv, NEW b \in Browsers, UpdateRefused(b)
    PROVE  AccountInv'
<1>1. /\ TypeOK /\ call[b].pc # "idle" /\ Return(b, Saved(b))
      /\ UNCHANGED <<users, sessions, mails, observed, tokens, opens, faults>>
      /\ Saved(b) \in SessionIds \cup {NoSession}
  BY DEF AccountInv, TypeOK, Call, UpdateRefused, Saved
<1>2. /\ call' \in [Browsers -> Call] /\ CallMoves
      /\ cookie' \in [Browsers -> SessionIds \cup {NoSession}]
  BY <1>1, Goes
<1>3. TypeOK'
  BY <1>1, <1>2 DEF TypeOK, observed
<1> QED BY <1>1, <1>2, <1>3, QuietKeeps DEF observed

LEMMA revokeKeeps ==
    ASSUME AccountInv, NEW b \in Browsers, RevokeOthers(b)
    PROVE  AccountInv'
<1>1. /\ TypeOK /\ call[b].pc # "idle" /\ GoOn(b, call[b].session)
      /\ UNCHANGED <<users, mails, opened, moved, setter, tokens, opens>>
      /\ call[b].session \in SessionIds \cup {NoSession} /\ call[b].id \in Ids
  BY DEF AccountInv, TypeOK, Call, RevokeOthers
<1>2. /\ call' \in [Browsers -> Call] /\ CallMoves
      /\ cookie' \in [Browsers -> SessionIds \cup {NoSession}]
  BY <1>1, Goes
<1>3. sessions' \subseteq sessions /\ spared' \subseteq Ids /\ faults' \in 0 .. MaxFaults
  BY <1>1, AccountsAssumption DEF RevokeOthers, TypeOK
<1>4. TypeOK'
  BY <1>1, <1>2, <1>3 DEF TypeOK
<1> QED BY <1>1, <1>2, <1>3, <1>4, QuietKeeps

LEMMA dieKeeps ==
    ASSUME AccountInv, NEW b \in Browsers, Die(b)
    PROVE  AccountInv'
<1>1. /\ TypeOK /\ call[b].pc # "idle" /\ call[b].id \in Ids
      /\ call' = [call EXCEPT ![b] = Idle]
      /\ UNCHANGED <<users, sessions, cookie, mails, opened, moved, setter, tokens, opens>>
  BY DEF AccountInv, TypeOK, Call, Die
<1>2. /\ call' \in [Browsers -> Call] /\ CallMoves
      /\ cookie' \in [Browsers -> SessionIds \cup {NoSession}]
  BY <1>1, Goes DEF NoSession
<1>3. spared' \subseteq Ids /\ faults' \in 0 .. MaxFaults
  BY <1>1, AccountsAssumption DEF Die, TypeOK
<1>4. TypeOK'
  BY <1>1, <1>2, <1>3 DEF TypeOK
<1> QED BY <1>1, <1>2, <1>4, QuietKeeps

-----------------------------------------------------------------------------
LEMMA FirstAccounts == Init => AccountInv
<1> SUFFICES ASSUME Init PROVE AccountInv
  OBVIOUS
<1>1. TypeOK
  BY FirstState
<1>2. RowsFit
  <2> SUFFICES ASSUME NEW a \in Ids PROVE RowFits(a, users[a], mails, opened, tokens)
    BY DEF RowsFit
  <2>1. users[a] = [status |-> IF Seed[a] = NoAddress THEN "none" ELSE "confirmed",
                    email |-> Seed[a], password |-> 0, signup |-> 0,
                    recovery |-> 0, change |-> NoChange]
    BY DEF Init
  <2>2. mails = {} /\ tokens = 0 /\ NoChange.n = 0 /\ NoChange.unopened = {}
    BY DEF Init, NoChange
  <2> QED BY <2>1, <2>2
           DEF RowFits, LinksFit, HalvesFit, StatusFits, TokensFit, Proven
<1>3. OneHolder
  BY AccountsAssumption DEF Init, OneHolder
<1>4. MailsFit /\ SessionsFit /\ MovesFit /\ CallsFit
  BY DEF Init, MailsFit, SessionsFit, MovesFit, CallsFit, CallFits, Idle
<1> QED BY <1>1, <1>2, <1>3, <1>4 DEF AccountInv

LEMMA SomeoneSignsUp ==
    ASSUME AccountInv, NEW email \in Addresses,
           signUp(email) \/ resendVerification(email)
    PROVE  AccountInv'
<1>1. UNCHANGED <<sessions, cookie, call, observed, opens>>
  BY DEF signUp, resendVerification
<1>2. PICK a \in Ids :
         /\ \/ users[a].status = "unconfirmed" /\ users[a].email = email
            \/ users[a].email = NoAddress /\ HolderOf(email) = {}
         /\ SignupLink(a, email, "unconfirmed")
  BY DEF signUp, resendVerification, HolderOf
<1> QED BY <1>1, <1>2, SignupKeeps

LEMMA SomeoneOpensALink ==
    ASSUME AccountInv, NEW b \in Browsers, NEW m \in mails, OpenLink(b, m)
    PROVE  AccountInv'
BY VerifyKeeps, FirstHalfKeeps, SecondHalfKeeps DEF OpenLink

LEMMA AccountsStay == AccountInv /\ [Next]_vars => AccountInv'
<1> SUFFICES ASSUME AccountInv, [Next]_vars PROVE AccountInv'
  OBVIOUS
<1>1. CASE UNCHANGED vars
  <2>1. TypeOK'
    BY <1>1 DEF AccountInv, TypeOK, vars, observed
  <2> QED BY <1>1, <2>1, QuietKeeps DEF vars, observed, CallMoves
<1>2. CASE Next
  BY <1>2, SomeoneSignsUp, RecoveryKeeps, signInKeeps, signOutKeeps, SomeoneOpensALink,
     changePasswordKeeps, changeEmailKeeps, updatePasswordKeeps, reauthKeeps,
     PasswordKeeps, ChangeKeeps, refusedKeeps, revokeKeeps, dieKeeps DEF Next
<1> QED BY <1>1, <1>2

-----------------------------------------------------------------------------
(* The sessions of an earlier password.  It is the session that set the      *)
(* account's password which has to end the others, or is known not to have: *)
(* a revocation that another change is about to make does not count, as it   *)
(* may come with a session that has been ended.                              *)

Pending(a) ==
    \E b \in Browsers : /\ call[b].pc = "revoke" /\ call[b].id = a
                        /\ call[b].session = setter[a]
UpToDate(a) ==
    \A s \in sessions : s.id = a => s.since = users[a].password \/ s.sid = setter[a]
LockedOut == \A a \in Ids : a \in spared \/ Pending(a) \/ UpToDate(a)

LEMMA LockedOutIsEnough == LockedOut => OldSessionsEnd
BY DEF LockedOut, Pending, UpToDate, OldSessionsEnd

\* Steps that set no password, end no flow at its revocation, and open only
\* sessions under the password of the moment.
LEMMA StaysOut ==
    ASSUME LockedOut, \A a \in Ids : users'[a].password = users[a].password,
           UNCHANGED <<setter, spared>>,
           \A b \in Browsers : call[b].pc = "revoke" => call'[b] = call[b],
           \A s \in sessions' \ sessions : s.since = users[s.id].password
    PROVE  LockedOut'
<1> SUFFICES ASSUME NEW a \in Ids PROVE a \in spared' \/ Pending(a)' \/ UpToDate(a)'
  BY DEF LockedOut
<1>1. CASE a \in spared
  BY <1>1
<1>2. CASE Pending(a)
  BY <1>2 DEF Pending
<1>3. CASE UpToDate(a)
  BY <1>3 DEF UpToDate
<1> QED BY <1>1, <1>2, <1>3 DEF LockedOut

\* The hook is called for a row with the password it had.
LEMMA MailStaysOut ==
    ASSUME AccountInv, LockedOut, NEW a \in Ids, NEW row, NEW payload, Mail(a, row, payload),
           row.password = users[a].password,
           UNCHANGED <<sessions, setter, spared>>,
           \A b \in Browsers : call[b].pc = "revoke" => call'[b] = call[b]
    PROVE  LockedOut'
<1>1. users \in [Ids -> UserRow] /\ (users' = users \/ users' = [users EXCEPT ![a] = row])
  BY HookCalls DEF AccountInv, TypeOK
<1>2. \A c \in Ids : users'[c].password = users[c].password
  BY <1>1
<1> QED BY <1>2, StaysOut

LEMMA MailedStaysOut ==
    ASSUME AccountInv, LockedOut, NEW email \in Addresses,
           signUp(email) \/ resendVerification(email) \/ requestPasswordReset(email)
    PROVE  LockedOut'
<1>1. UNCHANGED <<sessions, call, setter, spared>>
  BY DEF signUp, resendVerification, requestPasswordReset, observed
<1>2. \A a \in Ids : users[a] \in UserRow
  BY DEF AccountInv, TypeOK
<1>3. \A a \in Ids :
         /\ [users[a] EXCEPT !.status = "unconfirmed", !.email = email,
                             !.signup = tokens + 1].password = users[a].password
         /\ [users[a] EXCEPT !.recovery = tokens + 1].password = users[a].password
  BY <1>2 DEF UserRow
<1>4. PICK a \in Ids : \/ SignupLink(a, email, "unconfirmed")
                       \/ Mail(a, [users[a] EXCEPT !.recovery = tokens + 1],
                               Single("recovery", a, email))
  BY DEF signUp, resendVerification, requestPasswordReset, HolderOf
<1> QED BY <1>1, <1>3, <1>4, MailStaysOut DEF SignupLink

LEMMA ChangeStaysOut ==
    ASSUME AccountInv, LockedOut, NEW b \in Browsers, UpdateEmail(b)
    PROVE  LockedOut'
<1> DEFINE a == call[b].id  n == tokens + 1
           row == [users[a] EXCEPT
                     !.change = [to |-> call[b].to, n |-> n, unopened |-> {"new", "old"}]]
           payload == Payload("email_change", users[a].email, call[b].to,
                              <<a, n, "old">>, <<a, n, "new">>)
<1>1. TypeOK /\ a \in Ids /\ users[a] \in UserRow
      /\ call[b].session \in SessionIds \cup {NoSession}
  BY DEF AccountInv, TypeOK, Call
<1>2. /\ Mail(a, row, payload) /\ call[b].pc = "update" /\ GoOn(b, call[b].session)
      /\ UNCHANGED <<sessions, setter, spared>>
  BY DEF UpdateEmail, observed
<1>3. row.password = users[a].password
  BY <1>1 DEF UserRow
<1>4. \A c \in Browsers : call[c].pc = "revoke" => call'[c] = call[c]
  BY <1>1, <1>2, Goes
<1> HIDE DEF row, payload, a
<1> QED BY <1>1, <1>2, <1>3, <1>4, MailStaysOut

LEMMA OpenStaysOut ==
    ASSUME AccountInv, LockedOut, NEW b \in Browsers, NEW m \in mails, OpenLink(b, m)
    PROVE  LockedOut'
<1>1. TypeOK /\ m.token[1] \in Ids /\ users \in [Ids -> UserRow]
  BY MailIsOf DEF AccountInv, TypeOK
<1>2. UNCHANGED <<call, setter, spared>>
  BY DEF OpenLink
<1>3. \A a \in Ids : users'[a].password = users[a].password
  <2>1. CASE verifyEmailToken(b, m)
    BY <1>1, <2>1 DEF verifyEmailToken, UserRow
  <2>2. CASE FirstHalf(m)
    BY <1>1, <2>2 DEF FirstHalf, UserRow
  <2>3. CASE SecondHalf(b, m)
    BY <1>1, <2>3 DEF SecondHalf, UserRow
  <2> QED BY <2>1, <2>2, <2>3 DEF OpenLink
<1>4. OpenSession(m.token[1]) \/ sessions' = sessions
  BY DEF OpenLink, verifyEmailToken, FirstHalf, SecondHalf
<1>5. \A s \in sessions' \ sessions : s.since = users[s.id].password
  BY <1>1, <1>4, Opens
<1> QED BY <1>2, <1>3, <1>5, StaysOut

\* Signing in and out, and the flows up to the change.
LEMMA QuietStaysOut ==
    ASSUME AccountInv, LockedOut, NEW b \in Browsers,
           \/ \E email \in Addresses : signIn(b, email) \/ changeEmail(b, email)
           \/ signOut(b) \/ changePassword(b) \/ updatePassword(b)
           \/ reauthenticateUser(b) \/ UpdateRefused(b)
    PROVE  LockedOut'
<1>1. TypeOK /\ call[b].id \in Ids /\ call[b] \in Call
  BY DEF AccountInv, TypeOK, Call
<1>2. UNCHANGED <<users, setter, spared>>
  BY DEF signIn, signOut, changePassword, changeEmail, updatePassword,
         reauthenticateUser, UpdateRefused, observed
<1>3. \/ \E a \in Ids : OpenSession(a)
      \/ sessions' \subseteq sessions
  BY <1>1 DEF signIn, signOut, changePassword, changeEmail, updatePassword,
         reauthenticateUser, UpdateRefused, HolderOf
<1>4. \A s \in sessions' \ sessions : s.since = users[s.id].password
  BY <1>1, <1>3, Opens
<1>5. \A c \in Browsers : call[c].pc = "revoke" => call'[c] = call[c]
  BY <1>1 DEF TypeOK, signIn, signOut, changePassword, changeEmail, updatePassword,
              reauthenticateUser, UpdateRefused, GoOn, Return
<1> QED BY <1>2, <1>4, <1>5, StaysOut

\* Who sets a password is the one that has to end the other sessions.
LEMMA PasswordStaysOut ==
    ASSUME AccountInv, LockedOut, NEW b \in Browsers, UpdatePassword(b)
    PROVE  LockedOut'
<1>1. /\ TypeOK /\ call[b].id \in Ids /\ call[b] \in Call
      /\ call[b].session \in SessionIds \cup {NoSession}
  BY DEF AccountInv, TypeOK, Call
<1>0. PICK a \in Ids : a = call[b].id
  BY <1>1
<1>2. /\ call[b].pc = "update" /\ call[b].flow # "change-email"
      /\ users' = [users EXCEPT ![a].password = @ + 1]
      /\ setter' = [setter EXCEPT ![a] = call[b].session]
      /\ GoOn(b, call[b].session) /\ UNCHANGED <<sessions, spared>>
  BY <1>0 DEF UpdatePassword
<1>3. Then(call[b].flow, call[b].pc) = "revoke"
  BY <1>1, <1>2 DEF Then, Call, Flows
<1>4. /\ call'[b].pc = "revoke" /\ call'[b].id = a /\ call'[b].session = call[b].session
      /\ \A c \in Browsers \ {b} : call'[c] = call[c]
  BY <1>1, <1>0, <1>2, <1>3 DEF GoOn, TypeOK, Call
<1>5. Pending(a)'
  BY <1>1, <1>2, <1>4 DEF Pending, TypeOK
<1>6. ASSUME NEW c \in Ids, c # a PROVE c \in spared' \/ Pending(c)' \/ UpToDate(c)'
  <2>1. users'[c] = users[c] /\ setter'[c] = setter[c]
    BY <1>1, <1>2, <1>6 DEF TypeOK
  <2>2. c \in spared \/ Pending(c) \/ UpToDate(c)
    BY DEF LockedOut
  <2>3. Pending(c) => Pending(c)'
    BY <1>2, <1>4, <2>1 DEF Pending
  <2>4. UpToDate(c) => UpToDate(c)'
    BY <1>2, <2>1 DEF UpToDate
  <2> QED BY <1>2, <2>2, <2>3, <2>4
<1> QED BY <1>5, <1>6 DEF LockedOut

\* The revocation of the setter leaves no other session, or spares them all;
\* that of another leaves the setter's to come.
LEMMA RevokeStaysOut ==
    ASSUME AccountInv, LockedOut, NEW b \in Browsers, RevokeOthers(b) \/ Die(b)
    PROVE  LockedOut'
<1> DEFINE mine == call[b].session
<1>1. TypeOK /\ call[b].id \in Ids /\ mine \in SessionIds \cup {NoSession}
  BY DEF AccountInv, TypeOK, Call
<1>0. PICK a \in Ids : a = call[b].id
  BY <1>1
<1>2. /\ UNCHANGED <<users, setter>>
      /\ sessions' \subseteq sessions
      /\ \A c \in Browsers \ {b} : call'[c] = call[c]
  <2>1. UNCHANGED <<users, setter>> /\ sessions' \subseteq sessions
    BY DEF RevokeOthers, Die
  <2>2. \A c \in Browsers \ {b} : call'[c] = call[c]
    BY <1>1, Goes DEF RevokeOthers, Die, TypeOK
  <2> QED BY <2>1, <2>2
<1>3. ASSUME NEW c \in Ids, c # a \/ mine # setter[a] \/ call[b].pc # "revoke"
      PROVE  c \in spared' \/ Pending(c)' \/ UpToDate(c)'
  <2>1. c \in spared \/ Pending(c) \/ UpToDate(c)
    BY DEF LockedOut
  <2>2. Pending(c) => Pending(c)'
    BY <1>0, <1>2, <1>3 DEF Pending
  <2>3. UpToDate(c) => UpToDate(c)'
    BY <1>2 DEF UpToDate
  <2>4. c \in spared => c \in spared'
    BY <1>0, <1>3 DEF RevokeOthers, Die
  <2> QED BY <2>1, <2>2, <2>3, <2>4
<1>4. CASE mine = setter[a] /\ call[b].pc = "revoke"
  <2>1. a \in spared' \/ UpToDate(a)'
    <3>1. CASE sessions' = {x \in sessions : x.id = a => x.sid = mine}
      BY <1>2, <1>4, <3>1 DEF UpToDate
    <3>2. CASE spared' = spared \cup {a}
      BY <3>2
    <3> QED BY <1>0, <1>4, <3>1, <3>2 DEF RevokeOthers, Die
  <2> QED BY <1>3, <2>1 DEF LockedOut
<1>5. CASE ~ (mine = setter[a] /\ call[b].pc = "revoke")
  BY <1>3, <1>5 DEF LockedOut
<1> QED BY <1>4, <1>5

-----------------------------------------------------------------------------
\* Accounts, sessions, flows and mails stay well-typed, whatever is opened,
\* refused or cut short.
THEOREM AccountsTypeCorrect == Spec => []TypeOK
<1>1. AccountInv => TypeOK
  BY DEF AccountInv
<1> QED BY FirstAccounts, AccountsStay, <1>1, PTL DEF Spec

\* No account is under an address whose mail was not opened, and no email
\* was changed without a click from each side of one request (change-email.ts,
\* send-email.ts).
THEOREM AddressesWereProven == Spec => []AddressesAreProven
<1>1. AccountInv => AddressesAreProven
  BY DEF AccountInv, RowsFit, RowFits, Proven, MovesFit, AddressesAreProven
<1> QED BY FirstAccounts, AccountsStay, <1>1, PTL DEF Spec

\* After a password change no session of an earlier password is left, but
\* where the revocation was refused or never made, and that is recorded
\* (change-password.ts, update-password.ts).
THEOREM OldSessionsDoEnd == Spec => []OldSessionsEnd
<1>1. Init => AccountInv /\ LockedOut
  <2>1. Init => LockedOut
    BY DEF Init, LockedOut, UpToDate
  <2> QED BY <2>1, FirstAccounts
<1>2. AccountInv /\ LockedOut /\ [Next]_vars => AccountInv' /\ LockedOut'
  <2> SUFFICES ASSUME AccountInv, LockedOut, [Next]_vars PROVE AccountInv' /\ LockedOut'
    OBVIOUS
  <2>1. CASE UNCHANGED vars
    <3>1. LockedOut'
      BY <2>1, StaysOut DEF vars, observed
    <3> QED BY <3>1, AccountsStay
  <2>2. CASE Next
    BY <2>2, MailedStaysOut, ChangeStaysOut, OpenStaysOut, QuietStaysOut,
       PasswordStaysOut, RevokeStaysOut, AccountsStay DEF Next
  <2> QED BY <2>1, <2>2
<1> QED BY <1>1, <1>2, LockedOutIsEnough, PTL DEF Spec

-----------------------------------------------------------------------------
(* The pages of apps/web, a tab at a time.                                  *)

Tab == [origin : Origins, at : Places, doc : {"loading", "page", "error", "limited"},
        kept : BOOLEAN, pending : {"none", "routing", "leaving"},
        reader : Reader, came : Came, unguarded : BOOLEAN]

\* Where a link that asks for c may lead.
Landings(c) == {c} \cup IF c = "in" THEN {"/orgs", Elsewhere} ELSE {}

\* What a tab x may rely on while the sessions are s.
Landed(x, s) ==
    x.came # NoLink =>
        /\ x.origin = "public" /\ s["public"] = x.came.of /\ x.came.of \in People
        /\ x.doc \in {"loading", "page"} /\ x.at \in Landings(x.came.to)
        /\ x.doc = "page" /\ x.at \in App => x.reader = x.came.of

Guarded(x, s) ==
    /\ x.kept => x.at \in App
    /\ x.kept /\ ~ x.unguarded => s[x.origin] # Nobody
    /\ x.at \in App /\ (x.doc = "error" \/ (x.doc = "page" /\ x.reader = Nobody))
          => x.unguarded

TabInv(x, s) == x \in Tab /\ Landed(x, s) /\ Guarded(x, s)

PagesInv ==
    /\ session \in [Origins -> Reader]
    /\ count \in [People -> 0 .. MaxOrganizations]
    /\ links \subseteq [of : People, type : Types]
    /\ changed \subseteq People \X People
    /\ ResetIsForTheLink
    /\ tab \in [Tabs -> Tab]
    /\ \A t \in Tabs : TabInv(tab[t], session)

\* A tab of the session's origin when the session is changed elsewhere.
Told(x) == [x EXCEPT !.came = NoLink, !.unguarded = @ \/ x.kept]

-----------------------------------------------------------------------------
(* Tabs, one at a time.                                                     *)

LEMMA NewTabs ==
    ASSUME NEW s, NEW url \in Places, NEW o \in Origins
    PROVE  /\ TabInv(NewTab(url), s)
           /\ TabInv([NewTab(url) EXCEPT !.origin = o], s)
           /\ TabInv([NewTab(url) EXCEPT !.doc = "limited"], s)
           /\ TabInv([NewTab(url) EXCEPT !.origin = o, !.pending = "routing"], s)
           /\ TabInv([NewTab(url) EXCEPT !.origin = o, !.pending = "leaving"], s)
<1>1. NoLink \in Came
  BY DEF NoLink, Came, Reader
<1> QED BY <1>1 DEF TabInv, Landed, Guarded, Tab, NewTab, Origins, Reader

\* A tab that is told of a change has what it needs, whatever the change was.
LEMMA ToldTabs ==
    ASSUME NEW s, NEW r, NEW x, TabInv(x, s)
    PROVE  TabInv(Told(x), r)
<1>1. NoLink \in Came
  BY DEF NoLink, Came, Reader
<1> QED BY <1>1 DEF TabInv, Landed, Guarded, Tab, Told, Reader

\* One of another origin does not need to be told.
LEMMA OtherOrigins ==
    ASSUME NEW s \in [Origins -> Reader], NEW x, TabInv(x, s),
           NEW o \in Origins, NEW p \in Reader, x.origin # o
    PROVE  TabInv(x, [s EXCEPT ![o] = p])
BY DEF TabInv, Landed, Guarded, Tab, Origins

\* The links of a page lead to pages.
LEMMA LinkUrls ==
    ASSUME NEW at
    PROVE  LinksOf(at) \subseteq Urls
BY DEF LinksOf, Marketing, LoginPage, SignUpPage, CheckEmailPage, ForgotPasswordPage,
       ResetPasswordPage, ChangePasswordPage, ChangeEmailPage, NewOrgPage,
       FirstOrgOnboarding, OrgSwitcher, OrgPickerLinks, Urls, App, Public

\* A step that changes one tab, and no session.
LEMMA OneTab ==
    ASSUME PagesInv, NEW t \in Tabs, NEW x, TabInv(x, session),
           tab' = [tab EXCEPT ![t] = x], UNCHANGED session
    PROVE  /\ tab' \in [Tabs -> Tab]
           /\ \A u \in Tabs : TabInv(tab'[u], session')
BY DEF PagesInv, TabInv

\* A link or a redirect of the client's.
LEMMA LinkedTabs ==
    ASSUME NEW s, NEW x, TabInv(x, s), NEW url \in Urls,
           NEW k \in BOOLEAN, k => x.kept /\ url \in App
    PROVE  TabInv([x EXCEPT !.at = url, !.doc = "loading", !.kept = k, !.came = NoLink], s)
<1> DEFINE y == [x EXCEPT !.at = url, !.doc = "loading", !.kept = k, !.came = NoLink]
<1>1. x \in Tab
  BY DEF TabInv
<1>2. /\ y.origin = x.origin /\ y.at = url /\ y.doc = "loading" /\ y.kept = k
      /\ y.came = NoLink /\ y.unguarded = x.unguarded
  BY <1>1 DEF Tab
<1>3. y \in Tab
  <2>1. NoLink \in Came /\ url \in Places
    BY DEF NoLink, Came, Reader, Places, Paths
  <2> QED BY <1>1, <2>1 DEF Tab
<1> HIDE DEF y
<1>4. k /\ ~ x.unguarded => s[x.origin] # Nobody
  BY DEF TabInv, Guarded
<1>5. Guarded(y, s)
  BY <1>2, <1>4 DEF Guarded
<1>6. TabInv(y, s)
  BY <1>2, <1>3, <1>5 DEF TabInv, Landed
<1> QED BY <1>6 DEF y

LEMMA Links ==
    ASSUME PagesInv, NEW t \in Tabs, NEW url \in Urls, Link(t, url), UNCHANGED session
    PROVE  /\ tab' \in [Tabs -> Tab]
           /\ \A u \in Tabs : TabInv(tab'[u], session')
<1> DEFINE k == tab[t].kept /\ url \in App
           x == [tab[t] EXCEPT !.at = url, !.doc = "loading", !.kept = k, !.came = NoLink]
<1>1. tab' = [tab EXCEPT ![t] = x]
  BY DEF Link, PagesInv
<1>2. k \in BOOLEAN /\ (k => tab[t].kept /\ url \in App)
  OBVIOUS
<1>3. TabInv(tab[t], session)
  BY DEF PagesInv
<1> HIDE DEF k
<1>4. TabInv(x, session)
  BY <1>2, <1>3, LinkedTabs
<1> QED BY <1>1, <1>4, OneTab

LEMMA Loads ==
    ASSUME PagesInv, NEW t \in Tabs, NEW url \in Urls, Load(t, url), UNCHANGED session
    PROVE  /\ tab' \in [Tabs -> Tab]
           /\ \A u \in Tabs : TabInv(tab'[u], session')
<1>1. tab[t].origin \in Origins
  BY DEF PagesInv, Tab
<1>2. url \in Places
  BY DEF Places, Paths
<1> QED BY <1>1, <1>2, NewTabs, OneTab DEF Load

\* A page that is refreshed is asked for with its layouts.
LEMMA Refreshes ==
    ASSUME PagesInv, NEW t \in Tabs, Refresh(t, "none"), UNCHANGED session
    PROVE  /\ tab' \in [Tabs -> Tab]
           /\ \A u \in Tabs : TabInv(tab'[u], session')
<1> DEFINE x == [tab[t] EXCEPT !.doc = "loading", !.kept = FALSE, !.pending = "none",
                               !.came = NoLink]
<1>1. tab' = [tab EXCEPT ![t] = x]
  BY DEF Refresh, PagesInv
<1>2. tab[t] \in Tab
  BY DEF PagesInv
<1>3. x \in Tab /\ x.doc = "loading" /\ x.kept = FALSE /\ x.came = NoLink
  <2>1. NoLink \in Came
    BY DEF NoLink, Came, Reader
  <2> QED BY <1>2, <2>1 DEF Tab
<1> HIDE DEF x
<1>4. TabInv(x, session)
  BY <1>3 DEF TabInv, Landed, Guarded
<1> QED BY <1>1, <1>4, OneTab

\* A change of session that tab t makes: every other tab is told of it, or has
\* another origin.
LEMMA Becomes ==
    ASSUME PagesInv, NEW t \in Tabs, NEW p \in Reader, NEW x, Become(t, p, x),
           TabInv(x, [session EXCEPT ![tab[t].origin] = p])
    PROVE  /\ session' \in [Origins -> Reader]
           /\ tab' \in [Tabs -> Tab]
           /\ \A u \in Tabs : TabInv(tab'[u], session')
<1>1. tab[t].origin \in Origins
  BY DEF PagesInv, Tab
<1>2. session' = [session EXCEPT ![tab[t].origin] = p] /\ session' \in [Origins -> Reader]
  BY <1>1 DEF Become, PagesInv
<1>3. ASSUME NEW u \in Tabs PROVE TabInv(tab'[u], session')
  <2>1. CASE u = t
    BY <2>1, <1>2 DEF Become
  <2>2. CASE u # t /\ tab[u].origin # tab[t].origin
    <3>1. tab'[u] = tab[u]
      BY <2>2 DEF Become
    <3> QED BY <3>1, <2>2, <1>1, <1>2, OtherOrigins DEF PagesInv
  <2>3. CASE u # t /\ tab[u].origin = tab[t].origin
    <3>1. tab'[u] = Told(tab[u])
      BY <2>3 DEF Become, Told, PagesInv
    <3> QED BY <3>1, ToldTabs DEF PagesInv
  <2> QED BY <2>1, <2>2, <2>3
<1>4. tab' = [u \in Tabs |-> tab'[u]]
  BY DEF Become
<1>5. tab' \in [Tabs -> Tab]
  BY <1>3, <1>4 DEF TabInv
<1> QED BY <1>2, <1>3, <1>5

-----------------------------------------------------------------------------
(* The steps.                                                               *)

LEMMA FirstPages == PagesInit => PagesInv
<1> SUFFICES ASSUME PagesInit PROVE PagesInv
  OBVIOUS
<1>1. "/" \in Urls /\ "public" \in Origins
  BY DEF Urls, Public, Origins
<1>2. 0 \in 0 .. MaxOrganizations
  <2>1. MaxOrganizations \in Nat
    BY WebPagesAssumption
  <2> QED BY <2>1
<1>3. TabInv(NewTab("/"), session)
  BY <1>1, NewTabs DEF Places, Paths
<1>4. tab \in [Tabs -> Tab] /\ \A t \in Tabs : TabInv(tab[t], session)
  BY <1>3 DEF PagesInit, TabInv
<1>5. /\ session \in [Origins -> Reader]
      /\ count \in [People -> 0 .. MaxOrganizations]
  BY <1>2 DEF PagesInit, Reader
<1> QED BY <1>4, <1>5 DEF PagesInit, PagesInv, ResetIsForTheLink

\* What a tab is served: the layout lets in who has a session, or who kept it.
LEMMA Served ==
    ASSUME PagesInv, NEW t \in Tabs, Serve(t)
    PROVE  PagesInv'
<1>1. TabInv(tab[t], session) /\ tab[t] \in Tab
  BY DEF PagesInv
<1>2. CASE /\ tab[t].at \in App /\ ~ AppLayout(t)
           /\ tab' = [tab EXCEPT ![t] = [NewTab("/login") EXCEPT
                                                 !.origin = tab[t].origin,
                                                 !.pending = tab[t].pending,
                                                 !.came = tab[t].came]]
  <2> DEFINE x == [NewTab("/login") EXCEPT !.origin = tab[t].origin,
                                           !.pending = tab[t].pending,
                                           !.came = tab[t].came]
  <2>0. tab[t].came = NoLink
    <3>1. session[tab[t].origin] = Nobody
      BY <1>2 DEF AppLayout, Mine
    <3> QED BY <1>1, <3>1, WebPagesAssumption DEF TabInv, Landed
  <2>1. TabInv(x, session)
    <3>1. "/login" \in Places /\ "/login" \notin App /\ Nobody \in Reader
      BY DEF Places, Paths, Urls, App, Public, Reader
    <3> QED BY <1>1, <2>0, <3>1 DEF TabInv, Landed, Guarded, Tab, NewTab
  <2>2. UNCHANGED session
    BY DEF Serve
  <2> HIDE DEF x
  <2>3. tab' \in [Tabs -> Tab] /\ \A u \in Tabs : TabInv(tab'[u], session')
    BY <1>2, <2>1, <2>2, OneTab DEF x
  <2> QED BY <2>3 DEF PagesInv, Serve, ResetIsForTheLink
<1>3. CASE tab[t].at \in App => AppLayout(t)
  <2> DEFINE renders == \/ Static(t)
                        \/ tab[t].at = "/orgs" /\ OrgPickerPage(t)
                        \/ tab[t].at = "/dashboard" /\ Dashboard(t)
             k == tab[t].at \in App /\ renders
             g == tab[t].unguarded /\ tab[t].kept
             r == IF tab[t].at \in App THEN Mine(t) ELSE Nobody
             d == IF renders THEN "page" ELSE "error"
             x == [tab[t] EXCEPT !.doc = d, !.reader = r, !.kept = k, !.unguarded = g]
  <2>1. CASE tab' = [tab EXCEPT ![t] = x]
    <3>1. k \in BOOLEAN /\ g \in BOOLEAN /\ r \in Reader /\ d \in {"page", "error"}
      BY <1>1 DEF Mine, PagesInv, Tab, Reader
    <3>2. /\ k => tab[t].at \in App
          /\ g <=> tab[t].unguarded /\ tab[t].kept
          /\ r = IF tab[t].at \in App THEN session[tab[t].origin] ELSE Nobody
      BY DEF Mine
    <3>3. d = "error" => tab[t].at \in App /\ r = Nobody
      BY DEF Static, OrgPickerPage, Dashboard, getMyOrganizations, Mine, App
    <3>4. tab[t].at \in App => tab[t].kept \/ session[tab[t].origin] # Nobody
      BY <1>3 DEF AppLayout, Mine
    <3> HIDE DEF k, g, r, d
    <3>5. x \in Tab
      BY <1>1, <3>1 DEF Tab
    <3>6. Guarded(x, session)
      BY <1>1, <3>1, <3>2, <3>3, <3>4 DEF TabInv, Guarded, Tab
    <3>7. Landed(x, session)
      <4>1. /\ x.came = tab[t].came /\ x.origin = tab[t].origin /\ x.at = tab[t].at
            /\ x.doc = d /\ x.reader = r
        BY <1>1 DEF Tab
      <4> HIDE DEF x
      <4> SUFFICES ASSUME x.came # NoLink
                   PROVE  /\ x.origin = "public" /\ session["public"] = x.came.of
                          /\ x.came.of \in People
                          /\ x.doc \in {"loading", "page"} /\ x.at \in Landings(x.came.to)
                          /\ x.doc = "page" /\ x.at \in App => x.reader = x.came.of
        BY DEF Landed
      <4>2. /\ x.origin = "public" /\ session["public"] = x.came.of
            /\ x.came.of \in People /\ x.at \in Landings(x.came.to)
        BY <1>1, <4>1 DEF TabInv, Landed
      <4>3. x.at \in App => r = x.came.of
        BY <3>2, <4>1, <4>2
      <4>4. d = "page"
        BY <3>1, <3>3, <4>1, <4>2, <4>3, WebPagesAssumption
      <4> QED BY <4>1, <4>2, <4>3, <4>4
    <3>8. TabInv(x, session)
      BY <3>5, <3>6, <3>7 DEF TabInv
    <3>9. tab' \in [Tabs -> Tab] /\ \A u \in Tabs : TabInv(tab'[u], session')
      BY <2>1, <3>8, OneTab DEF Serve
    <3> QED BY <3>9 DEF PagesInv, Serve, ResetIsForTheLink
  <2>2. CASE /\ tab[t].at \in App /\ ~ AppLayout(t)
    BY <1>3, <2>2
  <2> QED BY <1>2, <2>1, <2>2 DEF Serve
<1> QED BY <1>2, <1>3 DEF Serve

LEMMA SessionEnded ==
    ASSUME PagesInv, NEW o \in Origins, SessionEnds(o)
    PROVE  PagesInv'
<1>1. session' = [session EXCEPT ![o] = Nobody] /\ session' \in [Origins -> Reader]
  BY DEF SessionEnds, PagesInv, Reader
<1>2. ASSUME NEW u \in Tabs PROVE TabInv(tab'[u], session')
  <2>1. CASE tab[u].origin # o
    <3>1. tab'[u] = tab[u] /\ Nobody \in Reader /\ TabInv(tab[u], session)
      BY <2>1 DEF SessionEnds, PagesInv, Reader
    <3>2. TabInv(tab[u], [session EXCEPT ![o] = Nobody])
      BY <2>1, <3>1, OtherOrigins DEF PagesInv
    <3> QED BY <1>1, <3>1, <3>2
  <2>2. CASE tab[u].origin = o
    <3>1. tab'[u] = Told(tab[u])
      BY <2>2 DEF SessionEnds, Told, PagesInv
    <3> QED BY <3>1, ToldTabs DEF PagesInv
  <2> QED BY <2>1, <2>2
<1>3. tab' = [u \in Tabs |-> tab'[u]]
  BY DEF SessionEnds
<1>4. tab' \in [Tabs -> Tab]
  BY <1>2, <1>3 DEF TabInv
<1> QED BY <1>1, <1>2, <1>4 DEF PagesInv, SessionEnds, ResetIsForTheLink

LEMMA LoggedIn ==
    ASSUME PagesInv, NEW t \in Tabs, NEW p \in People, LoginForm(t, p)
    PROVE  PagesInv'
<1> DEFINE x == [tab[t] EXCEPT !.pending = "routing", !.came = NoLink]
           s == [session EXCEPT ![tab[t].origin] = p]
<1>1. TabInv(tab[t], session) /\ tab[t].at \notin App
  BY DEF PagesInv, LoginForm, On, App
<1>2. TabInv(x, s)
  <2>1. NoLink \in Came
    BY DEF NoLink, Came, Reader
  <2> QED BY <1>1, <2>1 DEF TabInv, Landed, Guarded, Tab
<1>3. Become(t, p, x) /\ p \in Reader
  BY DEF LoginForm, Reader
<1> HIDE DEF x
<1>4. /\ session' \in [Origins -> Reader] /\ tab' \in [Tabs -> Tab]
      /\ \A u \in Tabs : TabInv(tab'[u], session')
  BY <1>2, <1>3, Becomes
<1> QED BY <1>4 DEF PagesInv, LoginForm, ResetIsForTheLink

LEMMA LoggedOut ==
    ASSUME PagesInv, NEW t \in Tabs, SignOutButton(t)
    PROVE  PagesInv'
<1> DEFINE x == [tab[t] EXCEPT !.doc = "loading", !.kept = FALSE,
                               !.pending = "leaving", !.came = NoLink]
           s == [session EXCEPT ![tab[t].origin] = Nobody]
<1>1. TabInv(tab[t], session)
  BY DEF PagesInv
<1>2. TabInv(x, s)
  <2>1. NoLink \in Came
    BY DEF NoLink, Came, Reader
  <2> QED BY <1>1, <2>1 DEF TabInv, Landed, Guarded, Tab
<1>3. Become(t, Nobody, x) /\ Nobody \in Reader
  BY DEF SignOutButton, Reader
<1> HIDE DEF x
<1>4. /\ session' \in [Origins -> Reader] /\ tab' \in [Tabs -> Tab]
      /\ \A u \in Tabs : TabInv(tab'[u], session')
  BY <1>2, <1>3, Becomes
<1> QED BY <1>4 DEF PagesInv, SignOutButton, ResetIsForTheLink

LEMMA Routed ==
    ASSUME PagesInv, NEW t \in Tabs, routeAfterLoginAction(t)
    PROVE  PagesInv'
<1>1. ASSUME NEW rows, Load(t, destinationForOrganizations(rows)),
             routeAfterLoginAction(t)
      PROVE  PagesInv'
  <2>1. destinationForOrganizations(rows) \in Urls
    BY DEF destinationForOrganizations, Urls, App
  <2>2. tab' \in [Tabs -> Tab] /\ \A u \in Tabs : TabInv(tab'[u], session')
    BY <1>1, <2>1, Loads DEF routeAfterLoginAction
  <2> QED BY <2>2 DEF PagesInv, routeAfterLoginAction, ResetIsForTheLink
<1>2. CASE tab' = [tab EXCEPT ![t].pending = "none"]
  <2> DEFINE x == [tab[t] EXCEPT !.pending = "none"]
  <2>1. tab' = [tab EXCEPT ![t] = x]
    BY <1>2 DEF PagesInv
  <2>2. TabInv(x, session)
    BY DEF PagesInv, TabInv, Landed, Guarded, Tab
  <2> HIDE DEF x
  <2>3. tab' \in [Tabs -> Tab] /\ \A u \in Tabs : TabInv(tab'[u], session')
    BY <2>1, <2>2, OneTab DEF routeAfterLoginAction
  <2> QED BY <2>3 DEF PagesInv, routeAfterLoginAction, ResetIsForTheLink
<1> QED BY <1>1, <1>2 DEF routeAfterLoginAction

\* The password is that of the session, which a link that led here opened.
LEMMA PasswordReset ==
    ASSUME PagesInv, NEW t \in Tabs, ResetPasswordForm(t)
    PROVE  PagesInv'
<1>1. UNCHANGED <<session, count, links>>
  BY DEF ResetPasswordForm
<1>2. CASE /\ Mine(t) # Nobody
           /\ changed' = IF tab[t].came = NoLink THEN changed
                         ELSE changed \cup {<<tab[t].came.of, Mine(t)>>}
           /\ Link(t, "/orgs")
  <2>1. "/orgs" \in Urls
    BY DEF Urls, App
  <2>2. tab' \in [Tabs -> Tab] /\ \A u \in Tabs : TabInv(tab'[u], session')
    BY <1>1, <1>2, <2>1, Links
  <2>3. tab[t].came # NoLink => tab[t].came.of = Mine(t) /\ Mine(t) \in People
    BY DEF PagesInv, TabInv, Landed, Tab, Mine, Reader
  <2>4. changed' \subseteq People \X People /\ ResetIsForTheLink'
    BY <1>2, <2>3 DEF PagesInv, ResetIsForTheLink
  <2> QED BY <1>1, <2>2, <2>4 DEF PagesInv
<1>3. CASE Link(t, "/forgot-password") /\ UNCHANGED changed
  <2>1. "/forgot-password" \in Urls
    BY DEF Urls, Public
  <2>2. tab' \in [Tabs -> Tab] /\ \A u \in Tabs : TabInv(tab'[u], session')
    BY <1>1, <1>3, <2>1, Links
  <2> QED BY <1>1, <1>3, <2>2 DEF PagesInv, ResetIsForTheLink
<1> QED BY <1>2, <1>3 DEF ResetPasswordForm

\* A link's destination is what it asks for, or one of the two others.
LEMMA Destinations ==
    ASSUME NEW link \in [of : People, type : Types], NEW next \in Next_
    PROVE  LET url == newURL(destination(link.type, next))
               led == LedBy(link, next)
           IN /\ url \in Landings(led.to) /\ url \in Places
              /\ led \in Came /\ led.of = link.of
<1> DEFINE url == newURL(destination(link.type, next))  led == LedBy(link, next)
<1> USE DEF Places, Paths, Urls, App, Public
<1>1. link.of \in People
  OBVIOUS
<1>2. "/reset-password" \in Paths /\ "/orgs" \in Paths
  OBVIOUS
<1>3. led.of = link.of /\ led.to \in Paths \cup {"in"} /\ led \in Came
  <2> HIDE DEF Paths
  <2> QED BY <1>1, <1>2 DEF LedBy, Came, Reader
<1>4. next \in Paths \cup {"", "https://elsewhere", "//elsewhere", "/\\elsewhere"}
  BY WebPagesAssumption
<1>5. CASE link.type = "recovery"
  <2>1. url = "/reset-password" /\ led.to = "/reset-password"
    BY <1>5 DEF newURL, destination, LedBy
  <2> QED BY <1>3, <2>1 DEF Landings
<1>6. CASE link.type # "recovery" /\ next \in Paths
  <2>1. next # "" /\ next \notin {"https://elsewhere", "//elsewhere", "/\\elsewhere"}
    BY <1>6
  <2>2. url = next /\ led.to = next
    BY <1>6, <2>1 DEF newURL, destination, sanitizeNext, LedBy
  <2> QED BY <1>3, <1>6, <2>2 DEF Landings
<1>7. CASE link.type # "recovery" /\ next \notin Paths
  <2>1. led.to = "in"
    BY <1>7 DEF LedBy
  <2>2. url \in {"/orgs", Elsewhere}
    BY <1>4, <1>7 DEF newURL, destination, sanitizeNext
  <2> QED BY <1>3, <2>1, <2>2 DEF Landings
<1> QED BY <1>5, <1>6, <1>7

LEMMA LinkVerified ==
    ASSUME PagesInv, NEW t \in Tabs, NEW link \in links, NEW next \in Next_,
           Verified(t, link, next)
    PROVE  /\ session' \in [Origins -> Reader]
           /\ links' \subseteq links
           /\ tab' \in [Tabs -> Tab]
           /\ \A u \in Tabs : TabInv(tab'[u], session')
<1> DEFINE url == newURL(destination(link.type, next))
           led == LedBy(link, next)
           mine == At(destination(link.type, next))
           x == [mine EXCEPT !.came = led]
<1>1. link \in [of : People, type : Types] /\ link.of \in People
  BY DEF PagesInv
<1>2. /\ url \in Landings(led.to) /\ url \in Places
      /\ led \in Came /\ led.of = link.of /\ led # NoLink
  <2>1. /\ url \in Landings(led.to) /\ url \in Places
        /\ led \in Came /\ led.of = link.of
    BY <1>1, Destinations
  <2>2. NoLink.of = Nobody /\ link.of # Nobody
    BY <1>1, WebPagesAssumption DEF NoLink
  <2> HIDE DEF led
  <2> QED BY <2>1, <2>2
<1>3. links' \subseteq links
  BY DEF Verified
<1>4. CASE /\ session' = [session EXCEPT !["public"] = link.of]
           /\ tab' = [u \in Tabs |->
                        IF u = t THEN x
                        ELSE IF tab[u].origin # "public" THEN tab[u]
                        ELSE [tab[u] EXCEPT !.came = NoLink, !.unguarded = @ \/ tab[u].kept]]
  <2>1. session' \in [Origins -> Reader] /\ session'["public"] = link.of
    BY <1>1, <1>4 DEF PagesInv, Origins, Reader
  <2>2. x \in Tab /\ x.origin = "public" /\ x.came = led /\ x.at \in Landings(led.to)
        /\ x.doc = "loading" /\ x.kept = FALSE
    <3>1. mine = [NewTab(url) EXCEPT !.origin = "public"]
      BY DEF At, publicOrigin
    <3> HIDE DEF url, led, mine
    <3> QED BY <1>1, <1>2, <3>1 DEF NewTab, Tab, Origins, Reader
  <2>3. TabInv(x, session')
    <3> HIDE DEF x, led
    <3> QED BY <1>1, <1>2, <2>1, <2>2 DEF TabInv, Landed, Guarded
  <2> HIDE DEF x
  <2>4. ASSUME NEW u \in Tabs PROVE TabInv(tab'[u], session')
    <3>1. CASE u = t
      BY <1>4, <2>3, <3>1
    <3>2. CASE u # t /\ tab[u].origin # "public"
      <4>1. tab'[u] = tab[u] /\ "public" \in Origins /\ link.of \in Reader
        BY <1>1, <1>4, <3>2 DEF Origins, Reader
      <4> QED BY <1>4, <3>2, <4>1, OtherOrigins DEF PagesInv
    <3>3. CASE u # t /\ tab[u].origin = "public"
      <4>1. tab'[u] = Told(tab[u])
        BY <1>4, <3>3 DEF Told, PagesInv
      <4> QED BY <4>1, ToldTabs DEF PagesInv
    <3> QED BY <3>1, <3>2, <3>3
  <2>5. tab' \in [Tabs -> Tab]
    BY <1>4, <2>4 DEF TabInv
  <2> QED BY <1>3, <2>1, <2>4, <2>5
<1>5. CASE tab' = [tab EXCEPT ![t] = mine] /\ UNCHANGED session
  <2>1. "public" \in Origins /\ mine = [NewTab(url) EXCEPT !.origin = "public"]
    BY DEF At, publicOrigin, Origins
  <2>2. TabInv(mine, session)
    BY <1>2, <2>1, NewTabs
  <2> HIDE DEF mine
  <2>3. tab' \in [Tabs -> Tab] /\ \A u \in Tabs : TabInv(tab'[u], session')
    BY <1>5, <2>2, OneTab
  <2> QED BY <1>3, <1>5, <2>3 DEF PagesInv
<1> QED BY <1>4, <1>5 DEF Verified

LEMMA Confirmed ==
    ASSUME PagesInv, NEW t \in Tabs, GET(t)
    PROVE  PagesInv'
<1>1. ASSUME NEW link \in links, NEW next \in Next_, Verified(t, link, next)
      PROVE  PagesInv'
  <2>1. /\ session' \in [Origins -> Reader] /\ links' \subseteq links
        /\ tab' \in [Tabs -> Tab]
        /\ \A u \in Tabs : TabInv(tab'[u], session')
    BY <1>1, LinkVerified
  <2> QED BY <2>1 DEF PagesInv, GET, ResetIsForTheLink
<1>2. ASSUME NEW type \in Types, UNCHANGED <<session, links>>,
             tab' = [tab EXCEPT ![t] = At(redirectInvalid(type))]
      PROVE  PagesInv'
  <2>1. /\ redirectInvalid(type) \in Urls /\ "public" \in Origins
        /\ At(redirectInvalid(type))
              = [NewTab(redirectInvalid(type)) EXCEPT !.origin = "public"]
    BY DEF redirectInvalid, newURL, Urls, Public, Origins, At, publicOrigin
  <2>2. TabInv(At(redirectInvalid(type)), session)
    <3> DEFINE url == redirectInvalid(type)
    <3>1. url \in Places
      BY <2>1 DEF Places, Paths
    <3>2. At(url) = [NewTab(url) EXCEPT !.origin = "public"] /\ "public" \in Origins
      BY <2>1
    <3> HIDE DEF url
    <3>3. TabInv([NewTab(url) EXCEPT !.origin = "public"], session)
      BY <3>1, <3>2, NewTabs
    <3>4. TabInv(At(url), session)
      BY <3>2, <3>3
    <3> QED BY <3>4 DEF url
  <2>3. tab' \in [Tabs -> Tab] /\ \A u \in Tabs : TabInv(tab'[u], session')
    BY <1>2, <2>2, OneTab
  <2> QED BY <1>2, <2>3 DEF PagesInv, GET, ResetIsForTheLink
<1> QED BY <1>1, <1>2 DEF GET

\* The steps of one tab that leave the sessions and the changes alone.
LEMMA Others ==
    ASSUME PagesInv, UNCHANGED <<session, changed>>,
           count' \in [People -> 0 .. MaxOrganizations],
           links' \subseteq [of : People, type : Types],
           tab' \in [Tabs -> Tab],
           \A u \in Tabs : TabInv(tab'[u], session')
    PROVE  PagesInv'
BY DEF PagesInv, ResetIsForTheLink

LEMMA Mails ==
    ASSUME PagesInv, NEW p \in People, NEW type \in Types, Mailed(type, p)
    PROVE  links' \subseteq [of : People, type : Types]
BY DEF PagesInv, Mailed

LEMMA StepPages == PagesInv /\ [PagesNext]_pagesVars => PagesInv'
<1> SUFFICES ASSUME PagesInv, [PagesNext]_pagesVars PROVE PagesInv'
  OBVIOUS
<1> USE DEF PagesInv
<1>1. ASSUME NEW t \in Tabs, NEW url \in Urls, Visit(t, url) PROVE PagesInv'
  <2>1. tab' \in [Tabs -> Tab] /\ \A u \in Tabs : TabInv(tab'[u], session')
    BY <1>1, Loads DEF Visit
  <2> QED BY <1>1, <2>1, Others DEF Visit
<1>2. ASSUME NEW t \in Tabs, NEW url \in Urls, Follow(t, url) PROVE PagesInv'
  <2>1. tab' \in [Tabs -> Tab] /\ \A u \in Tabs : TabInv(tab'[u], session')
    BY <1>2, Links DEF Follow
  <2> QED BY <1>2, <2>1, Others DEF Follow
<1>3. ASSUME NEW t \in Tabs, NEW p \in People, SignUpForm(t, p) PROVE PagesInv'
  <2>1. "/check-email" \in Urls /\ "signup" \in Types
    BY DEF Urls, Public, Types
  <2>2. tab' \in [Tabs -> Tab] /\ \A u \in Tabs : TabInv(tab'[u], session')
    BY <1>3, <2>1, Links DEF SignUpForm
  <2>3. links' \subseteq [of : People, type : Types]
    BY <1>3, <2>1, Mails DEF SignUpForm
  <2> QED BY <1>3, <2>2, <2>3, Others DEF SignUpForm
<1>4. ASSUME NEW t \in Tabs, NEW p \in People, ResendVerificationButton(t, p) PROVE PagesInv'
  <2>1. links' \subseteq [of : People, type : Types]
    BY <1>4, Mails DEF ResendVerificationButton, Types
  <2> QED BY <1>4, <2>1, Others DEF ResendVerificationButton
<1>5. ASSUME NEW t \in Tabs, NEW p \in People, ForgotPasswordForm(t, p) PROVE PagesInv'
  <2>1. links' \subseteq [of : People, type : Types]
    BY <1>5, Mails DEF ForgotPasswordForm, Types
  <2> QED BY <1>5, <2>1, Others DEF ForgotPasswordForm
<1>6. ASSUME NEW t \in Tabs, ChangePasswordForm(t) PROVE PagesInv'
  <2>1. tab' \in [Tabs -> Tab] /\ \A u \in Tabs : TabInv(tab'[u], session')
    BY <1>6, Refreshes DEF ChangePasswordForm
  <2> QED BY <1>6, <2>1, Others DEF ChangePasswordForm
<1>7. ASSUME NEW t \in Tabs, ChangeEmailForm(t) PROVE PagesInv'
  <2>1. tab' \in [Tabs -> Tab] /\ \A u \in Tabs : TabInv(tab'[u], session')
    BY <1>7, Refreshes DEF ChangeEmailForm
  <2>2. Mine(t) \in People /\ "email_change" \in Types
    BY <1>7 DEF ChangeEmailForm, Mine, TabInv, Tab, Reader, Types
  <2>3. links' \subseteq [of : People, type : Types]
    BY <1>7, <2>2, Mails DEF ChangeEmailForm
  <2> QED BY <1>7, <2>1, <2>3, Others DEF ChangeEmailForm
<1>8. ASSUME NEW t \in Tabs, CreateOrganizationForm(t) PROVE PagesInv'
  <2>1. "/dashboard" \in Urls
    BY DEF Urls, App
  <2>2. tab' \in [Tabs -> Tab] /\ \A u \in Tabs : TabInv(tab'[u], session')
    BY <1>8, <2>1, Loads DEF CreateOrganizationForm
  <2>3. Mine(t) \in People
    BY <1>8 DEF CreateOrganizationForm, Mine, TabInv, Tab, Reader
  <2>4. count' \in [People -> 0 .. MaxOrganizations]
    <3>1. ASSUME NEW p \in People, count[p] < MaxOrganizations
          PROVE  [count EXCEPT ![p] = @ + 1] \in [People -> 0 .. MaxOrganizations]
      <4>1. count[p] \in 0 .. MaxOrganizations /\ MaxOrganizations \in Nat
        BY WebPagesAssumption
      <4>2. count[p] + 1 \in 0 .. MaxOrganizations
        BY <3>1, <4>1
      <4> QED BY <4>2
    <3> QED BY <1>8, <2>3, <3>1 DEF CreateOrganizationForm
  <2> QED BY <1>8, <2>2, <2>4, Others DEF CreateOrganizationForm
<1>9. ASSUME NEW t \in Tabs, SignedOut(t) PROVE PagesInv'
  <2>1. "/login" \in Urls
    BY DEF Urls, Public
  <2>2. tab' \in [Tabs -> Tab] /\ \A u \in Tabs : TabInv(tab'[u], session')
    BY <1>9, <2>1, Loads DEF SignedOut
  <2> QED BY <1>9, <2>2, Others DEF SignedOut
<1>10. ASSUME NEW t \in Tabs, middleware(t) PROVE PagesInv'
  <2>1. TabInv([NewTab(tab[t].at) EXCEPT !.doc = "limited"], session)
    <3>1. tab[t].at \in Places /\ "public" \in Origins
      BY DEF Tab, Origins
    <3> QED BY <3>1, NewTabs
  <2>2. tab' \in [Tabs -> Tab] /\ \A u \in Tabs : TabInv(tab'[u], session')
    BY <1>10, <2>1, OneTab DEF middleware
  <2> QED BY <1>10, <2>2, Others DEF middleware
<1>11. ASSUME NEW link \in links, LinkExpires(link) PROVE PagesInv'
  BY <1>11 DEF LinkExpires, ResetIsForTheLink
<1>12. CASE UNCHANGED pagesVars
  BY <1>12 DEF pagesVars, ResetIsForTheLink
<1> QED
  BY <1>1, <1>2, <1>3, <1>4, <1>5, <1>6, <1>7, <1>8, <1>9, <1>10, <1>11, <1>12,
     Served, SessionEnded, LoggedIn, LoggedOut, Routed, PasswordReset, Confirmed
  DEF PagesNext

-----------------------------------------------------------------------------
(* The theorems.                                                            *)

LEMMA PagesAlways == PagesSpec => []PagesInv
<1>1. PagesInit => PagesInv
  BY FirstPages
<1>2. PagesInv /\ [PagesNext]_pagesVars => PagesInv'
  BY StepPages
<1> QED BY <1>1, <1>2, PTL DEF PagesSpec

\* Tabs, links and the browser's session stay well-typed, whatever is clicked,
\* rendered or opened from a mail in between.
THEOREM PagesTypeCorrect == PagesSpec => []PagesTypeOK
<1>1. PagesInv => PagesTypeOK
  BY DEF PagesInv, PagesTypeOK, Tab
<1> QED BY <1>1, PagesAlways, PTL

\* An application's page is bare, or an error, only where the session was
\* changed elsewhere after its layout was rendered.
THEOREM PagesGuarded == PagesSpec => []GuardedPages
<1>1. PagesInv => GuardedPages
  <2>1. ASSUME PagesInv, NEW t \in Tabs
        PROVE  Guarded(tab[t], session)
    BY <2>1 DEF PagesInv, TabInv
  <2>2. ASSUME PagesInv, NEW t \in Tabs, tab[t].at \in App,
               tab[t].doc = "error" \/ (tab[t].doc = "page" /\ tab[t].reader = Nobody)
        PROVE  tab[t].unguarded
    BY <2>1, <2>2 DEF Guarded
  <2> QED BY <2>2 DEF GuardedPages
<1> QED BY <1>1, PagesAlways, PTL

\* auth/confirm: a link that opens a session leads to the page it asks for, with
\* that session, and to /orgs if it asks for none of this site, or to the other
\* site that new URL takes it for: for whatever page of the site is asked for.
THEOREM LinksDoLand == PagesSpec => []LinksLand
<1>1. PagesInv => LinksLand
  BY DEF PagesInv, TabInv, Landed, Tab, LinksLand, Shown, Landings
<1> QED BY <1>1, PagesAlways, PTL

\* The reset form: a password set behind a recovery link is that of the link's
\* account.
THEOREM ResetsAreForTheLink == PagesSpec => []ResetIsForTheLink
<1>1. PagesInv => ResetIsForTheLink
  BY DEF PagesInv
<1> QED BY <1>1, PagesAlways, PTL
=============================================================================
