--------------------------- MODULE OperatorAccess ---------------------------
(***************************************************************************)
(* Who may use the backoffice: operators invite one another by email,       *)
(* accept with the emailed token, and revoke operators and invitations      *)
(* (packages/auth/src/flows/operator-invitations.ts and apps/admin/lib).    *)
(*                                                                         *)
(* Every server action is a request of its own and awaits one SQL           *)
(* statement or one API call at a time, with no transaction around them.    *)
(* An action of this module is one awaited statement together with the      *)
(* code up to the next one, so requests interleave where they can.          *)
(* The MFA part of the gate is in AdminMfa; who is called by which id, the  *)
(* inviter's name and the text of the email are left out.                   *)
(***************************************************************************)
EXTENDS Naturals, FiniteSets

CONSTANTS
    People,       \* each the owner of one email address
    Founders,     \* the operators seeded outside the application
    Calls,        \* the requests that may be in flight at one time
    NoOne,        \* no person
    MaxCalls,     \* bound: requests in a behaviour
    MaxDeaths     \* bound: requests that die between two statements

ASSUME OperatorAccessAssumption ==
    /\ Founders \subseteq People
    /\ NoOne \notin People
    /\ MaxCalls \in Nat
    /\ MaxDeaths \in Nat

VARIABLES
    account,     \* auth.users: the people who have an account
    active,      \* admin_users rows whose revoked_at is null
    invitation,  \* operator_invitations; an unused key holds Absent
    mailbox,     \* tokens that were emailed to their invitee
    audit,       \* admin_audit_log
    call,        \* the requests in flight
    nextCall,    \* the number of the next request
    changes,     \* observed: changes of operators and invitations made
    used,        \* observed: the tokens that granted access
    torn,        \* observed: the requests that died
    serial       \* observed: so far no two requests overlapped, none died

tables == <<account, active, invitation, audit>>
ghosts == <<changes, used, torn, serial>>
vars == <<tables, mailbox, call, nextCall, ghosts>>

\* The keys of operator_invitations and the tokens are random and never
\* repeat: here each is the number of the request that generated it.
Number == 1 .. MaxCalls
None == 0

Status == {"absent", "pending", "accepted", "revoked"}
Row == [email : People \cup {NoOne}, token : Number \cup {None},
        status : Status, expired : BOOLEAN]
Absent == [email |-> NoOne, token |-> None, status |-> "absent",
           expired |-> FALSE]

\* Where a request is: the statement it will execute next.
Step == {"idle", "checkActive", "findPending", "resend", "create", "email",
         "findAccount", "provision", "grant", "mark",
         "revoke", "revokeInvitation", "audit"}
ChangeKind == {"none", "created", "resent", "accepted",
               "operatorRevoked", "invitationRevoked"}

\* The locals of a request: who acts, on whose email or which operator, on
\* which row, with which token, and what the audit entry will say.
Call == [pc : Step, actor : People \cup {NoOne}, person : People \cup {NoOne},
         row : Number \cup {None}, token : Number \cup {None},
         number : Number \cup {None}, kind : ChangeKind]
Idle == [pc |-> "idle", actor |-> NoOne, person |-> NoOne, row |-> None,
         token |-> None, number |-> None, kind |-> "none"]
Entry == [number : Number, kind : ChangeKind, actor : People,
          person : People \cup {NoOne}, row : Number \cup {None}]

TypeOK ==
    /\ account \in SUBSET People
    /\ active \in SUBSET account  \* admin_users.user_id references auth.users
    /\ invitation \in [Number -> Row]
    /\ mailbox \in SUBSET Number
    /\ audit \in SUBSET Entry
    /\ call \in [Calls -> Call]
    /\ nextCall \in 1 .. MaxCalls + 1
    /\ changes \in SUBSET Entry
    /\ used \in SUBSET Number
    /\ torn \in SUBSET Number
    /\ serial \in BOOLEAN

Init ==
    /\ account \in {a \in SUBSET People : Founders \subseteq a}
    /\ active = Founders
    /\ invitation = [i \in Number |-> Absent]
    /\ mailbox = {}
    /\ audit = {}
    /\ call = [c \in Calls |-> Idle]
    /\ nextCall = 1
    /\ changes = {}
    /\ used = {}
    /\ torn = {}
    /\ serial = TRUE

-----------------------------------------------------------------------------
(* Helpers: the life of a request.                                          *)

\* The request goes on with the locals k.
Continue(c, k) == call' = [call EXCEPT ![c] = k]

\* A request passes its gate with the given first statement and locals.
Begin(c, start) ==
    /\ call[c].pc = "idle"
    /\ nextCall <= MaxCalls
    /\ Continue(c, start)
    /\ nextCall' = nextCall + 1
    /\ serial' = (serial /\ \A d \in Calls : call[d].pc = "idle")
    /\ UNCHANGED <<tables, mailbox, changes, used, torn>>

\* The request goes on to the statement s.
GoTo(c, s) == Continue(c, [call[c] EXCEPT !.pc = s])

\* The request returns, or throws, without another statement.
Finish(c) == Continue(c, Idle)

\* What the audit entry of c's change says (writeAdminAudit).
EntryOf(c, kind, row) ==
    [number |-> call[c].number, kind |-> kind, actor |-> call[c].actor,
     person |-> call[c].person, row |-> row]

-----------------------------------------------------------------------------
(* inviteOperatorAction -> createOperatorInvitation.                        *)

\* requireOperator: the admin_users row of the actor is not revoked.
BeginInvite(c, actor, p) ==
    /\ actor \in active
    /\ Begin(c, [Idle EXCEPT !.pc = "checkActive", !.actor = actor,
                             !.person = p, !.number = nextCall])

\* Deviation: nobody asks whether the invitee is an operator already.
CheckActiveSkipped(c) ==
    /\ call[c].pc = "checkActive"
    /\ GoTo(c, "findPending")
    /\ UNCHANGED <<tables, mailbox, nextCall, ghosts>>

\* isActiveOperatorEmail: an active operator is not invited again.
CheckActive(c) ==
    /\ call[c].pc = "checkActive"
    /\ IF call[c].person \in active THEN Finish(c) ELSE GoTo(c, "findPending")
    /\ UNCHANGED <<tables, mailbox, nextCall, ghosts>>

\* A row that is pending for p.
PendingFor(p, i) ==
    invitation[i].email = p /\ invitation[i].status = "pending"

\* findPendingInvitationByEmail decides between resending and creating.
FindPending(c) ==
    /\ call[c].pc = "findPending"
    /\ \/ \E i \in Number :
            /\ PendingFor(call[c].person, i)
            /\ Continue(c, [call[c] EXCEPT !.pc = "resend", !.row = i])
       \/ /\ \A i \in Number : ~PendingFor(call[c].person, i)
          /\ GoTo(c, "create")
    /\ UNCHANGED <<tables, mailbox, nextCall, ghosts>>

\* operator_invitations_pending_email_idx: no second pending row for an email.
IndexAllows(p, i) == \A j \in Number \ {i} : ~PendingFor(p, j)

\* Row i becomes the pending invitation of c's person, with a new token.
WriteInvitation(c, i, kind) ==
    /\ invitation' = [invitation EXCEPT ![i] =
           [email |-> call[c].person, token |-> call[c].number,
            status |-> "pending", expired |-> FALSE]]
    /\ Continue(c, [call[c] EXCEPT !.pc = "email", !.row = i,
                                !.token = call[c].number, !.kind = kind])
    /\ changes' = changes \cup {EntryOf(c, kind, i)}
    /\ UNCHANGED <<account, active, audit, mailbox, nextCall,
                   used, torn, serial>>

\* resendInvitation: UPDATE by id, whatever the row's status has become.
Resend(c) ==
    /\ call[c].pc = "resend"
    /\ IndexAllows(call[c].person, call[c].row)
    /\ WriteInvitation(c, call[c].row, "resent")

\* Deviation: the email goes out only when an invitation is resent.
CreateUnmailed(c) ==
    /\ call[c].pc = "create"
    /\ LET i == call[c].number IN
       /\ IndexAllows(call[c].person, i)
       /\ invitation' = [invitation EXCEPT ![i] =
              [email |-> call[c].person, token |-> i,
               status |-> "pending", expired |-> FALSE]]
       /\ Continue(c, [call[c] EXCEPT !.pc = "audit", !.row = i,
                                   !.token = i, !.kind = "created"])
       /\ changes' = changes \cup {EntryOf(c, "created", i)}
    /\ UNCHANGED <<account, active, audit, mailbox, nextCall,
                   used, torn, serial>>

\* createInvitation: INSERT of a new row.
Create(c) ==
    /\ call[c].pc = "create"
    /\ IndexAllows(call[c].person, call[c].number)
    /\ WriteInvitation(c, call[c].number, "created")

\* The write of either violates the unique index, and the request throws.
Conflict(c) ==
    /\ call[c].pc \in {"resend", "create"}
    /\ \E i \in Number \ {call[c].row} : PendingFor(call[c].person, i)
    /\ Finish(c)
    /\ UNCHANGED <<tables, mailbox, nextCall, ghosts>>

\* sendInvitationEmail.
SendEmail(c) ==
    /\ call[c].pc = "email"
    /\ mailbox' = mailbox \cup {call[c].token}
    /\ GoTo(c, "audit")
    /\ UNCHANGED <<tables, nextCall, ghosts>>
-----------------------------------------------------------------------------
(* acceptOperatorInvitationAction -> acceptOperatorInvitation; no gate, the *)
(* bearer of an emailed token may call it any number of times.              *)

\* findInvitationByTokenHash and isOperatorInvitationAcceptable.
Acceptable(i, t) ==
    /\ invitation[i].token = t
    /\ invitation[i].status = "pending"
    /\ ~invitation[i].expired

BeginAccept(c, t, i) ==
    /\ t \in mailbox
    /\ Acceptable(i, t)
    /\ Begin(c, [Idle EXCEPT !.pc = "findAccount", !.actor = invitation[i].email,
                             !.person = invitation[i].email, !.row = i,
                             !.token = t, !.number = nextCall])

\* findUserIdByEmail; without an account the password must be strong enough.
FindAccount(c) ==
    /\ call[c].pc = "findAccount"
    /\ \/ call[c].person \in account /\ GoTo(c, "grant")
       \/ call[c].person \notin account /\ GoTo(c, "provision")
       \/ call[c].person \notin account /\ Finish(c)
    /\ UNCHANGED <<tables, mailbox, nextCall, ghosts>>

\* provisionUser: createUser throws when the address is taken by now.
Provision(c) ==
    /\ call[c].pc = "provision"
    /\ IF call[c].person \in account THEN Finish(c) ELSE GoTo(c, "grant")
    /\ account' = account \cup {call[c].person}
    /\ UNCHANGED <<active, invitation, audit, mailbox, nextCall,
                   ghosts>>

\* grantOperator: upsert that also clears revoked_at.
Grant(c) ==
    /\ call[c].pc = "grant"
    /\ active' = active \cup {call[c].person}
    /\ used' = used \cup {call[c].token}
    /\ Continue(c, [call[c] EXCEPT !.pc = "mark", !.kind = "accepted"])
    /\ changes' = changes \cup {EntryOf(c, "accepted", call[c].row)}
    /\ UNCHANGED <<account, invitation, audit, mailbox, nextCall,
                   torn, serial>>

\* Deviation: the grant is not followed by markAccepted.
LeaveUnmarked(c) ==
    /\ call[c].pc = "mark"
    /\ GoTo(c, "audit")
    /\ UNCHANGED <<tables, mailbox, nextCall, ghosts>>

\* markAccepted: UPDATE by id, whatever the row's status has become.
MarkAccepted(c) ==
    /\ call[c].pc = "mark"
    /\ invitation' = [invitation EXCEPT ![call[c].row].status = "accepted"]
    /\ GoTo(c, "audit")
    /\ UNCHANGED <<account, active, audit, mailbox, nextCall,
                   ghosts>>

-----------------------------------------------------------------------------
(* revokeOperatorAction, revokeOperatorInvitationAction and the audit log.  *)

\* Deviation: an operator may name themselves.
BeginRevokeAnyone(c, actor, p) ==
    /\ actor \in active
    /\ Begin(c, [Idle EXCEPT !.pc = "revoke", !.actor = actor,
                             !.person = p, !.number = nextCall])

\* requireOperator, and the actor does not name themselves.
BeginRevoke(c, actor, p) ==
    /\ actor \in active
    /\ p # actor
    /\ Begin(c, [Idle EXCEPT !.pc = "revoke", !.actor = actor,
                             !.person = p, !.number = nextCall])

\* Deviation: the number of updated rows is not looked at.
RevokeUnchecked(c) ==
    /\ call[c].pc = "revoke"
    /\ active' = active \ {call[c].person}
    /\ Continue(c, [call[c] EXCEPT !.pc = "audit",
                                !.kind = "operatorRevoked"])
    /\ changes' = IF call[c].person \in active
                  THEN changes \cup {EntryOf(c, "operatorRevoked", None)}
                  ELSE changes
    /\ UNCHANGED <<account, invitation, audit, mailbox, nextCall,
                   used, torn, serial>>

\* revokeOperator: sets revoked_at where it is null, and reports if it did.
Revoke(c) ==
    /\ call[c].pc = "revoke"
    /\ \/ /\ call[c].person \in active
          /\ active' = active \ {call[c].person}
          /\ Continue(c, [call[c] EXCEPT !.pc = "audit",
                                      !.kind = "operatorRevoked"])
          /\ changes' = changes \cup {EntryOf(c, "operatorRevoked", None)}
       \/ /\ call[c].person \notin active
          /\ Finish(c)
          /\ UNCHANGED <<active, changes>>
    /\ UNCHANGED <<account, invitation, audit, mailbox, nextCall,
                   used, torn, serial>>

\* The id comes from the list of pending invitations the page showed.
BeginRevokeInvitation(c, actor, i) ==
    /\ actor \in active
    /\ invitation[i].status # "absent"
    /\ Begin(c, [Idle EXCEPT !.pc = "revokeInvitation", !.actor = actor,
                             !.row = i, !.number = nextCall])

\* revokeOperatorInvitation: only a row that is still pending.
RevokeInvitation(c) ==
    /\ call[c].pc = "revokeInvitation"
    /\ LET i == call[c].row IN
       \/ /\ invitation[i].status = "pending"
          /\ invitation' = [invitation EXCEPT ![i].status = "revoked"]
          /\ Continue(c, [call[c] EXCEPT !.pc = "audit",
                                      !.kind = "invitationRevoked"])
          /\ changes' = changes \cup {EntryOf(c, "invitationRevoked", i)}
       \/ /\ invitation[i].status # "pending"
          /\ Finish(c)
          /\ UNCHANGED <<invitation, changes>>
    /\ UNCHANGED <<account, active, audit, mailbox, nextCall,
                   used, torn, serial>>

\* Deviation: accepting an invitation writes no entry.
SkipAuditOfAccept(c) ==
    /\ call[c].pc = "audit"
    /\ audit' = IF call[c].kind = "accepted" THEN audit
                ELSE audit \cup {EntryOf(c, call[c].kind, call[c].row)}
    /\ Finish(c)
    /\ UNCHANGED <<account, active, invitation, mailbox, nextCall,
                   ghosts>>

\* writeAdminAudit, the last statement of every request that changed something.
WriteAudit(c) ==
    /\ call[c].pc = "audit"
    /\ audit' = audit \cup {EntryOf(c, call[c].kind, call[c].row)}
    /\ Finish(c)
    /\ UNCHANGED <<account, active, invitation, mailbox, nextCall,
                   ghosts>>

-----------------------------------------------------------------------------
(* The environment.                                                         *)

\* A request dies: a statement or the email fails, or the process ends.
Die(c) ==
    /\ call[c].pc # "idle"
    /\ Cardinality(torn) < MaxDeaths
    /\ torn' = torn \cup {call[c].number}
    /\ Finish(c)
    /\ serial' = FALSE
    /\ UNCHANGED <<tables, mailbox, nextCall, changes, used>>

\* Seven days pass: expires_at of a row is no longer in the future.
Expire(i) ==
    /\ invitation[i].status = "pending"
    /\ ~invitation[i].expired
    /\ invitation' = [invitation EXCEPT ![i].expired = TRUE]
    /\ UNCHANGED <<account, active, audit, mailbox, call, nextCall, ghosts>>

\* Somebody signs up in apps/web.
SignUp(p) ==
    /\ p \notin account
    /\ account' = account \cup {p}
    /\ UNCHANGED <<active, invitation, audit, mailbox, call, nextCall, ghosts>>

-----------------------------------------------------------------------------

Invite(c) == CheckActive(c) \/ FindPending(c) \/ Resend(c) \/ Create(c)
                \/ Conflict(c) \/ SendEmail(c)
Accept(c) == FindAccount(c) \/ Provision(c) \/ Grant(c) \/ MarkAccepted(c)
Withdraw(c) == Revoke(c) \/ RevokeInvitation(c)
BeginSome(c) ==
    \/ \E a \in People, p \in People : BeginInvite(c, a, p)
                                      \/ BeginRevoke(c, a, p)
    \/ \E a \in People, i \in Number : BeginRevokeInvitation(c, a, i)
    \/ \E t \in Number, i \in Number : BeginAccept(c, t, i)

Next ==
    \/ \E c \in Calls : \/ BeginSome(c) \/ Invite(c) \/ Accept(c)
                       \/ Withdraw(c) \/ WriteAudit(c) \/ Die(c)
    \/ \E i \in Number : Expire(i)
    \/ \E p \in People : SignUp(p)

Spec == Init /\ [][Next]_vars

-----------------------------------------------------------------------------
(* Properties.                                                              *)

\* A token that granted access is dead: no row would accept it again, except
\* between the grant and markAccepted, or when the request died in between.
UsedTokenIsDead ==
    \A t \in used, i \in Number :
        invitation[i].token = t /\ invitation[i].status = "pending" =>
            \/ \E c \in Calls : /\ call[c].pc = "mark"
                              /\ call[c].row = i
                              /\ call[c].token = t
            \/ \E e \in changes : /\ e.kind = "accepted"
                                 /\ e.row = i
                                 /\ e.number \in torn

\* A pending invitation can be used: its token was emailed, or the request
\* that wrote the token is about to email it, or died before it could.
PendingIsDelivered ==
    \A i \in Number : invitation[i].status = "pending" =>
        LET t == invitation[i].token IN
        t \in mailbox \cup torn \/ \E c \in Calls : /\ call[c].pc = "email"
                                                /\ call[c].token = t

\* The audit log tells of nothing that did not happen: of two requests that
\* revoke the same operator or invitation, only the one that did is there.
AuditIsTruthful == audit \subseteq changes

\* A change that the log does not tell of belongs to a request that is still
\* on its way to writing the entry, or that died on the way.
AuditLagsOnlyDeaths ==
    \A e \in changes \ audit :
        \/ e.number \in torn
        \/ \E c \in Calls : /\ call[c].number = e.number
                          /\ call[c].pc \in {"email", "mark", "audit"}

\* The backoffice is left without operators only by operators revoking each
\* other: whoever revokes the last one was revoked after passing the gate.
LockoutNeedsRace ==
    [][active # {} /\ active' = {} =>
         \E c \in Calls : call[c].pc = "revoke" /\ call[c].actor \notin active]_vars

\* Whether an invitation of p is accepted, or is just being marked so.
Welcomed(p, i) ==
    /\ invitation[i].email = p
    /\ \/ invitation[i].status = "accepted"
       \/ \E c \in Calls : call[c].pc = "mark" /\ call[c].row = i

\* While requests come one at a time, operators and invitations agree: an
\* operator is a founder or accepted an invitation, and holds no open one.
OperatorsMatchInvitations ==
    serial => \A p \in active :
        /\ p \in Founders \/ \E i \in Number : Welcomed(p, i)
        /\ \A i \in Number : PendingFor(p, i) => Welcomed(p, i)

=============================================================================
