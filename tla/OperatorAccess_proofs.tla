----------------------- MODULE OperatorAccess_proofs -----------------------
(***************************************************************************)
(* Theorems about OperatorAccess, for every set of people and founders and  *)
(* any number of requests in flight.                                        *)
(***************************************************************************)
EXTENDS OperatorAccess, TLAPS

\* The statements before an invitation is written, those of an acceptance up
\* to its end, and those after a change of operators or invitations.
BeforeWrite == {"checkActive", "findPending", "resend", "create"}
Accepting   == {"findAccount", "provision", "grant", "mark"}
Changed     == {"email", "mark", "audit"}

\* The locals that a request has set by the statement it is at.
LocalsFit(k, acc, next) ==
    /\ k.pc # "idle" => k.number \in Number /\ k.number < next
                        /\ k.actor \in People
    /\ k.pc \in BeforeWrite \cup Accepting \cup {"revoke"} => k.person \in People
    /\ k.pc \in Accepting \cup {"resend", "revokeInvitation"} => k.row \in Number
    /\ k.pc \in Accepting \cup {"email"} => k.token \in Number
    /\ k.pc \in {"grant", "mark"} => k.person \in acc
    /\ k.pc = "revoke" => k.person # k.actor /\ k.row = None
    /\ k.pc = "email" => k.token = k.number
    /\ k.pc = "mark" => k.kind = "accepted"

RequestLocals == \A c \in Calls : LocalsFit(call[c], account, nextCall)

RowFits(r) == r.status = "pending" => r.email \in People /\ r.token \in Number

RowsFilled == \A i \in Number : RowFits(invitation[i])

WellFormed == TypeOK /\ RequestLocals /\ RowsFilled

LEMMA NumberType == Number \in SUBSET Nat /\ None \notin Number
BY OperatorAccessAssumption DEF Number, None

LEMMA InitWellFormed == Init => WellFormed
BY OperatorAccessAssumption, NumberType
   DEF Init, WellFormed, TypeOK, RequestLocals, LocalsFit, RowsFilled, RowFits,
       Row, Absent, Status, Call, Idle, Step, ChangeKind, BeforeWrite, Accepting

\* Replacing the locals of one request.
LEMMA ContinueWellFormed ==
    ASSUME WellFormed, NEW c \in Calls, NEW k \in Call, Continue(c, k),
           account \subseteq account', nextCall' \in Nat, nextCall <= nextCall',
           LocalsFit(k, account', nextCall')
    PROVE  call' \in [Calls -> Call] /\ RequestLocals'
<1>1. call' \in [Calls -> Call]
  BY DEF WellFormed, TypeOK, Continue
<1>2. ASSUME NEW d \in Calls, d # c PROVE LocalsFit(call'[d], account', nextCall')
  <2>1. call'[d] = call[d] /\ LocalsFit(call[d], account, nextCall) /\ call[d] \in Call
    BY <1>2 DEF WellFormed, TypeOK, RequestLocals, Continue
  <2>2. nextCall \in Nat
    BY NumberType, OperatorAccessAssumption DEF WellFormed, TypeOK
  <2>3. call[d].number \in Number => call[d].number \in Nat
    BY NumberType
  <2>4. QED
    BY <2>1, <2>2, <2>3 DEF LocalsFit
<1>3. LocalsFit(call'[c], account', nextCall')
  BY DEF WellFormed, TypeOK, Continue
<1>4. QED
  BY <1>1, <1>2, <1>3 DEF RequestLocals

\* Rewriting one row.
LEMMA RowWellFormed ==
    ASSUME WellFormed, NEW i \in Number, NEW r \in Row, RowFits(r),
           invitation' = [invitation EXCEPT ![i] = r]
    PROVE  invitation' \in [Number -> Row] /\ RowsFilled'
BY DEF WellFormed, TypeOK, RowsFilled, RowFits

\* What a request that is not idle writes into the log.
LEMMA EntryType ==
    ASSUME WellFormed, NEW c \in Calls, call[c].pc # "idle",
           NEW kind \in ChangeKind, NEW i \in Number \cup {None}
    PROVE  EntryOf(c, kind, i) \in Entry
<1>1. call[c] \in Call /\ call[c].number \in Number /\ call[c].actor \in People
  BY DEF WellFormed, TypeOK, RequestLocals, LocalsFit
<1>2. QED
  BY <1>1 DEF EntryOf, Entry, Call

\* A request that ends is idle, and idle locals fit any state.
LEMMA IdleFits ==
    /\ Idle \in Call
    /\ LocalsFit(Idle, account, nextCall)
    /\ LocalsFit(Idle, account', nextCall')
BY DEF Idle, Call, Step, ChangeKind, None, LocalsFit, BeforeWrite, Accepting

\* A request begins before any change, with a number of its own.
LEMMA BeginStart ==
    ASSUME WellFormed, NEW c \in Calls, BeginSome(c)
    PROVE  \E k \in Call :
             /\ Begin(c, k) /\ LocalsFit(k, account', nextCall')
             /\ k.number = nextCall
             /\ \/ k.pc \in {"checkActive", "revoke", "revokeInvitation"}
                \/ /\ k.pc = "findAccount" /\ k.token \in mailbox
                   /\ k.row \in Number /\ invitation[k.row].token = k.token
                   /\ PendingFor(k.person, k.row)
<1>1. CASE \E a \in People, p \in People : BeginInvite(c, a, p)
  <2>1. PICK a \in People, p \in People : BeginInvite(c, a, p)
    BY <1>1
  <2> DEFINE k == [Idle EXCEPT !.pc = "checkActive", !.actor = a,
                               !.person = p, !.number = nextCall]
  <2>2. nextCall \in Number /\ nextCall \in Nat /\ nextCall' = nextCall + 1
    BY <2>1, OperatorAccessAssumption DEF BeginInvite, Begin, Number, WellFormed, TypeOK
  <2>3. k \in Call /\ LocalsFit(k, account', nextCall')
    <3>1. k \in Call
      BY <2>2 DEF Idle, Call, Step, ChangeKind
    <3>2. LocalsFit(k, account', nextCall')
      BY <2>2 DEF Idle, LocalsFit, BeforeWrite, Accepting
    <3>3. QED
      BY <3>1, <3>2
  <2>4. QED
    BY <2>1, <2>3 DEF BeginInvite, Idle
<1>2. CASE \E a \in People, p \in People : BeginRevoke(c, a, p)
  <2>1. PICK a \in People, p \in People : BeginRevoke(c, a, p)
    BY <1>2
  <2> DEFINE k == [Idle EXCEPT !.pc = "revoke", !.actor = a,
                               !.person = p, !.number = nextCall]
  <2>2. nextCall \in Number /\ nextCall \in Nat /\ nextCall' = nextCall + 1 /\ p # a
    BY <2>1, OperatorAccessAssumption DEF BeginRevoke, Begin, Number, WellFormed, TypeOK
  <2>3. k \in Call /\ LocalsFit(k, account', nextCall')
    <3>1. k \in Call
      BY <2>2 DEF Idle, Call, Step, ChangeKind
    <3>2. LocalsFit(k, account', nextCall')
      BY <2>2 DEF Idle, LocalsFit, BeforeWrite, Accepting
    <3>3. QED
      BY <3>1, <3>2
  <2>4. QED
    BY <2>1, <2>3 DEF BeginRevoke, Idle
<1>3. CASE \E a \in People, i \in Number : BeginRevokeInvitation(c, a, i)
  <2>1. PICK a \in People, i \in Number : BeginRevokeInvitation(c, a, i)
    BY <1>3
  <2> DEFINE k == [Idle EXCEPT !.pc = "revokeInvitation", !.actor = a,
                               !.row = i, !.number = nextCall]
  <2>2. nextCall \in Number /\ nextCall \in Nat /\ nextCall' = nextCall + 1
    BY <2>1, OperatorAccessAssumption
       DEF BeginRevokeInvitation, Begin, Number, WellFormed, TypeOK
  <2>3. k \in Call /\ LocalsFit(k, account', nextCall')
    <3>1. k \in Call
      BY <2>2 DEF Idle, Call, Step, ChangeKind
    <3>2. LocalsFit(k, account', nextCall')
      BY <2>2 DEF Idle, LocalsFit, BeforeWrite, Accepting
    <3>3. QED
      BY <3>1, <3>2
  <2>4. QED
    BY <2>1, <2>3 DEF BeginRevokeInvitation, Idle
<1>4. CASE \E t \in Number, i \in Number : BeginAccept(c, t, i)
  <2>1. PICK t \in Number, i \in Number : BeginAccept(c, t, i)
    BY <1>4
  <2>2. PICK p \in People : p = invitation[i].email
    BY <2>1 DEF BeginAccept, Acceptable, WellFormed, RowsFilled, RowFits
  <2> DEFINE k == [Idle EXCEPT !.pc = "findAccount", !.actor = p, !.person = p,
                               !.row = i, !.token = t, !.number = nextCall]
  <2>3. nextCall \in Number /\ nextCall \in Nat /\ nextCall' = nextCall + 1
    BY <2>1, OperatorAccessAssumption DEF BeginAccept, Begin, Number, WellFormed, TypeOK
  <2>4. k \in Call /\ LocalsFit(k, account', nextCall')
    <3>1. k \in Call
      BY <2>3 DEF Idle, Call, Step, ChangeKind
    <3>2. LocalsFit(k, account', nextCall')
      BY <2>3 DEF Idle, LocalsFit, BeforeWrite, Accepting
    <3>3. QED
      BY <3>1, <3>2
  <2>5. QED
    BY <2>1, <2>2, <2>4 DEF BeginAccept, Acceptable, PendingFor, Idle
<1>5. QED
  BY <1>1, <1>2, <1>3, <1>4 DEF BeginSome

LEMMA BeginWellFormed ==
    ASSUME WellFormed, NEW c \in Calls, BeginSome(c)
    PROVE  WellFormed'
<1>1. PICK k \in Call : Begin(c, k) /\ LocalsFit(k, account', nextCall')
  BY BeginStart
<1>2. nextCall \in 1 .. MaxCalls /\ nextCall' = nextCall + 1
  BY <1>1, OperatorAccessAssumption DEF Begin, WellFormed, TypeOK
<1>3. Continue(c, k) /\ UNCHANGED <<tables, mailbox, changes, used, torn>>
      /\ serial' \in BOOLEAN
  BY <1>1 DEF Begin, WellFormed, TypeOK
<1>4. call' \in [Calls -> Call] /\ RequestLocals'
  BY <1>1, <1>2, <1>3, ContinueWellFormed, OperatorAccessAssumption DEF tables
<1>5. RowsFilled'
  BY <1>3 DEF WellFormed, RowsFilled, RowFits, tables
<1>6. TypeOK'
  BY <1>2, <1>3, <1>4, OperatorAccessAssumption DEF WellFormed, TypeOK, tables
<1>7. QED
  BY <1>4, <1>5, <1>6 DEF WellFormed

\* A request moves to the statement s without having written anything.
LEMMA MoveWellFormed ==
    ASSUME WellFormed, NEW c \in Calls, NEW k \in Call, Continue(c, k), LocalsFit(k, account, nextCall),
           UNCHANGED <<tables, nextCall, ghosts>>, mailbox' \in SUBSET Number
    PROVE  WellFormed'
<1>1. nextCall \in Nat /\ nextCall' = nextCall /\ account' = account
  BY OperatorAccessAssumption DEF WellFormed, TypeOK, tables
<1>2. LocalsFit(k, account', nextCall')
  BY <1>1 DEF LocalsFit
<1>3. call' \in [Calls -> Call] /\ RequestLocals'
  BY <1>1, <1>2, ContinueWellFormed
<1>4. QED
  BY <1>3 DEF WellFormed, TypeOK, RowsFilled, RowFits, tables, ghosts

LEMMA InviteWellFormed ==
    ASSUME WellFormed, NEW c \in Calls, Invite(c)
    PROVE  WellFormed'
<1>0. call[c] \in Call /\ LocalsFit(call[c], account, nextCall) /\ mailbox \in SUBSET Number
  BY DEF WellFormed, TypeOK, RequestLocals
<1>1. CASE CheckActive(c)
  <2> DEFINE k == [call[c] EXCEPT !.pc = "findPending"]
  <2>1. k \in Call /\ LocalsFit(k, account, nextCall)
    BY <1>0, <1>1 DEF CheckActive, Call, Step, LocalsFit, BeforeWrite, Accepting
  <2>2. Continue(c, Idle) \/ Continue(c, k)
    BY <1>1 DEF CheckActive, Finish, GoTo
  <2>3. QED
    BY <1>0, <1>1, <2>1, <2>2, IdleFits, MoveWellFormed DEF CheckActive
<1>2. CASE FindPending(c)
  <2>1. CASE \E i \in Number : /\ PendingFor(call[c].person, i)
                               /\ Continue(c, [call[c] EXCEPT !.pc = "resend", !.row = i])
    <3>1. PICK i \in Number : Continue(c, [call[c] EXCEPT !.pc = "resend", !.row = i])
      BY <2>1
    <3> DEFINE k == [call[c] EXCEPT !.pc = "resend", !.row = i]
    <3>2. k \in Call /\ LocalsFit(k, account, nextCall)
      BY <1>0, <1>2 DEF FindPending, Call, Step, LocalsFit, BeforeWrite, Accepting
    <3>3. QED
      BY <1>0, <1>2, <3>1, <3>2, MoveWellFormed DEF FindPending
  <2>2. CASE GoTo(c, "create")
    <3> DEFINE k == [call[c] EXCEPT !.pc = "create"]
    <3>1. k \in Call /\ LocalsFit(k, account, nextCall)
      BY <1>0, <1>2 DEF FindPending, Call, Step, LocalsFit, BeforeWrite, Accepting
    <3>2. QED
      BY <1>0, <1>2, <2>2, <3>1, MoveWellFormed DEF FindPending, GoTo
  <2>3. QED
    BY <1>2, <2>1, <2>2 DEF FindPending
<1>3. ASSUME NEW i \in Number, NEW kind \in {"created", "resent"},
             WriteInvitation(c, i, kind), call[c].pc \in {"resend", "create"}
      PROVE  WellFormed'
  <2> DEFINE k == [call[c] EXCEPT !.pc = "email", !.row = i,
                                  !.token = call[c].number, !.kind = kind]
             r == [email |-> call[c].person, token |-> call[c].number,
                   status |-> "pending", expired |-> FALSE]
  <2>1. /\ nextCall \in Nat /\ nextCall' = nextCall /\ account' = account
        /\ Continue(c, k) /\ invitation' = [invitation EXCEPT ![i] = r]
    BY <1>3, OperatorAccessAssumption DEF WriteInvitation, WellFormed, TypeOK
  <2>2. k \in Call /\ LocalsFit(k, account', nextCall')
    BY <1>0, <1>3, <2>1 DEF Call, Step, ChangeKind, LocalsFit, BeforeWrite, Accepting
  <2>3. r \in Row /\ RowFits(r)
    BY <1>0, <1>3 DEF Row, Status, RowFits, LocalsFit, BeforeWrite
  <2>4. call' \in [Calls -> Call] /\ RequestLocals'
    BY <2>1, <2>2, ContinueWellFormed
  <2>5. invitation' \in [Number -> Row] /\ RowsFilled'
    BY <2>1, <2>3, RowWellFormed
  <2>6. changes' \in SUBSET Entry
    BY <1>3, EntryType DEF WriteInvitation, WellFormed, TypeOK, ChangeKind
  <2>7. QED
    BY <1>3, <2>4, <2>5, <2>6 DEF WriteInvitation, WellFormed, TypeOK
<1>4. CASE Resend(c)
  BY <1>0, <1>3, <1>4 DEF Resend, LocalsFit
<1>5. CASE Create(c)
  BY <1>0, <1>3, <1>5 DEF Create, LocalsFit
<1>6. CASE Conflict(c)
  BY <1>0, <1>6, IdleFits, MoveWellFormed DEF Conflict, Finish
<1>7. CASE SendEmail(c)
  <2> DEFINE k == [call[c] EXCEPT !.pc = "audit"]
  <2>1. k \in Call /\ LocalsFit(k, account, nextCall) /\ mailbox' \in SUBSET Number
    BY <1>0, <1>7 DEF SendEmail, Call, Step, LocalsFit, BeforeWrite, Accepting
  <2>2. QED
    BY <1>7, <2>1, MoveWellFormed DEF SendEmail, GoTo
<1>8. QED
  BY <1>1, <1>2, <1>4, <1>5, <1>6, <1>7, Invite(c) DEF Invite

LEMMA AcceptWellFormed ==
    ASSUME WellFormed, NEW c \in Calls, Accept(c)
    PROVE  WellFormed'
<1>0. call[c] \in Call /\ LocalsFit(call[c], account, nextCall) /\ mailbox \in SUBSET Number
      /\ nextCall \in Nat
  BY OperatorAccessAssumption DEF WellFormed, TypeOK, RequestLocals
<1>1. CASE FindAccount(c)
  <2>1. CASE call[c].person \in account /\ GoTo(c, "grant")
    <3> DEFINE k == [call[c] EXCEPT !.pc = "grant"]
    <3>1. k \in Call /\ LocalsFit(k, account, nextCall)
      BY <1>0, <1>1, <2>1 DEF FindAccount, Call, Step, LocalsFit, BeforeWrite, Accepting
    <3>2. QED
      BY <1>0, <1>1, <2>1, <3>1, MoveWellFormed DEF FindAccount, GoTo
  <2>2. CASE GoTo(c, "provision")
    <3> DEFINE k == [call[c] EXCEPT !.pc = "provision"]
    <3>1. k \in Call /\ LocalsFit(k, account, nextCall)
      BY <1>0, <1>1 DEF FindAccount, Call, Step, LocalsFit, BeforeWrite, Accepting
    <3>2. QED
      BY <1>0, <1>1, <2>2, <3>1, MoveWellFormed DEF FindAccount, GoTo
  <2>3. CASE Finish(c)
    BY <1>0, <1>1, <2>3, IdleFits, MoveWellFormed DEF FindAccount, Finish
  <2>4. QED
    BY <1>1, <2>1, <2>2, <2>3 DEF FindAccount
<1>2. CASE Provision(c)
  <2> DEFINE k == [call[c] EXCEPT !.pc = "grant"]
  <2>1. /\ account' = account \cup {call[c].person} /\ nextCall' = nextCall
        /\ call[c].person \in People
        /\ UNCHANGED <<active, invitation, audit, mailbox, ghosts>>
    BY <1>0, <1>2 DEF Provision, LocalsFit, Accepting
  <2>2. k \in Call /\ LocalsFit(k, account', nextCall')
    BY <1>0, <1>2, <2>1 DEF Provision, Call, Step, LocalsFit, BeforeWrite, Accepting
  <2>3. Continue(c, Idle) \/ Continue(c, k)
    BY <1>2 DEF Provision, Finish, GoTo
  <2>4. call' \in [Calls -> Call] /\ RequestLocals'
    BY <1>0, <2>1, <2>2, <2>3, IdleFits, ContinueWellFormed
  <2>5. QED
    BY <2>1, <2>4 DEF WellFormed, TypeOK, RowsFilled, RowFits, ghosts
<1>3. CASE Grant(c)
  <2> DEFINE k == [call[c] EXCEPT !.pc = "mark", !.kind = "accepted"]
  <2>1. /\ account' = account /\ nextCall' = nextCall /\ Continue(c, k)
        /\ active' = active \cup {call[c].person} /\ used' = used \cup {call[c].token}
        /\ call[c].person \in account /\ call[c].token \in Number /\ call[c].row \in Number
    BY <1>0, <1>3 DEF Grant, LocalsFit, Accepting
  <2>2. k \in Call /\ LocalsFit(k, account', nextCall')
    BY <1>0, <1>3, <2>1 DEF Grant, Call, Step, ChangeKind, LocalsFit, BeforeWrite, Accepting
  <2>3. call' \in [Calls -> Call] /\ RequestLocals'
    BY <1>0, <2>1, <2>2, ContinueWellFormed
  <2>4. changes' \in SUBSET Entry
    BY <1>3, <2>1, EntryType DEF Grant, WellFormed, TypeOK, ChangeKind
  <2>5. QED
    BY <1>3, <2>1, <2>3, <2>4 DEF Grant, WellFormed, TypeOK, RowsFilled, RowFits
<1>4. CASE MarkAccepted(c)
  <2> DEFINE k == [call[c] EXCEPT !.pc = "audit"]
             i == call[c].row
             r == [invitation[i] EXCEPT !.status = "accepted"]
  <2>1. i \in Number /\ invitation[i] \in Row
    BY <1>0, <1>4 DEF MarkAccepted, LocalsFit, Accepting, WellFormed, TypeOK
  <2>2. r \in Row /\ RowFits(r) /\ invitation' = [invitation EXCEPT ![i] = r]
    BY <1>4, <2>1 DEF MarkAccepted, Row, Status, RowFits
  <2>3. invitation' \in [Number -> Row] /\ RowsFilled'
    BY <2>1, <2>2, RowWellFormed
  <2>4. k \in Call /\ LocalsFit(k, account, nextCall) /\ Continue(c, k)
    BY <1>0, <1>4 DEF MarkAccepted, GoTo, Call, Step, LocalsFit, BeforeWrite, Accepting
  <2>5. UNCHANGED <<account, active, audit, mailbox, nextCall, ghosts>>
    BY <1>4 DEF MarkAccepted
  <2>6. call' \in [Calls -> Call] /\ RequestLocals'
    BY <1>0, <2>4, <2>5, ContinueWellFormed
  <2>7. QED
    BY <2>3, <2>5, <2>6 DEF WellFormed, TypeOK, ghosts
<1>5. QED
  BY <1>1, <1>2, <1>3, <1>4, Accept(c) DEF Accept

LEMMA WithdrawWellFormed ==
    ASSUME WellFormed, NEW c \in Calls, Withdraw(c)
    PROVE  WellFormed'
<1>0. call[c] \in Call /\ LocalsFit(call[c], account, nextCall) /\ nextCall \in Nat
      /\ mailbox \in SUBSET Number
  BY OperatorAccessAssumption DEF WellFormed, TypeOK, RequestLocals
<1>1. CASE Revoke(c)
  <2>1. CASE Continue(c, Idle) /\ UNCHANGED <<active, changes>>
    <3>1. UNCHANGED <<tables, nextCall, ghosts>> /\ mailbox' = mailbox
      BY <1>0, <1>1, <2>1 DEF Revoke, tables, ghosts
    <3>2. QED
      BY <1>0, <2>1, <3>1, IdleFits, MoveWellFormed
  <2> DEFINE k == [call[c] EXCEPT !.pc = "audit", !.kind = "operatorRevoked"]
  <2>2. CASE /\ active' = active \ {call[c].person} /\ Continue(c, k)
             /\ changes' = changes \cup {EntryOf(c, "operatorRevoked", None)}
    <3>1. k \in Call /\ LocalsFit(k, account, nextCall)
      BY <1>0, <1>1 DEF Revoke, Call, Step, ChangeKind, LocalsFit, BeforeWrite, Accepting
    <3>2. UNCHANGED <<account, invitation, audit, mailbox, nextCall, used, torn, serial>>
      BY <1>1 DEF Revoke
    <3>3. call' \in [Calls -> Call] /\ RequestLocals'
      BY <1>0, <2>2, <3>1, <3>2, ContinueWellFormed
    <3>4. changes' \in SUBSET Entry
      BY <1>1, <2>2, EntryType DEF Revoke, WellFormed, TypeOK, ChangeKind
    <3>5. QED
      BY <2>2, <3>2, <3>3, <3>4 DEF WellFormed, TypeOK, RowsFilled, RowFits
  <2>3. QED
    BY <1>1, <2>1, <2>2 DEF Revoke, Finish
<1>2. CASE RevokeInvitation(c)
  <2>1. CASE Finish(c) /\ UNCHANGED <<invitation, changes>>
    BY <1>0, <1>2, <2>1, IdleFits, MoveWellFormed DEF RevokeInvitation, Finish, tables, ghosts
  <2> DEFINE i == call[c].row
             r == [invitation[i] EXCEPT !.status = "revoked"]
             k == [call[c] EXCEPT !.pc = "audit", !.kind = "invitationRevoked"]
  <2>2. CASE /\ invitation' = [invitation EXCEPT ![i].status = "revoked"] /\ Continue(c, k)
             /\ changes' = changes \cup {EntryOf(c, "invitationRevoked", i)}
    <3>1. i \in Number /\ invitation[i] \in Row
      BY <1>0, <1>2 DEF RevokeInvitation, LocalsFit, WellFormed, TypeOK
    <3>2. r \in Row /\ RowFits(r) /\ invitation' = [invitation EXCEPT ![i] = r]
      BY <2>2, <3>1 DEF Row, Status, RowFits
    <3>3. invitation' \in [Number -> Row] /\ RowsFilled'
      BY <3>1, <3>2, RowWellFormed
    <3>4. k \in Call /\ LocalsFit(k, account, nextCall)
      BY <1>0, <1>2 DEF RevokeInvitation, Call, Step, ChangeKind, LocalsFit, BeforeWrite, Accepting
    <3>5. UNCHANGED <<account, active, audit, mailbox, nextCall, used, torn, serial>>
      BY <1>2 DEF RevokeInvitation
    <3>6. call' \in [Calls -> Call] /\ RequestLocals'
      BY <1>0, <2>2, <3>4, <3>5, ContinueWellFormed
    <3>7. changes' \in SUBSET Entry
      BY <1>2, <2>2, <3>1, EntryType DEF RevokeInvitation, WellFormed, TypeOK, ChangeKind
    <3>8. QED
      BY <3>3, <3>5, <3>6, <3>7 DEF WellFormed, TypeOK
  <2>3. QED
    BY <1>2, <2>1, <2>2 DEF RevokeInvitation
<1>3. QED
  BY <1>1, <1>2, Withdraw(c) DEF Withdraw

\* A request ends, and either its entry is in the log or it died.
LEMMA EndWellFormed ==
    ASSUME WellFormed, NEW c \in Calls, WriteAudit(c) \/ Die(c)
    PROVE  WellFormed'
<1>0. call[c] \in Call /\ LocalsFit(call[c], account, nextCall) /\ nextCall \in Nat
  BY OperatorAccessAssumption DEF WellFormed, TypeOK, RequestLocals
<1>1. Continue(c, Idle) /\ call[c].pc # "idle"
      /\ UNCHANGED <<account, active, invitation, mailbox, nextCall, changes, used>>
  BY DEF WriteAudit, Die, Finish, tables, ghosts
<1>2. call' \in [Calls -> Call] /\ RequestLocals'
  BY <1>0, <1>1, IdleFits, ContinueWellFormed
<1>3. audit' \in SUBSET Entry /\ torn' \in SUBSET Number /\ serial' \in BOOLEAN
  <2>1. CASE WriteAudit(c)
    <3>1. EntryOf(c, call[c].kind, call[c].row) \in Entry
      BY <1>0, <1>1, EntryType DEF Call
    <3>2. QED
      BY <2>1, <3>1 DEF WriteAudit, WellFormed, TypeOK, ghosts
  <2>2. CASE Die(c)
    BY <1>0, <1>1, <2>2 DEF Die, LocalsFit, WellFormed, TypeOK, tables
  <2>3. QED
    BY <2>1, <2>2
<1>4. QED
  BY <1>1, <1>2, <1>3 DEF WellFormed, TypeOK, RowsFilled, RowFits

LEMMA EnvironmentWellFormed ==
    ASSUME WellFormed,
           (\E i \in Number : Expire(i)) \/ (\E p \in People : SignUp(p)) \/ UNCHANGED vars
    PROVE  WellFormed'
<1>1. ASSUME NEW i \in Number, Expire(i) PROVE WellFormed'
  <2> DEFINE r == [invitation[i] EXCEPT !.expired = TRUE]
  <2>1. r \in Row /\ RowFits(r) /\ invitation' = [invitation EXCEPT ![i] = r]
    BY <1>1 DEF Expire, WellFormed, TypeOK, RowsFilled, Row, RowFits
  <2>2. invitation' \in [Number -> Row] /\ RowsFilled'
    BY <2>1, RowWellFormed
  <2>3. QED
    BY <1>1, <2>2 DEF Expire, WellFormed, TypeOK, RequestLocals, ghosts
<1>2. ASSUME NEW p \in People, SignUp(p) PROVE WellFormed'
  BY <1>2 DEF SignUp, WellFormed, TypeOK, RequestLocals, LocalsFit, RowsFilled, RowFits, ghosts
<1>3. CASE UNCHANGED vars
  BY <1>3 DEF vars, tables, ghosts, WellFormed, TypeOK, RequestLocals, RowsFilled, RowFits
<1>4. QED
  BY <1>1, <1>2, <1>3

LEMMA NextWellFormed == WellFormed /\ [Next]_vars => WellFormed'
BY BeginWellFormed, InviteWellFormed, AcceptWellFormed, WithdrawWellFormed,
   EndWellFormed, EnvironmentWellFormed DEF Next

\* Every state of the backoffice is well-typed; above all, only people with
\* an account are operators.
THEOREM TypeCorrect == Spec => []TypeOK
<1>1. WellFormed => TypeOK
  BY DEF WellFormed
<1>2. QED
  BY <1>1, InitWellFormed, NextWellFormed, PTL DEF Spec

-----------------------------------------------------------------------------
(* The audit log.                                                           *)

\* Numbers tell requests apart, and none was used that is still to come.
NumbersDiffer ==
    /\ \A c, d \in Calls :
          call[c].pc # "idle" /\ call[d].pc # "idle" /\ call[c].number = call[d].number
            => c = d
    /\ \A e \in changes : e.number < nextCall

\* A request in flight has made exactly the change its entry will tell, once
\* it has come to a statement that follows a change, and none before.
OneChange ==
    \A c \in Calls :
        /\ call[c].pc \in Changed =>
              EntryOf(c, call[c].kind, call[c].row) \in changes
        /\ \A e \in changes : call[c].pc # "idle" /\ e.number = call[c].number =>
              call[c].pc \in Changed /\ e = EntryOf(c, call[c].kind, call[c].row)

AuditInv == NumbersDiffer /\ OneChange /\ AuditIsTruthful /\ AuditLagsOnlyDeaths

\* What Continue does to the table of requests.
LEMMA ContinueDoes ==
    ASSUME WellFormed, NEW c \in Calls, NEW k \in Call, Continue(c, k)
    PROVE  call'[c] = k /\ \A d \in Calls \ {c} : call'[d] = call[d]
BY DEF WellFormed, TypeOK, Continue

\* A request goes on, or ends having changed nothing.
LEMMA QuietAudit ==
    ASSUME WellFormed, AuditInv, NEW c \in Calls, NEW k \in Call, Continue(c, k),
           UNCHANGED <<audit, changes, torn, nextCall>>,
           call[c].pc # "idle",
           k.pc \in Changed <=> call[c].pc \in Changed,
           k.pc # "idle" => k.number = call[c].number,
           call[c].pc \in Changed => k = [call[c] EXCEPT !.pc = k.pc]
    PROVE  AuditInv'
<1>1. call'[c] = k /\ \A d \in Calls \ {c} : call'[d] = call[d]
  BY ContinueDoes
<1>2. NumbersDiffer'
  <2>1. ASSUME NEW d \in Calls, NEW b \in Calls, call'[d].pc # "idle", call'[b].pc # "idle",
               call'[d].number = call'[b].number
        PROVE  d = b
    BY <1>1, <2>1 DEF AuditInv, NumbersDiffer
  <2>2. QED
    <3>1. \A e \in changes' : e.number < nextCall'
      BY DEF AuditInv, NumbersDiffer
    <3>2. QED
      BY <2>1, <3>1 DEF NumbersDiffer
<1>3. call[c].pc \in Changed =>
        k.kind = call[c].kind /\ k.row = call[c].row /\ k.number = call[c].number
        /\ k.actor = call[c].actor /\ k.person = call[c].person
  BY DEF WellFormed, TypeOK, Call
<1>4. "idle" \notin Changed
  BY DEF Changed
<1>5. OneChange'
  <2> SUFFICES ASSUME NEW d \in Calls
               PROVE  /\ call'[d].pc \in Changed =>
                            EntryOf(d, call[d].kind, call[d].row)' \in changes
                      /\ \A e \in changes : call'[d].pc # "idle" /\ e.number = call'[d].number =>
                            call'[d].pc \in Changed /\ e = EntryOf(d, call[d].kind, call[d].row)'
    BY DEF OneChange
  <2>1. CASE d = c
    BY <1>1, <1>3, <1>4, <2>1 DEF AuditInv, OneChange, EntryOf
  <2>2. CASE d # c
    BY <1>1, <2>2 DEF AuditInv, OneChange, EntryOf
  <2>3. QED
    BY <2>1, <2>2
<1>6. AuditLagsOnlyDeaths'
  <2> SUFFICES ASSUME NEW e \in changes \ audit, e.number \notin torn
               PROVE  \E d \in Calls : call'[d].number = e.number /\ call'[d].pc \in Changed
    BY DEF AuditLagsOnlyDeaths, Changed
  <2>1. PICK d \in Calls : call[d].number = e.number /\ call[d].pc \in Changed
    BY DEF AuditInv, AuditLagsOnlyDeaths, Changed
  <2>2. QED
    BY <1>1, <1>3, <2>1
<1>7. QED
  BY <1>2, <1>5, <1>6 DEF AuditInv, AuditIsTruthful

\* A request makes its change.
LEMMA ChangeAudit ==
    ASSUME WellFormed, AuditInv, NEW c \in Calls, NEW k \in Call, Continue(c, k),
           UNCHANGED <<audit, torn, nextCall>>,
           call[c].pc \notin Changed \cup {"idle"}, k.pc \in Changed,
           k.number = call[c].number, k.actor = call[c].actor, k.person = call[c].person,
           changes' = changes \cup {EntryOf(c, k.kind, k.row)}
    PROVE  AuditInv'
<1>1. call'[c] = k /\ \A d \in Calls \ {c} : call'[d] = call[d]
  BY ContinueDoes
<1> DEFINE new == EntryOf(c, k.kind, k.row)
<1>2. new.number = k.number /\ new = EntryOf(c, call[c].kind, call[c].row)'
  BY <1>1 DEF EntryOf
<1>3. k.number < nextCall /\ k.pc # "idle"
  BY DEF WellFormed, RequestLocals, LocalsFit, Changed
<1>4. \A d \in Calls \ {c} : call[d].pc # "idle" => call[d].number # new.number
  BY <1>2, <1>3 DEF AuditInv, NumbersDiffer
<1>5. \A e \in changes : e.number # new.number
  BY <1>2 DEF AuditInv, OneChange
<1> HIDE DEF new
<1>6. changes' = changes \cup {new}
  BY DEF new
<1>7. NumbersDiffer'
  BY <1>1, <1>2, <1>3, <1>6 DEF AuditInv, NumbersDiffer
<1>8. OneChange'
  <2> SUFFICES ASSUME NEW d \in Calls
               PROVE  /\ call'[d].pc \in Changed =>
                            EntryOf(d, call[d].kind, call[d].row)' \in changes'
                      /\ \A e \in changes' : call'[d].pc # "idle" /\ e.number = call'[d].number =>
                            call'[d].pc \in Changed /\ e = EntryOf(d, call[d].kind, call[d].row)'
    BY DEF OneChange
  <2>1. CASE d = c
    BY <1>1, <1>2, <1>5, <1>6, <2>1
  <2>2. CASE d # c
    <3>1. EntryOf(d, call[d].kind, call[d].row)' = EntryOf(d, call[d].kind, call[d].row)
      BY <1>1, <2>2 DEF EntryOf
    <3>2. QED
      BY <1>1, <1>4, <1>6, <2>2, <3>1 DEF AuditInv, OneChange
  <2>3. QED
    BY <2>1, <2>2
<1>9. AuditLagsOnlyDeaths'
  <2> SUFFICES ASSUME NEW e \in changes' \ audit, e.number \notin torn
               PROVE  \E d \in Calls : call'[d].number = e.number /\ call'[d].pc \in Changed
    BY DEF AuditLagsOnlyDeaths, Changed
  <2>1. CASE e = new
    BY <1>1, <1>2, <2>1
  <2>2. CASE e \in changes
    <3>1. PICK d \in Calls : call[d].number = e.number /\ call[d].pc \in Changed
      BY <2>2 DEF AuditInv, AuditLagsOnlyDeaths, Changed
    <3>2. QED
      BY <1>1, <3>1
  <2>3. QED
    BY <1>6, <2>1, <2>2
<1>10. QED
  BY <1>6, <1>7, <1>8, <1>9 DEF AuditInv, AuditIsTruthful

LEMMA InitAudit == Init => AuditInv
<1> SUFFICES ASSUME Init PROVE AuditInv
  OBVIOUS
<1>1. changes = {} /\ audit = {} /\ \A c \in Calls : call[c].pc = "idle"
  BY DEF Init, Idle
<1>2. OneChange
  BY <1>1 DEF OneChange, Changed
<1>3. NumbersDiffer
  BY <1>1 DEF NumbersDiffer
<1>4. QED
  BY <1>1, <1>2, <1>3 DEF AuditInv, AuditIsTruthful, AuditLagsOnlyDeaths

LEMMA BeginAudit ==
    ASSUME WellFormed, AuditInv, NEW c \in Calls, BeginSome(c)
    PROVE  AuditInv'
<1>1. PICK k \in Call : Begin(c, k) /\ k.number = nextCall /\ k.pc \notin Changed
  BY BeginStart DEF Changed, BeforeWrite
<1>2. call'[c] = k /\ \A d \in Calls \ {c} : call'[d] = call[d]
  BY <1>1, ContinueDoes DEF Begin
<1>3. UNCHANGED <<audit, changes, torn>> /\ nextCall' = nextCall + 1 /\ nextCall \in Nat
      /\ call[c].pc = "idle"
  BY <1>1, OperatorAccessAssumption DEF Begin, tables, WellFormed, TypeOK
<1>4. \A d \in Calls : call[d].pc # "idle" => call[d].number \in Nat /\ call[d].number < nextCall
  BY NumberType DEF WellFormed, RequestLocals, LocalsFit
<1>5. \A e \in changes : e.number \in Nat /\ e.number < nextCall
  BY NumberType DEF AuditInv, NumbersDiffer, WellFormed, TypeOK, Entry
<1>6. NumbersDiffer'
  BY <1>1, <1>2, <1>3, <1>4, <1>5 DEF AuditInv, NumbersDiffer
<1>7. OneChange'
  <2> SUFFICES ASSUME NEW d \in Calls
               PROVE  /\ call'[d].pc \in Changed =>
                            EntryOf(d, call[d].kind, call[d].row)' \in changes
                      /\ \A e \in changes : call'[d].pc # "idle" /\ e.number = call'[d].number =>
                            call'[d].pc \in Changed /\ e = EntryOf(d, call[d].kind, call[d].row)'
    BY <1>3 DEF OneChange
  <2>1. CASE d = c
    BY <1>1, <1>2, <1>3, <1>5, <2>1
  <2>2. CASE d # c
    BY <1>2, <2>2 DEF AuditInv, OneChange, EntryOf
  <2>3. QED
    BY <2>1, <2>2
<1>8. AuditLagsOnlyDeaths'
  <2> SUFFICES ASSUME NEW e \in changes \ audit, e.number \notin torn
               PROVE  \E d \in Calls : call'[d].number = e.number /\ call'[d].pc \in Changed
    BY <1>3 DEF AuditLagsOnlyDeaths, Changed
  <2>1. PICK d \in Calls : call[d].number = e.number /\ call[d].pc \in Changed
    BY DEF AuditInv, AuditLagsOnlyDeaths, Changed
  <2>2. d # c
    BY <1>3, <2>1 DEF Changed
  <2>3. QED
    BY <1>2, <2>1, <2>2
<1>9. QED
  BY <1>3, <1>6, <1>7, <1>8 DEF AuditInv, AuditIsTruthful

LEMMA InviteAudit ==
    ASSUME WellFormed, AuditInv, NEW c \in Calls, Invite(c)
    PROVE  AuditInv'
<1>0. call[c] \in Call /\ Idle \in Call
  BY IdleFits DEF WellFormed, TypeOK
<1> USE DEF tables, ghosts, Finish, GoTo, Changed
<1>1. CASE CheckActive(c)
  <2>1. PICK k \in Call : Continue(c, k) /\ k \in {Idle, [call[c] EXCEPT !.pc = "findPending"]}
    BY <1>0, <1>1 DEF CheckActive, Call, Step
  <2>2. k.pc \in {"idle", "findPending"} /\ (k.pc # "idle" => k.number = call[c].number)
    BY <1>0, <2>1 DEF Idle, Call
  <2>3. QED
    BY <1>1, <2>1, <2>2, QuietAudit DEF CheckActive
<1>2. CASE FindPending(c)
  <2>1. PICK k \in Call : /\ Continue(c, k) /\ k.number = call[c].number
                          /\ k.pc \in {"resend", "create"}
    <3>1. CASE GoTo(c, "create")
      BY <1>0, <3>1 DEF Call, Step
    <3>2. ASSUME NEW i \in Number, Continue(c, [call[c] EXCEPT !.pc = "resend", !.row = i])
          PROVE  \E k \in Call : /\ Continue(c, k) /\ k.number = call[c].number
                                 /\ k.pc \in {"resend", "create"}
      <4> DEFINE r == [call[c] EXCEPT !.pc = "resend", !.row = i]
      <4>1. r \in Call /\ r.number = call[c].number /\ r.pc = "resend"
        BY <1>0 DEF Call, Step
      <4>2. QED
        BY <3>2, <4>1
    <3>3. QED
      BY <1>2, <3>1, <3>2 DEF FindPending
  <2>2. QED
    BY <1>2, <2>1, QuietAudit DEF FindPending
<1>3. ASSUME NEW i \in Number, NEW kind \in {"created", "resent"},
             WriteInvitation(c, i, kind), call[c].pc \in {"resend", "create"}
      PROVE  AuditInv'
  <2>1. PICK k \in Call : /\ Continue(c, k) /\ k.pc = "email" /\ k.row = i /\ k.kind = kind
                          /\ k.number = call[c].number /\ k.actor = call[c].actor
                          /\ k.person = call[c].person
    <3> DEFINE r == [call[c] EXCEPT !.pc = "email", !.row = i,
                                      !.token = call[c].number, !.kind = kind]
    <3>0. call[c].number \in Number
      BY <1>3 DEF WellFormed, RequestLocals, LocalsFit
    <3>1. /\ r \in Call /\ r.pc = "email" /\ r.row = i /\ r.kind = kind
          /\ r.number = call[c].number /\ r.actor = call[c].actor
          /\ r.person = call[c].person
      BY <1>0, <3>0 DEF Call, Step, ChangeKind
    <3>2. Continue(c, r)
      BY <1>3 DEF WriteInvitation
    <3>3. QED
      BY <3>1, <3>2
  <2>2. QED
    BY <1>3, <2>1, ChangeAudit DEF WriteInvitation
<1>4. CASE Resend(c)
  BY <1>3, <1>4 DEF Resend, WellFormed, RequestLocals, LocalsFit
<1>5. CASE Create(c)
  BY <1>3, <1>5 DEF Create, WellFormed, RequestLocals, LocalsFit
<1>6. CASE Conflict(c)
  BY <1>0, <1>6, QuietAudit DEF Conflict, Idle
<1>7. CASE SendEmail(c)
  <2>1. PICK k \in Call : Continue(c, k) /\ k = [call[c] EXCEPT !.pc = "audit"]
    BY <1>0, <1>7 DEF SendEmail, Call, Step
  <2>2. k.pc = "audit" /\ k.number = call[c].number
    BY <1>0, <2>1 DEF Call
  <2>3. QED
    BY <1>7, <2>1, <2>2, QuietAudit DEF SendEmail
<1>8. QED
  BY <1>1, <1>2, <1>4, <1>5, <1>6, <1>7, Invite(c) DEF Invite

LEMMA AcceptAudit ==
    ASSUME WellFormed, AuditInv, NEW c \in Calls, Accept(c)
    PROVE  AuditInv'
<1>0. call[c] \in Call /\ Idle \in Call /\ Idle.pc = "idle"
  BY IdleFits DEF WellFormed, TypeOK, Idle
<1> USE DEF tables, ghosts, Finish, GoTo, Changed
<1>1. CASE FindAccount(c) \/ Provision(c)
  <2>1. PICK k \in Call : /\ Continue(c, k) /\ k.pc \in {"idle", "grant", "provision"}
                          /\ k.pc # "idle" => k.number = call[c].number
    <3>1. CASE Continue(c, Idle)
      BY <1>0, <3>1
    <3>2. CASE \E s \in {"grant", "provision"} : Continue(c, [call[c] EXCEPT !.pc = s])
      BY <1>0, <3>2 DEF Call, Step
    <3>3. QED
      BY <1>1, <3>1, <3>2 DEF FindAccount, Provision
  <2>2. QED
    BY <1>1, <2>1, QuietAudit DEF FindAccount, Provision
<1>2. CASE Grant(c)
  <2>1. PICK k \in Call : /\ Continue(c, k) /\ k.pc = "mark" /\ k.kind = "accepted"
                          /\ k.row = call[c].row /\ k.number = call[c].number
                          /\ k.actor = call[c].actor /\ k.person = call[c].person
    <3> DEFINE r == [call[c] EXCEPT !.pc = "mark", !.kind = "accepted"]
    <3>1. /\ r \in Call /\ r.pc = "mark" /\ r.kind = "accepted" /\ r.row = call[c].row
          /\ r.number = call[c].number /\ r.actor = call[c].actor
          /\ r.person = call[c].person
      BY <1>0 DEF Call, Step, ChangeKind
    <3>2. Continue(c, r)
      BY <1>2 DEF Grant
    <3>3. QED
      BY <3>1, <3>2
  <2>2. QED
    BY <1>2, <2>1, ChangeAudit DEF Grant
<1>3. CASE MarkAccepted(c)
  <2>1. PICK k \in Call : Continue(c, k) /\ k = [call[c] EXCEPT !.pc = "audit"]
    BY <1>0, <1>3 DEF MarkAccepted, Call, Step
  <2>2. k.pc = "audit" /\ k.number = call[c].number
    BY <1>0, <2>1 DEF Call
  <2>3. QED
    BY <1>3, <2>1, <2>2, QuietAudit DEF MarkAccepted
<1>4. QED
  BY <1>1, <1>2, <1>3, Accept(c) DEF Accept

LEMMA WithdrawAudit ==
    ASSUME WellFormed, AuditInv, NEW c \in Calls, Withdraw(c)
    PROVE  AuditInv'
<1>0. call[c] \in Call /\ Idle \in Call /\ Idle.pc = "idle"
  BY IdleFits DEF WellFormed, TypeOK, Idle
<1> USE DEF tables, ghosts, Finish, GoTo, Changed
<1>1. CASE Continue(c, Idle) /\ UNCHANGED changes
  BY <1>0, <1>1, QuietAudit DEF Withdraw, Revoke, RevokeInvitation
<1>2. CASE Revoke(c) /\ ~(Continue(c, Idle) /\ UNCHANGED changes)
  <2>1. PICK k \in Call : /\ Continue(c, k) /\ k.pc = "audit" /\ k.kind = "operatorRevoked"
                          /\ k.row = call[c].row /\ k.number = call[c].number
                          /\ k.actor = call[c].actor /\ k.person = call[c].person
    <3> DEFINE r == [call[c] EXCEPT !.pc = "audit", !.kind = "operatorRevoked"]
    <3>1. /\ r \in Call /\ r.pc = "audit" /\ r.kind = "operatorRevoked" /\ r.row = call[c].row
          /\ r.number = call[c].number /\ r.actor = call[c].actor
          /\ r.person = call[c].person
      BY <1>0 DEF Call, Step, ChangeKind
    <3>2. Continue(c, r)
      BY <1>2 DEF Revoke
    <3>3. QED
      BY <3>1, <3>2
  <2>2. k.row = None
    BY <1>2, <2>1 DEF Revoke, WellFormed, RequestLocals, LocalsFit
  <2>3. QED
    BY <1>2, <2>1, <2>2, ChangeAudit DEF Revoke
<1>3. CASE RevokeInvitation(c) /\ ~(Continue(c, Idle) /\ UNCHANGED changes)
  <2>1. PICK k \in Call : /\ Continue(c, k) /\ k.pc = "audit" /\ k.kind = "invitationRevoked"
                          /\ k.row = call[c].row /\ k.number = call[c].number
                          /\ k.actor = call[c].actor /\ k.person = call[c].person
    <3> DEFINE r == [call[c] EXCEPT !.pc = "audit", !.kind = "invitationRevoked"]
    <3>1. /\ r \in Call /\ r.pc = "audit" /\ r.kind = "invitationRevoked" /\ r.row = call[c].row
          /\ r.number = call[c].number /\ r.actor = call[c].actor
          /\ r.person = call[c].person
      BY <1>0 DEF Call, Step, ChangeKind
    <3>2. Continue(c, r)
      BY <1>3 DEF RevokeInvitation
    <3>3. QED
      BY <3>1, <3>2
  <2>2. QED
    BY <1>3, <2>1, ChangeAudit DEF RevokeInvitation
<1>4. QED
  BY <1>1, <1>2, <1>3, Withdraw(c) DEF Withdraw

\* The end of a request: the only entry with its number is settled.
LEMMA EndAudit ==
    ASSUME WellFormed, AuditInv, NEW c \in Calls, WriteAudit(c) \/ Die(c)
    PROVE  AuditInv'
<1>1. Continue(c, Idle) /\ call[c].pc # "idle" /\ UNCHANGED <<changes, nextCall>>
  BY DEF WriteAudit, Die, Finish, tables, ghosts
<1>2. call'[c].pc = "idle" /\ \A d \in Calls \ {c} : call'[d] = call[d]
  BY <1>1, IdleFits, ContinueDoes DEF Idle
<1>3. NumbersDiffer'
  <2>1. ASSUME NEW d \in Calls, NEW b \in Calls, call'[d].pc # "idle", call'[b].pc # "idle",
               call'[d].number = call'[b].number
        PROVE  d = b
    BY <1>2, <2>1 DEF AuditInv, NumbersDiffer
  <2>2. QED
    <3>1. \A e \in changes' : e.number < nextCall'
      BY <1>1 DEF AuditInv, NumbersDiffer
    <3>2. QED
      BY <2>1, <3>1 DEF NumbersDiffer
<1>4. OneChange'
  <2> SUFFICES ASSUME NEW d \in Calls
               PROVE  /\ call'[d].pc \in Changed =>
                            EntryOf(d, call[d].kind, call[d].row)' \in changes
                      /\ \A e \in changes : call'[d].pc # "idle" /\ e.number = call'[d].number =>
                            call'[d].pc \in Changed /\ e = EntryOf(d, call[d].kind, call[d].row)'
    BY <1>1 DEF OneChange
  <2>1. CASE d = c
    BY <1>2, <2>1 DEF Changed
  <2>2. CASE d # c
    BY <1>2, <2>2 DEF AuditInv, OneChange, EntryOf
  <2>3. QED
    BY <2>1, <2>2
<1>5. \A e \in changes : e.number = call[c].number =>
        e \in audit' \/ e.number \in torn'
  BY <1>1 DEF WriteAudit, Die, AuditInv, OneChange
<1>6. audit \subseteq audit' /\ torn \subseteq torn' /\ audit' \subseteq changes
  BY <1>1 DEF WriteAudit, Die, AuditInv, OneChange, AuditIsTruthful, Changed, tables, ghosts
<1>7. AuditLagsOnlyDeaths'
  <2> SUFFICES ASSUME NEW e \in changes \ audit', e.number \notin torn'
               PROVE  \E d \in Calls : call'[d].number = e.number /\ call'[d].pc \in Changed
    BY <1>1 DEF AuditLagsOnlyDeaths, Changed
  <2>1. PICK d \in Calls : call[d].number = e.number /\ call[d].pc \in Changed
    BY <1>6 DEF AuditInv, AuditLagsOnlyDeaths, Changed
  <2>2. d # c
    BY <1>5, <2>1
  <2>3. QED
    BY <1>2, <2>1, <2>2
<1>8. QED
  BY <1>1, <1>3, <1>4, <1>6, <1>7 DEF AuditInv, AuditIsTruthful

LEMMA NextAudit == WellFormed /\ AuditInv /\ [Next]_vars => AuditInv'
<1> SUFFICES ASSUME WellFormed, AuditInv, [Next]_vars PROVE AuditInv'
  OBVIOUS
<1>1. ASSUME UNCHANGED <<audit, call, nextCall, ghosts>> PROVE AuditInv'
  BY <1>1 DEF AuditInv, NumbersDiffer, OneChange, AuditIsTruthful, AuditLagsOnlyDeaths,
              EntryOf, ghosts
<1>2. ASSUME NEW i \in Number, Expire(i) PROVE AuditInv'
  BY <1>1, <1>2 DEF Expire
<1>3. ASSUME NEW p \in People, SignUp(p) PROVE AuditInv'
  BY <1>1, <1>3 DEF SignUp
<1>4. CASE UNCHANGED vars
  BY <1>1, <1>4 DEF vars, tables
<1>5. QED
  BY <1>2, <1>3, <1>4, BeginAudit, InviteAudit, AcceptAudit, WithdrawAudit, EndAudit DEF Next

\* The log tells only of changes that were made, whatever requests race for
\* the same operator or invitation.
THEOREM LogIsTruthful == Spec => []AuditIsTruthful
<1>1. AuditInv => AuditIsTruthful
  BY DEF AuditInv
<1>2. QED
  BY <1>1, InitWellFormed, NextWellFormed, InitAudit, NextAudit, PTL DEF Spec

\* A change is missing from the log only while its request runs, or when its
\* request died between the change and the entry.
THEOREM LogLagsOnlyDeaths == Spec => []AuditLagsOnlyDeaths
<1>1. AuditInv => AuditLagsOnlyDeaths
  BY DEF AuditInv
<1>2. QED
  BY <1>1, InitWellFormed, NextWellFormed, InitAudit, NextAudit, PTL DEF Spec

-----------------------------------------------------------------------------
(* Who is left.                                                             *)

\* The last operator is revoked only by somebody revoked in the meantime.
THEOREM LockoutOnlyByRace == Spec => LockoutNeedsRace
<1>1. WellFormed /\ [Next]_vars =>
        [active # {} /\ active' = {} =>
           \E c \in Calls : call[c].pc = "revoke" /\ call[c].actor \notin active]_vars
  <2> SUFFICES ASSUME WellFormed, Next, active # {}, active' = {}
               PROVE  \E c \in Calls : call[c].pc = "revoke" /\ call[c].actor \notin active
    OBVIOUS
  <2>1. PICK c \in Calls : Revoke(c)
    BY DEF Next, BeginSome, BeginInvite, BeginRevoke, BeginRevokeInvitation, BeginAccept,
           Begin, Invite, CheckActive, FindPending, Resend, Create, WriteInvitation,
           Conflict, SendEmail, Accept, FindAccount, Provision, Grant, MarkAccepted,
           Withdraw, RevokeInvitation, WriteAudit, Die, Expire, SignUp, tables
  <2>2. call[c].pc = "revoke" /\ call[c].person # call[c].actor
    BY <2>1 DEF Revoke, WellFormed, RequestLocals, LocalsFit
  <2>3. active' = active \/ active' = active \ {call[c].person}
    BY <2>1 DEF Revoke
  <2>4. QED
    BY <2>2, <2>3
<1>2. QED
  BY <1>1, InitWellFormed, NextWellFormed, PTL DEF Spec, LockoutNeedsRace

-----------------------------------------------------------------------------
(* Tokens.                                                                  *)

\* Where a token may be seen: in a row, in a mailbox, on its way to one, in
\* a request that accepts with it, among those that granted access.
Known(t) ==
    \/ \E i \in Number : invitation[i].token = t
    \/ t \in mailbox \cup used
    \/ \E c \in Calls : call[c].pc \in Accepting \cup {"email"} /\ call[c].token = t

\* A request that has not written its invitation has a number that is neither
\* the token nor the key of any row.
NumbersFresh ==
    /\ \A t \in Number : Known(t) =>
          t < nextCall /\ \A c \in Calls : call[c].pc \in BeforeWrite => call[c].number # t
    /\ \A i \in Number : invitation[i].status # "absent" =>
          i < nextCall /\ \A c \in Calls : call[c].pc \in BeforeWrite => call[c].number # i
    /\ \A i \in Number : invitation[i].status = "absent" => invitation[i].token = None
    /\ \A c \in Calls : call[c].pc \in Accepting \cup {"resend"} =>
          invitation[call[c].row].status # "absent"

\* A token opens one row at most, and for a request that accepts with it, the
\* row the request has read.
OneRowPerToken ==
    /\ \A i, j \in Number :
          invitation[i].token = invitation[j].token /\ invitation[i].token \in Number => i = j
    /\ \A c \in Calls, j \in Number :
          call[c].pc \in Accepting /\ invitation[j].token = call[c].token => j = call[c].row

TokenInv == NumbersFresh /\ OneRowPerToken

\* Steps that write no invitation and begin no request.
LEMMA TokenFrame ==
    ASSUME WellFormed, TokenInv, nextCall' = nextCall,
           \A i \in Number : /\ invitation'[i].token = invitation[i].token
                             /\ invitation'[i].status = "absent"
                                  <=> invitation[i].status = "absent",
           \A t \in mailbox' \cup used' : Known(t),
           \A c \in Calls : call'[c].pc \in BeforeWrite =>
               call[c].pc \in BeforeWrite /\ call'[c].number = call[c].number,
           \A c \in Calls : call'[c].pc = "resend" =>
               call'[c].row \in Number /\ invitation[call'[c].row].status # "absent",
           \A c \in Calls : call'[c].pc \in Accepting \cup {"email"} =>
               /\ call[c].pc \in Accepting \cup {"email"}
               /\ call'[c].pc \in Accepting => call[c].pc \in Accepting
               /\ call'[c].token = call[c].token /\ call'[c].row = call[c].row
    PROVE  TokenInv'
<1>1. \A t : Known(t)' => Known(t)
  BY DEF Known
<1>2. \A c \in Calls : call[c].pc \in Accepting => call[c].row \in Number
  BY DEF WellFormed, RequestLocals, LocalsFit
<1>3. NumbersFresh'
  BY <1>1, <1>2 DEF TokenInv, NumbersFresh
<1>4. OneRowPerToken'
  BY DEF TokenInv, OneRowPerToken
<1>5. QED
  BY <1>3, <1>4 DEF TokenInv

\* The token that request c generated replaces that of row i, or opens it.
LEMMA WriteTokens ==
    ASSUME WellFormed, AuditInv, TokenInv, NEW c \in Calls, NEW i \in Number,
           NEW kind \in {"created", "resent"}, call[c].pc \in {"resend", "create"},
           i = call[c].number \/ invitation[i].status # "absent",
           WriteInvitation(c, i, kind)
    PROVE  TokenInv'
<1> DEFINE n == call[c].number
           r == [email |-> call[c].person, token |-> n,
                 status |-> "pending", expired |-> FALSE]
           k == [call[c] EXCEPT !.pc = "email", !.row = i, !.token = n, !.kind = kind]
<1>1. n \in Number /\ n < nextCall /\ call[c] \in Call
  BY DEF WellFormed, TypeOK, RequestLocals, LocalsFit
<1>2. ~Known(n)
  BY <1>1 DEF TokenInv, NumbersFresh, BeforeWrite
<1>3. /\ invitation'[i] = r /\ \A j \in Number \ {i} : invitation'[j] = invitation[j]
      /\ call'[c] = k /\ \A d \in Calls \ {c} : call'[d] = call[d]
      /\ UNCHANGED <<mailbox, used, nextCall>>
  BY DEF WriteInvitation, Continue, WellFormed, TypeOK
<1>4. /\ r.token = n /\ r.status = "pending"
      /\ k.pc = "email" /\ k.token = n /\ k.number = n
  BY <1>1 DEF Call
<1> HIDE DEF n, r, k
<1>5. \A t : Known(t)' => t = n \/ Known(t)
  BY <1>3, <1>4 DEF Known, Accepting
<1>6. \A d \in Calls : call'[d].pc \in BeforeWrite =>
         d # c /\ call[d].pc \in BeforeWrite /\ call'[d].number = call[d].number
  BY <1>3, <1>4 DEF BeforeWrite
<1>7. \A d \in Calls \ {c} : call[d].pc \in BeforeWrite => call[d].number # n
  BY DEF n, AuditInv, NumbersDiffer, BeforeWrite
<1>8. NumbersFresh'
  <2>1. \A t \in Number : Known(t)' =>
           t < nextCall' /\ \A d \in Calls : call'[d].pc \in BeforeWrite => call'[d].number # t
    BY <1>1, <1>3, <1>5, <1>6, <1>7 DEF TokenInv, NumbersFresh
  <2>2. \A j \in Number : invitation'[j].status # "absent" =>
           j < nextCall' /\ \A d \in Calls : call'[d].pc \in BeforeWrite => call'[d].number # j
    <3>1. i < nextCall /\ \A d \in Calls \ {c} : call[d].pc \in BeforeWrite => call[d].number # i
      BY <1>1, <1>7 DEF n, TokenInv, NumbersFresh
    <3>2. QED
      BY <1>3, <1>6, <3>1 DEF TokenInv, NumbersFresh
  <2>3. \A j \in Number : invitation'[j].status = "absent" => invitation'[j].token = None
    BY <1>3, <1>4 DEF TokenInv, NumbersFresh
  <2>4. \A d \in Calls : call'[d].pc \in Accepting \cup {"resend"} =>
           invitation'[call'[d].row].status # "absent"
    <3>1. \A d \in Calls : call[d].pc \in Accepting \cup {"resend"} => call[d].row \in Number
      BY DEF WellFormed, RequestLocals, LocalsFit
    <3>2. QED
      BY <1>3, <1>4, <3>1 DEF TokenInv, NumbersFresh, Accepting
  <2>5. QED
    BY <2>1, <2>2, <2>3, <2>4 DEF NumbersFresh
<1>9. OneRowPerToken'
  <2>1. \A j \in Number \ {i} : invitation'[j].token # n
    BY <1>2, <1>3 DEF Known
  <2>2. \A d \in Calls : call'[d].pc \in Accepting => d # c /\ call[d].pc \in Accepting
                                                      /\ call'[d].token # n
    BY <1>2, <1>3, <1>4 DEF Known, Accepting
  <2>3. QED
    BY <1>3, <1>4, <2>1, <2>2 DEF TokenInv, OneRowPerToken
<1>10. QED
  BY <1>8, <1>9 DEF TokenInv

LEMMA InitTokens == Init => TokenInv
<1> SUFFICES ASSUME Init PROVE TokenInv
  OBVIOUS
<1>1. /\ \A i \in Number : invitation[i].status = "absent" /\ invitation[i].token = None
      /\ \A c \in Calls : call[c].pc = "idle" /\ mailbox = {} /\ used = {}
  BY DEF Init, Absent, Idle
<1>2. \A t \in Number : ~Known(t)
  BY <1>1, NumberType DEF Init, Known, Accepting
<1>3. QED
  BY <1>1, <1>2, NumberType DEF TokenInv, NumbersFresh, OneRowPerToken, Accepting

LEMMA BeginTokens ==
    ASSUME WellFormed, TokenInv, NEW c \in Calls, BeginSome(c)
    PROVE  TokenInv'
<1>1. PICK k \in Call : /\ Begin(c, k) /\ k.number = nextCall
                        /\ \/ k.pc \notin Accepting \cup {"resend", "email"}
                           \/ /\ k.pc = "findAccount" /\ k.token \in mailbox /\ k.row \in Number
                              /\ invitation[k.row].token = k.token
                              /\ invitation[k.row].status # "absent"
  BY BeginStart DEF Accepting, PendingFor
<1>2. call'[c] = k /\ \A d \in Calls \ {c} : call'[d] = call[d]
  BY <1>1, ContinueDoes DEF Begin
<1>3. UNCHANGED <<invitation, mailbox, used>> /\ nextCall' = nextCall + 1 /\ nextCall \in Nat
  BY <1>1, OperatorAccessAssumption DEF Begin, tables, WellFormed, TypeOK
<1>4. \A t : Known(t)' => Known(t)
  BY <1>1, <1>2, <1>3 DEF Known, Accepting
<1>5. \A t \in Number : t \in Nat
  BY NumberType
<1>6. NumbersFresh'
  <2>1. \A t \in Number : Known(t)' =>
           t < nextCall' /\ \A d \in Calls : call'[d].pc \in BeforeWrite => call'[d].number # t
    BY <1>1, <1>2, <1>3, <1>4, <1>5 DEF TokenInv, NumbersFresh
  <2>2. \A j \in Number : invitation'[j].status # "absent" =>
           j < nextCall' /\ \A d \in Calls : call'[d].pc \in BeforeWrite => call'[d].number # j
    BY <1>1, <1>2, <1>3, <1>5 DEF TokenInv, NumbersFresh
  <2>3. QED
    BY <1>1, <1>2, <1>3, <2>1, <2>2 DEF TokenInv, NumbersFresh
<1>7. OneRowPerToken'
  <2>1. k.pc \in Accepting => k.token \in Number
    BY <1>1 DEF WellFormed, TypeOK
  <2>2. QED
    BY <1>1, <1>2, <1>3, <2>1 DEF TokenInv, OneRowPerToken
<1>8. QED
  BY <1>6, <1>7 DEF TokenInv

\* A request goes on without writing or opening a row.
LEMMA QuietTokens ==
    ASSUME WellFormed, TokenInv, NEW c \in Calls, NEW k \in Call, Continue(c, k),
           nextCall' = nextCall,
           \A i \in Number : /\ invitation'[i].token = invitation[i].token
                             /\ invitation'[i].status = "absent"
                                  <=> invitation[i].status = "absent",
           \A t \in mailbox' \cup used' : Known(t),
           k.pc \in BeforeWrite => call[c].pc \in BeforeWrite /\ k.number = call[c].number,
           k.pc = "resend" => k.row \in Number /\ invitation[k.row].status # "absent",
           k.pc \notin {"findAccount", "email"},
           k.pc \in Accepting => /\ call[c].pc \in Accepting
                                 /\ k.token = call[c].token /\ k.row = call[c].row
    PROVE  TokenInv'
<1>1. call'[c] = k /\ \A d \in Calls \ {c} : call'[d] = call[d]
  BY ContinueDoes
<1>2. \A d \in Calls : call[d].pc = "resend" =>
         call[d].row \in Number /\ invitation[call[d].row].status # "absent"
  BY DEF WellFormed, RequestLocals, LocalsFit, TokenInv, NumbersFresh
<1>3. QED
  BY <1>1, <1>2, TokenFrame

LEMMA NextTokens == WellFormed /\ AuditInv /\ TokenInv /\ [Next]_vars => TokenInv'
<1> SUFFICES ASSUME WellFormed, AuditInv, TokenInv, [Next]_vars PROVE TokenInv'
  OBVIOUS
<1>0. \A t \in mailbox \cup used : Known(t)
  BY DEF Known
<1>1. ASSUME NEW c \in Calls, Invite(c) PROVE TokenInv'
  <2>0. call[c] \in Call /\ Idle \in Call /\ Idle.pc = "idle"
    BY IdleFits DEF WellFormed, TypeOK, Idle
  <2> USE DEF Finish, GoTo, tables, ghosts, BeforeWrite, Accepting
  <2>1. CASE Continue(c, Idle) /\ UNCHANGED <<tables, mailbox, nextCall, ghosts>>
    BY <2>0, <2>1, <1>0, QuietTokens
  <2>2. CASE CheckActive(c) /\ ~Continue(c, Idle)
    <3> DEFINE k == [call[c] EXCEPT !.pc = "findPending"]
    <3>1. k \in Call /\ k.pc = "findPending" /\ k.number = call[c].number
      BY <2>0 DEF Call, Step
    <3>2. Continue(c, k) /\ call[c].pc \in BeforeWrite
      BY <2>2 DEF CheckActive
    <3>3. QED
      BY <2>2, <3>1, <3>2, <1>0, QuietTokens DEF CheckActive
  <2>3. CASE FindPending(c)
    <3>1. CASE GoTo(c, "create")
      <4> DEFINE k == [call[c] EXCEPT !.pc = "create"]
      <4>1. k \in Call /\ k.pc = "create" /\ k.number = call[c].number
        BY <2>0 DEF Call, Step
      <4>2. QED
        BY <2>3, <3>1, <4>1, <1>0, QuietTokens DEF FindPending
    <3>2. ASSUME NEW i \in Number, PendingFor(call[c].person, i),
                 Continue(c, [call[c] EXCEPT !.pc = "resend", !.row = i])
          PROVE  TokenInv'
      <4> DEFINE k == [call[c] EXCEPT !.pc = "resend", !.row = i]
      <4>1. k \in Call /\ k.pc = "resend" /\ k.number = call[c].number /\ k.row = i
        BY <2>0 DEF Call, Step
      <4>2. QED
        BY <2>3, <3>2, <4>1, <1>0, QuietTokens DEF FindPending, PendingFor
    <3>3. QED
      BY <2>3, <3>1, <3>2 DEF FindPending
  <2>4. CASE Resend(c)
    BY <2>4, WriteTokens DEF Resend, TokenInv, NumbersFresh, WellFormed, RequestLocals, LocalsFit
  <2>5. CASE Create(c)
    BY <2>5, WriteTokens DEF Create, WellFormed, RequestLocals, LocalsFit
  <2>6. CASE SendEmail(c)
    <3> DEFINE k == [call[c] EXCEPT !.pc = "audit"]
    <3>1. k \in Call /\ k.pc = "audit"
      BY <2>0 DEF Call, Step
    <3>2. \A t \in mailbox' \cup used' : Known(t)
      BY <2>6 DEF SendEmail, Known
    <3>3. QED
      BY <2>6, <3>1, <3>2, QuietTokens DEF SendEmail
  <2>7. QED
    BY <1>1, <2>1, <2>2, <2>3, <2>4, <2>5, <2>6 DEF Invite, CheckActive, Conflict
<1>2. ASSUME NEW c \in Calls, Accept(c) PROVE TokenInv'
  <2>0. call[c] \in Call /\ Idle \in Call /\ Idle.pc = "idle"
    BY IdleFits DEF WellFormed, TypeOK, Idle
  <2> USE DEF Finish, GoTo, tables, ghosts, BeforeWrite, Accepting
  <2>1. CASE FindAccount(c) \/ Provision(c)
    <3>1. CASE Continue(c, Idle)
      BY <2>0, <2>1, <3>1, <1>0, QuietTokens DEF FindAccount, Provision
    <3>2. ASSUME NEW s \in {"grant", "provision"}, Continue(c, [call[c] EXCEPT !.pc = s])
          PROVE  TokenInv'
      <4> DEFINE k == [call[c] EXCEPT !.pc = s]
      <4>1. k \in Call /\ k.pc = s /\ k.token = call[c].token /\ k.row = call[c].row
        BY <2>0 DEF Call, Step
      <4>2. QED
        BY <2>1, <3>2, <4>1, <1>0, QuietTokens DEF FindAccount, Provision
    <3>3. QED
      BY <2>1, <3>1, <3>2 DEF FindAccount, Provision
  <2>2. CASE Grant(c)
    <3> DEFINE k == [call[c] EXCEPT !.pc = "mark", !.kind = "accepted"]
    <3>1. k \in Call /\ k.pc = "mark" /\ k.token = call[c].token /\ k.row = call[c].row
      BY <2>0 DEF Call, Step, ChangeKind
    <3>2. \A t \in mailbox' \cup used' : Known(t)
      BY <2>2 DEF Grant, Known
    <3>3. QED
      BY <2>2, <3>1, <3>2, QuietTokens DEF Grant
  <2>3. CASE MarkAccepted(c)
    <3> DEFINE k == [call[c] EXCEPT !.pc = "audit"]
    <3>1. k \in Call /\ k.pc = "audit"
      BY <2>0 DEF Call, Step
    <3>2. invitation[call[c].row].status # "absent" /\ call[c].row \in Number
      BY <2>3 DEF MarkAccepted, WellFormed, RequestLocals, LocalsFit, TokenInv, NumbersFresh
    <3>3. QED
      BY <2>3, <3>1, <3>2, <1>0, QuietTokens DEF MarkAccepted, WellFormed, TypeOK, Row
  <2>4. QED
    BY <1>2, <2>1, <2>2, <2>3 DEF Accept
<1>3. ASSUME NEW c \in Calls, Withdraw(c) PROVE TokenInv'
  <2>0. call[c] \in Call /\ Idle \in Call /\ Idle.pc = "idle"
    BY IdleFits DEF WellFormed, TypeOK, Idle
  <2>1. PICK k \in Call : Continue(c, k) /\ k.pc \in {"idle", "audit"}
    <3>1. ASSUME NEW kind \in ChangeKind,
                 Continue(c, [call[c] EXCEPT !.pc = "audit", !.kind = kind])
          PROVE  \E k \in Call : Continue(c, k) /\ k.pc \in {"idle", "audit"}
      <4> DEFINE k == [call[c] EXCEPT !.pc = "audit", !.kind = kind]
      <4>1. k \in Call /\ k.pc = "audit"
        BY <2>0 DEF Call, Step
      <4>2. QED
        BY <3>1, <4>1
    <3>2. QED
      BY <2>0, <1>3, <3>1 DEF Withdraw, Revoke, RevokeInvitation, Finish, ChangeKind
  <2>2. \A i \in Number : /\ invitation'[i].token = invitation[i].token
                          /\ invitation'[i].status = "absent"
                               <=> invitation[i].status = "absent"
    <3>1. CASE Revoke(c)
      BY <3>1 DEF Revoke
    <3>2. CASE RevokeInvitation(c)
      BY <3>2 DEF RevokeInvitation, WellFormed, TypeOK, Row
    <3>3. QED
      BY <1>3, <3>1, <3>2 DEF Withdraw
  <2>3. UNCHANGED <<mailbox, used, nextCall>>
    BY <1>3 DEF Withdraw, Revoke, RevokeInvitation
  <2>4. QED
    BY <1>0, <2>1, <2>2, <2>3, QuietTokens DEF BeforeWrite, Accepting
<1>4. ASSUME NEW c \in Calls, WriteAudit(c) \/ Die(c) PROVE TokenInv'
  <2>1. Continue(c, Idle) /\ UNCHANGED <<invitation, mailbox, nextCall, used>>
        /\ Idle \in Call /\ Idle.pc = "idle"
    BY <1>4, IdleFits DEF WriteAudit, Die, Finish, tables, ghosts, Idle
  <2>2. QED
    BY <1>0, <2>1, QuietTokens DEF BeforeWrite, Accepting
<1>5. ASSUME UNCHANGED <<call, nextCall, mailbox, used>>,
             \A i \in Number : /\ invitation'[i].token = invitation[i].token
                               /\ invitation'[i].status = invitation[i].status
      PROVE  TokenInv'
  <2>1. \A t : Known(t)' => Known(t)
    BY <1>5 DEF Known
  <2>2. \A c \in Calls : call[c].pc \in Accepting \cup {"resend"} => call[c].row \in Number
    BY DEF WellFormed, RequestLocals, LocalsFit
  <2>3. QED
    BY <1>5, <2>1, <2>2 DEF TokenInv, NumbersFresh, OneRowPerToken
<1>6. ASSUME NEW i \in Number, Expire(i) PROVE TokenInv'
  BY <1>5, <1>6 DEF Expire, ghosts, WellFormed, TypeOK, Row
<1>7. ASSUME NEW p \in People, SignUp(p) PROVE TokenInv'
  BY <1>5, <1>7 DEF SignUp, ghosts
<1>8. CASE UNCHANGED vars
  BY <1>5, <1>8 DEF vars, tables, ghosts
<1>9. QED
  BY <1>1, <1>2, <1>3, <1>4, <1>6, <1>7, <1>8, BeginTokens DEF Next

\* A step of one request that grants nothing: a row that is pending was so
\* before, or has a token that granted nothing; a request that leaves "mark"
\* has marked its row, or died.
LEMMA UsedFrame ==
    ASSUME WellFormed, AuditInv, UsedTokenIsDead, NEW c \in Calls, NEW k \in Call,
           Continue(c, k), used' = used, changes \subseteq changes', torn \subseteq torn',
           \A i \in Number : invitation'[i].status = "pending" =>
               \/ invitation'[i].token \notin used
               \/ /\ invitation[i].status = "pending"
                  /\ invitation'[i].token = invitation[i].token,
           call[c].pc = "mark" => \/ invitation'[call[c].row].status # "pending"
                                  \/ call[c].number \in torn'
    PROVE  UsedTokenIsDead'
<1> SUFFICES ASSUME NEW t \in used, NEW i \in Number,
                    invitation'[i].token = t, invitation'[i].status = "pending"
             PROVE  \/ \E d \in Calls : /\ call'[d].pc = "mark" /\ call'[d].row = i
                                        /\ call'[d].token = t
                    \/ \E e \in changes' : /\ e.kind = "accepted" /\ e.row = i
                                           /\ e.number \in torn'
  BY DEF UsedTokenIsDead
<1>1. call'[c] = k /\ \A d \in Calls \ {c} : call'[d] = call[d]
  BY ContinueDoes
<1>2. CASE \E e \in changes : e.kind = "accepted" /\ e.row = i /\ e.number \in torn
  BY <1>2
<1>3. ASSUME NEW d \in Calls, call[d].pc = "mark", call[d].row = i, call[d].token = t, d # c
      PROVE  \E b \in Calls : /\ call'[b].pc = "mark" /\ call'[b].row = i
                              /\ call'[b].token = t
  BY <1>1, <1>3
<1>4. CASE call[c].pc = "mark" /\ call[c].row = i
  <2>1. call[c].number \in torn' /\ call[c].kind = "accepted"
    BY <1>4 DEF WellFormed, RequestLocals, LocalsFit
  <2>2. EntryOf(c, "accepted", i) \in changes
    BY <1>4, <2>1 DEF AuditInv, OneChange, Changed
  <2>3. QED
    BY <2>1, <2>2 DEF EntryOf
<1>5. QED
  BY <1>2, <1>3, <1>4 DEF UsedTokenIsDead

LEMMA NextUsed ==
    WellFormed /\ AuditInv /\ TokenInv /\ UsedTokenIsDead /\ [Next]_vars => UsedTokenIsDead'
<1> SUFFICES ASSUME WellFormed, AuditInv, TokenInv, UsedTokenIsDead, [Next]_vars
             PROVE  UsedTokenIsDead'
  OBVIOUS
<1> USE DEF tables, ghosts
<1>1. ASSUME NEW c \in Calls, BeginSome(c) PROVE UsedTokenIsDead'
  <2>1. PICK k \in Call : Begin(c, k)
    BY <1>1, BeginStart
  <2>2. QED
    BY <2>1, UsedFrame DEF Begin
<1>2. ASSUME NEW c \in Calls, Invite(c) PROVE UsedTokenIsDead'
  <2>1. CASE Resend(c) \/ Create(c)
    <3>1. PICK i \in Number, kind \in {"created", "resent"} : WriteInvitation(c, i, kind)
      BY <2>1 DEF Resend, Create, WellFormed, RequestLocals, LocalsFit, BeforeWrite
    <3> DEFINE n == call[c].number
    <3>2. n \in Number /\ n \notin used /\ call[c].pc # "mark"
      BY <2>1 DEF Resend, Create, WellFormed, RequestLocals, LocalsFit, BeforeWrite,
                  TokenInv, NumbersFresh, Known
    <3>3. invitation'[i].token = n /\ \A j \in Number \ {i} : invitation'[j] = invitation[j]
      BY <3>1 DEF WriteInvitation, WellFormed, TypeOK
    <3>4. PICK k \in Call : Continue(c, k)
      <4>1. call[c] \in Call
        BY DEF WellFormed, TypeOK
      <4>2. [call[c] EXCEPT !.pc = "email", !.row = i, !.token = n, !.kind = kind] \in Call
        BY <3>2, <4>1 DEF Call, Step, ChangeKind
      <4>3. QED
        BY <3>1, <4>2 DEF WriteInvitation
    <3>5. used' = used /\ torn' = torn /\ changes \subseteq changes'
      BY <3>1 DEF WriteInvitation
    <3>6. QED
      BY <3>2, <3>3, <3>4, <3>5, UsedFrame
  <2>2. CASE CheckActive(c) \/ FindPending(c) \/ Conflict(c) \/ SendEmail(c)
    <3>1. UNCHANGED <<invitation, changes, used, torn>> /\ call[c].pc # "mark"
          /\ \A d \in Calls \ {c} : call'[d] = call[d]
      BY <2>2 DEF CheckActive, FindPending, Conflict, SendEmail, Finish, GoTo, Continue,
                  WellFormed, TypeOK
    <3>2. QED
      BY <3>1 DEF UsedTokenIsDead
  <2>3. QED
    BY <1>2, <2>1, <2>2 DEF Invite
<1>3. ASSUME NEW c \in Calls, Accept(c) PROVE UsedTokenIsDead'
  <2>1. CASE FindAccount(c) \/ Provision(c)
    <3>1. UNCHANGED <<invitation, changes, used, torn>> /\ call[c].pc # "mark"
          /\ \A d \in Calls \ {c} : call'[d] = call[d]
      BY <2>1 DEF FindAccount, Provision, Finish, GoTo, Continue, WellFormed, TypeOK
    <3>2. QED
      BY <3>1 DEF UsedTokenIsDead
  <2>2. CASE Grant(c)
    <3> DEFINE t == call[c].token
    <3>1. /\ call'[c].pc = "mark" /\ call'[c].token = t /\ call'[c].row = call[c].row
          /\ \A d \in Calls \ {c} : call'[d] = call[d]
      BY <2>2 DEF Grant, Continue, WellFormed, TypeOK, Call
    <3>2. \A i \in Number : invitation[i].token = t => i = call[c].row
      BY <2>2 DEF Grant, TokenInv, OneRowPerToken, Accepting
    <3>3. /\ used' = used \cup {t} /\ changes \subseteq changes' /\ call[c].pc = "grant"
          /\ UNCHANGED <<invitation, torn>>
      BY <2>2 DEF Grant
    <3>4. QED
      BY <3>1, <3>2, <3>3 DEF UsedTokenIsDead
  <2>3. CASE MarkAccepted(c)
    <3> DEFINE i == call[c].row
    <3>1. i \in Number
      BY <2>3 DEF MarkAccepted, WellFormed, RequestLocals, LocalsFit, Accepting
    <3>2. /\ invitation'[i].status = "accepted"
          /\ \A j \in Number \ {i} : invitation'[j] = invitation[j]
          /\ \A d \in Calls \ {c} : call'[d] = call[d]
          /\ UNCHANGED <<used, torn, changes>>
      BY <2>3, <3>1 DEF MarkAccepted, GoTo, Continue, WellFormed, TypeOK, Row
    <3>3. QED
      BY <3>2 DEF UsedTokenIsDead
  <2>4. QED
    BY <1>3, <2>1, <2>2, <2>3 DEF Accept
<1>4. ASSUME NEW c \in Calls, Withdraw(c) \/ WriteAudit(c) PROVE UsedTokenIsDead'
  <2>1. call[c].pc # "mark" /\ used' = used /\ torn' = torn /\ changes \subseteq changes'
        /\ \A d \in Calls \ {c} : call'[d] = call[d]
    BY <1>4 DEF Withdraw, Revoke, RevokeInvitation, WriteAudit, Finish, Continue,
                WellFormed, TypeOK
  <2>2. \A i \in Number : invitation'[i].status = "pending" => invitation'[i] = invitation[i]
    BY <1>4 DEF Withdraw, Revoke, RevokeInvitation, WriteAudit, WellFormed, TypeOK, Row
  <2>3. QED
    BY <2>1, <2>2 DEF UsedTokenIsDead
<1>5. ASSUME NEW c \in Calls, Die(c) PROVE UsedTokenIsDead'
  <2>1. /\ Continue(c, Idle) /\ torn' = torn \cup {call[c].number}
        /\ UNCHANGED <<invitation, changes, used>>
    BY <1>5 DEF Die, Finish
  <2>2. QED
    BY <2>1, IdleFits, UsedFrame
<1>6. ASSUME UNCHANGED <<call, used, torn, changes>>,
             \A i \in Number : /\ invitation'[i].token = invitation[i].token
                               /\ invitation'[i].status = invitation[i].status
      PROVE  UsedTokenIsDead'
  BY <1>6 DEF UsedTokenIsDead
<1>7. ASSUME NEW i \in Number, Expire(i) PROVE UsedTokenIsDead'
  BY <1>6, <1>7 DEF Expire, WellFormed, TypeOK, Row
<1>8. ASSUME NEW p \in People, SignUp(p) PROVE UsedTokenIsDead'
  BY <1>6, <1>8 DEF SignUp
<1>9. CASE UNCHANGED vars
  BY <1>6, <1>9 DEF vars
<1>10. QED
  BY <1>1, <1>2, <1>3, <1>4, <1>5, <1>7, <1>8, <1>9 DEF Next

LEMMA InitUsed == Init => UsedTokenIsDead
BY DEF Init, UsedTokenIsDead

\* A token that granted access opens no invitation any more, whatever resends
\* and revocations race with its acceptance, unless the request that accepted
\* with it is about to mark the invitation, or died before it could.
THEOREM UsedTokensAreDead == Spec => []UsedTokenIsDead
BY InitWellFormed, NextWellFormed, InitAudit, NextAudit, InitTokens, NextTokens,
   InitUsed, NextUsed, PTL DEF Spec

-----------------------------------------------------------------------------
(* One request at a time.                                                   *)

\* The unique index: one pending row for an email.
OnePending ==
    \A i, j \in Number :
        /\ invitation[i].status = "pending" /\ invitation[j].status = "pending"
        /\ invitation[i].email = invitation[j].email
        => i = j

\* While requests come one at a time, what a request read still holds.
ReadsHold ==
    serial =>
        /\ \A c, d \in Calls : call[c].pc # "idle" /\ call[d].pc # "idle" => c = d
        /\ \A c \in Calls :
              /\ call[c].pc \in {"findPending", "resend", "create"} => call[c].person \notin active
              /\ call[c].pc \in Accepting \cup {"resend"} =>
                    PendingFor(call[c].person, call[c].row)

SerialInv == OnePending /\ ReadsHold /\ OperatorsMatchInvitations

LEMMA InitSerial == Init => SerialInv
<1> SUFFICES ASSUME Init PROVE SerialInv
  OBVIOUS
<1>1. /\ \A c \in Calls : call[c].pc = "idle" /\ active = Founders
      /\ \A i \in Number : invitation[i].status = "absent"
  BY DEF Init, Idle, Absent
<1>2. OnePending /\ ReadsHold
  BY <1>1 DEF OnePending, ReadsHold, Accepting
<1>3. OperatorsMatchInvitations
  BY <1>1 DEF OperatorsMatchInvitations, PendingFor, Init
<1>4. QED
  BY <1>2, <1>3 DEF SerialInv

\* No row becomes pending, or takes another email.
NoNewPending ==
    \A i \in Number : invitation'[i].status = "pending" =>
        invitation[i].status = "pending" /\ invitation'[i].email = invitation[i].email

LEMMA NoNewPendingKeeps == OnePending /\ NoNewPending => OnePending'
BY DEF OnePending, NoNewPending

LEMMA WriteKeepsOnePending ==
    ASSUME WellFormed, OnePending, NEW c \in Calls, NEW i \in Number, NEW kind,
           IndexAllows(call[c].person, i), WriteInvitation(c, i, kind)
    PROVE  OnePending'
<1>1. /\ invitation'[i].email = call[c].person
      /\ \A j \in Number \ {i} : invitation'[j] = invitation[j]
  BY DEF WriteInvitation, WellFormed, TypeOK
<1>2. QED
  BY <1>1 DEF OnePending, IndexAllows, PendingFor

\* A request that is alone goes on; rows and operators are as they were.
LEMMA AloneGoesOn ==
    ASSUME WellFormed, SerialInv, NEW c \in Calls, NEW k \in Call, Continue(c, k),
           call[c].pc # "idle", serial' = serial, active' = active,
           invitation' = invitation,
           k.pc \in {"findPending", "resend", "create"} => k.person \notin active,
           serial /\ k.pc \in Accepting \cup {"resend"} => PendingFor(k.person, k.row),
           call[c].pc # "mark", k.pc # "mark"
    PROVE  SerialInv'
<1>1. call'[c] = k /\ \A d \in Calls \ {c} : call'[d] = call[d]
  BY ContinueDoes
<1>2. OnePending'
  BY DEF SerialInv, OnePending
<1>3. ReadsHold'
  <2> SUFFICES ASSUME serial PROVE ReadsHold'
    BY DEF ReadsHold
  <2>1. \A d \in Calls \ {c} : call[d].pc = "idle"
    BY DEF SerialInv, ReadsHold
  <2>2. QED
    BY <1>1, <2>1 DEF ReadsHold, PendingFor, Accepting
<1>4. OperatorsMatchInvitations'
  <2>1. \A d \in Calls : call'[d].pc = "mark" <=> call[d].pc = "mark"
    BY <1>1
  <2>2. \A d \in Calls : call'[d].pc = "mark" => call'[d].row = call[d].row
    BY <1>1
  <2>3. \A p, i : Welcomed(p, i)' <=> Welcomed(p, i)
    BY <2>1, <2>2 DEF Welcomed
  <2>4. QED
    BY <2>3 DEF SerialInv, OperatorsMatchInvitations, PendingFor
<1>5. QED
  BY <1>2, <1>3, <1>4 DEF SerialInv

\* A lone request writes something; no row becomes pending and nobody who is
\* an operator loses what welcomed them.
LEMMA AloneWrites ==
    ASSUME WellFormed, SerialInv, serial, serial' = serial, OnePending',
           NEW c \in Calls, NEW k \in Call, Continue(c, k),
           call[c].pc # "idle",
           k.pc \notin {"findPending", "resend", "create", "findAccount", "provision", "grant"},
           k.pc = "mark" => /\ invitation'[k.row].email = k.person
                            /\ invitation'[k.row].status = "pending",
           \A p \in active' :
               /\ \/ p \in Founders
                  \/ \E i \in Number : /\ invitation'[i].email = p
                                       /\ \/ invitation'[i].status = "accepted"
                                          \/ k.pc = "mark" /\ k.row = i
               /\ \A i \in Number : PendingFor(p, i)' => k.pc = "mark" /\ k.row = i
    PROVE  SerialInv'
<1>1. call'[c] = k /\ \A d \in Calls \ {c} : call'[d] = call[d]
  BY ContinueDoes
<1>2. \A d \in Calls \ {c} : call[d].pc = "idle"
  BY DEF SerialInv, ReadsHold
<1>3. ReadsHold'
  BY <1>1, <1>2 DEF ReadsHold, Accepting, PendingFor
<1>4. OperatorsMatchInvitations'
  BY <1>1 DEF OperatorsMatchInvitations, Welcomed, PendingFor
<1>5. QED
  BY <1>3, <1>4 DEF SerialInv

LEMMA NotSerial == OnePending' /\ ~serial' => SerialInv'
BY DEF SerialInv, ReadsHold, OperatorsMatchInvitations

\* What a lone request sees of the operators and invitations.
LEMMA AloneSees ==
    ASSUME WellFormed, SerialInv, serial, NEW c \in Calls, call[c].pc # "idle", NEW p \in active
    PROVE  /\ \/ p \in Founders
              \/ \E i \in Number : /\ invitation[i].email = p
                                   /\ \/ invitation[i].status = "accepted"
                                      \/ call[c].pc = "mark" /\ call[c].row = i
           /\ \A i \in Number : PendingFor(p, i) => call[c].pc = "mark" /\ call[c].row = i
<1>1. \A d \in Calls \ {c} : call[d].pc = "idle"
  BY DEF SerialInv, ReadsHold
<1>2. QED
  BY <1>1 DEF SerialInv, OperatorsMatchInvitations, Welcomed, PendingFor

LEMMA NextSerial == WellFormed /\ TokenInv /\ SerialInv /\ [Next]_vars => SerialInv'
<1> SUFFICES ASSUME WellFormed, TokenInv, SerialInv, [Next]_vars PROVE SerialInv'
  OBVIOUS
<1> USE DEF tables, ghosts
<1>1. ASSUME NEW c \in Calls, BeginSome(c) PROVE SerialInv'
  <2>1. PICK k \in Call : /\ Begin(c, k)
                          /\ \/ k.pc \in {"checkActive", "revoke", "revokeInvitation"}
                             \/ k.pc = "findAccount" /\ PendingFor(k.person, k.row)
    BY <1>1, BeginStart
  <2>2. /\ UNCHANGED <<active, invitation>> /\ call[c].pc = "idle"
        /\ serial' = (serial /\ \A d \in Calls : call[d].pc = "idle")
        /\ call'[c] = k /\ \A d \in Calls \ {c} : call'[d] = call[d]
    BY <2>1, ContinueDoes DEF Begin
  <2>3. OnePending'
    BY <2>2 DEF SerialInv, OnePending
  <2>4. ReadsHold'
    BY <2>1, <2>2 DEF ReadsHold, Accepting, PendingFor
  <2>5. OperatorsMatchInvitations'
    <3>1. \A p, i : Welcomed(p, i)' <=> Welcomed(p, i)
      BY <2>1, <2>2 DEF Welcomed
    <3>2. QED
      BY <2>2, <3>1 DEF SerialInv, OperatorsMatchInvitations, PendingFor
  <2>6. QED
    BY <2>3, <2>4, <2>5 DEF SerialInv
<1>2. ASSUME NEW c \in Calls, Invite(c) PROVE SerialInv'
  <2>0. call[c] \in Call /\ Idle \in Call /\ Idle.pc = "idle"
    BY IdleFits DEF WellFormed, TypeOK, Idle
  <2> USE DEF Finish, GoTo
  <2>1. CASE Continue(c, Idle) /\ UNCHANGED <<tables, mailbox, nextCall, ghosts>>
    BY <2>0, <2>1, <1>2, AloneGoesOn DEF Accepting, Invite, CheckActive, FindPending, Resend,
       Create, Conflict, SendEmail
  <2>2. CASE CheckActive(c) /\ ~Continue(c, Idle)
    <3> DEFINE k == [call[c] EXCEPT !.pc = "findPending"]
    <3>1. k \in Call /\ k.pc = "findPending" /\ k.person = call[c].person
      BY <2>0 DEF Call, Step
    <3>2. Continue(c, k) /\ call[c].person \notin active /\ call[c].pc = "checkActive"
      BY <2>2 DEF CheckActive
    <3>3. QED
      BY <2>2, <3>1, <3>2, AloneGoesOn DEF CheckActive, Accepting
  <2>3. CASE FindPending(c)
    <3>1. CASE GoTo(c, "create")
      <4> DEFINE k == [call[c] EXCEPT !.pc = "create"]
      <4>1. k \in Call /\ k.pc = "create" /\ k.person = call[c].person
        BY <2>0 DEF Call, Step
      <4>2. serial => call[c].person \notin active
        BY <2>3 DEF FindPending, SerialInv, ReadsHold
      <4>3. CASE serial
        BY <2>3, <3>1, <4>1, <4>2, <4>3, AloneGoesOn DEF FindPending, Accepting
      <4>4. CASE ~serial
        BY <2>3, <4>4, NotSerial DEF FindPending, SerialInv, OnePending
      <4>5. QED
        BY <4>3, <4>4
    <3>2. ASSUME NEW i \in Number, PendingFor(call[c].person, i),
                 Continue(c, [call[c] EXCEPT !.pc = "resend", !.row = i])
          PROVE  SerialInv'
      <4> DEFINE k == [call[c] EXCEPT !.pc = "resend", !.row = i]
      <4>1. k \in Call /\ k.pc = "resend" /\ k.person = call[c].person /\ k.row = i
        BY <2>0 DEF Call, Step
      <4>2. serial => call[c].person \notin active
        BY <2>3 DEF FindPending, SerialInv, ReadsHold
      <4>3. CASE serial
        BY <2>3, <3>2, <4>1, <4>2, <4>3, AloneGoesOn DEF FindPending, Accepting
      <4>4. CASE ~serial
        BY <2>3, <4>4, NotSerial DEF FindPending, SerialInv, OnePending
      <4>5. QED
        BY <4>3, <4>4
    <3>3. QED
      BY <2>3, <3>1, <3>2 DEF FindPending
  <2>4. ASSUME NEW i \in Number, NEW kind \in {"created", "resent"},
               call[c].pc \in {"resend", "create"}, IndexAllows(call[c].person, i),
               (i = call[c].row /\ call[c].pc = "resend") \/ i = call[c].number,
               WriteInvitation(c, i, kind)
        PROVE  SerialInv'
    <3>1. PICK k \in Call : k.pc = "email" /\ Continue(c, k)
      <4> DEFINE k == [call[c] EXCEPT !.pc = "email", !.row = i,
                                      !.token = call[c].number, !.kind = kind]
      <4>1. call[c].number \in Number
        BY <2>4 DEF WellFormed, RequestLocals, LocalsFit
      <4>2. k \in Call /\ k.pc = "email"
        BY <2>0, <4>1 DEF Call, Step, ChangeKind
      <4>3. QED
        BY <2>4, <4>2 DEF WriteInvitation
    <3>2. OnePending'
      BY <2>4, WriteKeepsOnePending DEF SerialInv
    <3>3. /\ invitation'[i].email = call[c].person /\ invitation'[i].status = "pending"
          /\ \A j \in Number \ {i} : invitation'[j] = invitation[j]
          /\ active' = active /\ serial' = serial
      BY <2>4 DEF WriteInvitation, WellFormed, TypeOK
    <3>4. ASSUME serial, NEW p \in active
          PROVE  /\ p \in Founders \/ \E j \in Number : /\ invitation'[j].email = p
                                                        /\ invitation'[j].status = "accepted"
                 /\ \A j \in Number : ~PendingFor(p, j)'
      <4>1. p # call[c].person
        BY <2>4, <3>4 DEF SerialInv, ReadsHold
      <4>2. invitation[i].status # "accepted"
        BY <2>4, <3>4 DEF SerialInv, ReadsHold, PendingFor, TokenInv, NumbersFresh, BeforeWrite
      <4>3. \A j \in Number : ~PendingFor(p, j)
        BY <2>4, <3>4, AloneSees
      <4>4. p \in Founders \/ \E j \in Number : /\ invitation[j].email = p
                                                /\ invitation[j].status = "accepted"
        BY <2>4, <3>4, AloneSees
      <4>5. QED
        BY <3>3, <4>1, <4>2, <4>3, <4>4 DEF PendingFor
    <3>5. CASE serial
      BY <2>4, <3>1, <3>2, <3>3, <3>4, <3>5, AloneWrites
    <3>6. CASE ~serial
      BY <3>2, <3>3, <3>6, NotSerial
    <3>7. QED
      BY <3>5, <3>6
  <2>5. CASE Resend(c)
    BY <2>4, <2>5 DEF Resend, WellFormed, RequestLocals, LocalsFit
  <2>6. CASE Create(c)
    BY <2>4, <2>6 DEF Create, WellFormed, RequestLocals, LocalsFit
  <2>7. CASE SendEmail(c)
    <3> DEFINE k == [call[c] EXCEPT !.pc = "audit"]
    <3>1. k \in Call /\ k.pc = "audit"
      BY <2>0 DEF Call, Step
    <3>2. QED
      BY <2>7, <3>1, AloneGoesOn DEF SendEmail, Accepting
  <2>8. QED
    BY <1>2, <2>1, <2>2, <2>3, <2>5, <2>6, <2>7 DEF Invite, CheckActive, Conflict
<1>3. ASSUME NEW c \in Calls, Accept(c) PROVE SerialInv'
  <2>0. call[c] \in Call /\ Idle \in Call /\ Idle.pc = "idle"
    BY IdleFits DEF WellFormed, TypeOK, Idle
  <2> USE DEF Finish, GoTo
  <2>1. CASE FindAccount(c) \/ Provision(c)
    <3>1. CASE Continue(c, Idle)
      BY <2>0, <2>1, <3>1, AloneGoesOn DEF FindAccount, Provision, Accepting
    <3>2. ASSUME NEW s \in {"grant", "provision"}, Continue(c, [call[c] EXCEPT !.pc = s])
          PROVE  SerialInv'
      <4> DEFINE k == [call[c] EXCEPT !.pc = s]
      <4>1. k \in Call /\ k.pc = s /\ k.person = call[c].person /\ k.row = call[c].row
        BY <2>0 DEF Call, Step
      <4>2. serial => PendingFor(call[c].person, call[c].row)
        BY <2>1 DEF FindAccount, Provision, SerialInv, ReadsHold, Accepting
      <4>3. QED
        BY <2>1, <3>2, <4>1, <4>2, AloneGoesOn DEF FindAccount, Provision, Accepting
    <3>3. QED
      BY <2>1, <3>1, <3>2 DEF FindAccount, Provision
  <2>2. CASE Grant(c)
    <3>1. PICK k \in Call : /\ k.pc = "mark" /\ Continue(c, k)
                           /\ k.row = call[c].row /\ k.person = call[c].person
      <4> DEFINE k == [call[c] EXCEPT !.pc = "mark", !.kind = "accepted"]
      <4>1. /\ k \in Call /\ k.pc = "mark" /\ k.row = call[c].row /\ k.person = call[c].person
        BY <2>0 DEF Call, Step, ChangeKind
      <4>2. QED
        BY <2>2, <4>1 DEF Grant
    <3>2. /\ active' = active \cup {call[c].person} /\ call[c].pc = "grant"
          /\ UNCHANGED <<invitation, serial>> /\ call[c].row \in Number
      BY <2>2 DEF Grant, WellFormed, RequestLocals, LocalsFit, Accepting
    <3>3. OnePending'
      BY <3>2 DEF SerialInv, OnePending
    <3>4. serial => PendingFor(call[c].person, call[c].row)
      BY <2>2 DEF Grant, SerialInv, ReadsHold, Accepting
    <3>5. ASSUME serial, NEW p \in active'
          PROVE  /\ \/ p \in Founders
                    \/ \E i \in Number : /\ invitation'[i].email = p
                                         /\ \/ invitation'[i].status = "accepted"
                                            \/ k.row = i
                 /\ \A i \in Number : PendingFor(p, i)' => k.row = i
      <4>1. CASE p = call[c].person
        BY <3>1, <3>2, <3>4, <3>5, <4>1 DEF SerialInv, OnePending, PendingFor
      <4>2. CASE p \in active
        BY <3>1, <3>2, <3>5, <4>2, AloneSees DEF PendingFor
      <4>3. QED
        BY <3>2, <4>1, <4>2
    <3>6. CASE serial
      <4>1. invitation'[k.row].email = k.person /\ invitation'[k.row].status = "pending"
        BY <3>1, <3>2, <3>4, <3>6 DEF PendingFor
      <4>2. QED
        BY <3>1, <3>2, <3>3, <3>5, <3>6, <4>1, AloneWrites
    <3>7. CASE ~serial
      BY <3>2, <3>3, <3>7, NotSerial
    <3>8. QED
      BY <3>6, <3>7
  <2>3. CASE MarkAccepted(c)
    <3> DEFINE i == call[c].row
    <3>1. PICK k \in Call : k.pc = "audit" /\ Continue(c, k)
      <4> DEFINE k == [call[c] EXCEPT !.pc = "audit"]
      <4>1. k \in Call /\ k.pc = "audit"
        BY <2>0 DEF Call, Step
      <4>2. QED
        BY <2>3, <4>1 DEF MarkAccepted
    <3>2. i \in Number /\ call[c].pc = "mark"
      BY <2>3 DEF MarkAccepted, WellFormed, RequestLocals, LocalsFit, Accepting
    <3>3. /\ invitation'[i].status = "accepted" /\ invitation'[i].email = invitation[i].email
          /\ \A j \in Number \ {i} : invitation'[j] = invitation[j]
          /\ UNCHANGED <<active, serial>>
      BY <2>3, <3>2 DEF MarkAccepted, WellFormed, TypeOK, Row
    <3>4. OnePending'
      BY <3>2, <3>3, NoNewPendingKeeps DEF SerialInv, NoNewPending
    <3>5. ASSUME serial, NEW p \in active'
          PROVE  /\ \/ p \in Founders
                    \/ \E j \in Number : /\ invitation'[j].email = p
                                         /\ invitation'[j].status = "accepted"
                 /\ \A j \in Number : ~PendingFor(p, j)'
      BY <3>2, <3>3, <3>5, AloneSees DEF PendingFor
    <3>6. CASE serial
      BY <3>1, <3>2, <3>3, <3>4, <3>5, <3>6, AloneWrites
    <3>7. CASE ~serial
      BY <3>3, <3>4, <3>7, NotSerial
    <3>8. QED
      BY <3>6, <3>7
  <2>4. QED
    BY <1>3, <2>1, <2>2, <2>3 DEF Accept
<1>4. ASSUME NEW c \in Calls, Withdraw(c) PROVE SerialInv'
  <2>0. call[c] \in Call /\ Idle \in Call /\ Idle.pc = "idle"
    BY IdleFits DEF WellFormed, TypeOK, Idle
  <2>1. PICK k \in Call : Continue(c, k) /\ k.pc \in {"idle", "audit"}
    <3>1. ASSUME NEW kind \in ChangeKind,
                 Continue(c, [call[c] EXCEPT !.pc = "audit", !.kind = kind])
          PROVE  \E k \in Call : Continue(c, k) /\ k.pc \in {"idle", "audit"}
      <4> DEFINE k == [call[c] EXCEPT !.pc = "audit", !.kind = kind]
      <4>1. k \in Call /\ k.pc = "audit"
        BY <2>0 DEF Call, Step
      <4>2. QED
        BY <3>1, <4>1
    <3>2. QED
      BY <2>0, <1>4, <3>1 DEF Withdraw, Revoke, RevokeInvitation, Finish, ChangeKind
  <2>2. /\ call[c].pc \notin {"idle", "mark"} /\ serial' = serial /\ active' \subseteq active
        /\ NoNewPending
        /\ \A i \in Number : invitation[i].status = "accepted" => invitation'[i] = invitation[i]
    BY <1>4 DEF Withdraw, Revoke, RevokeInvitation, NoNewPending, WellFormed, TypeOK, Row
  <2>3. OnePending'
    BY <2>2, NoNewPendingKeeps DEF SerialInv
  <2>4. ASSUME serial, NEW p \in active'
        PROVE  /\ \/ p \in Founders
                  \/ \E j \in Number : /\ invitation'[j].email = p
                                       /\ invitation'[j].status = "accepted"
               /\ \A j \in Number : ~PendingFor(p, j)'
    BY <2>2, <2>4, AloneSees DEF PendingFor, NoNewPending
  <2>5. CASE serial
    BY <2>1, <2>2, <2>3, <2>4, <2>5, AloneWrites
  <2>6. CASE ~serial
    BY <2>2, <2>3, <2>6, NotSerial
  <2>7. QED
    BY <2>5, <2>6
<1>5. ASSUME NEW c \in Calls, WriteAudit(c) PROVE SerialInv'
  BY <1>5, IdleFits, AloneGoesOn DEF WriteAudit, Finish, Idle, Accepting
<1>6. ASSUME NEW c \in Calls, Die(c) PROVE SerialInv'
  BY <1>6, NotSerial DEF Die, SerialInv, OnePending
<1>7. ASSUME UNCHANGED <<call, active, serial>>,
             \A i \in Number : /\ invitation'[i].email = invitation[i].email
                               /\ invitation'[i].status = invitation[i].status
      PROVE  SerialInv'
  <2>1. \A p : \A i \in Number : (PendingFor(p, i)' <=> PendingFor(p, i))
                                 /\ (Welcomed(p, i)' <=> Welcomed(p, i))
    BY <1>7 DEF PendingFor, Welcomed
  <2>2. OnePending'
    BY <1>7 DEF SerialInv, OnePending
  <2>3. ReadsHold'
    <3>1. \A d \in Calls : call[d].pc \in Accepting \cup {"resend"} => call[d].row \in Number
      BY DEF WellFormed, RequestLocals, LocalsFit
    <3>2. QED
      BY <1>7, <2>1, <3>1 DEF SerialInv, ReadsHold
  <2>4. OperatorsMatchInvitations'
    BY <1>7, <2>1 DEF SerialInv, OperatorsMatchInvitations
  <2>5. QED
    BY <2>2, <2>3, <2>4 DEF SerialInv
<1>8. ASSUME NEW i \in Number, Expire(i) PROVE SerialInv'
  BY <1>7, <1>8 DEF Expire, WellFormed, TypeOK, Row
<1>9. ASSUME NEW p \in People, SignUp(p) PROVE SerialInv'
  BY <1>7, <1>9 DEF SignUp
<1>10. CASE UNCHANGED vars
  BY <1>7, <1>10 DEF vars
<1>11. QED
  BY <1>1, <1>2, <1>3, <1>4, <1>5, <1>6, <1>8, <1>9, <1>10 DEF Next

\* As long as requests come one at a time and none dies, every operator who
\* is not a founder has accepted an invitation, and no operator holds one
\* that is still open.
THEOREM SerialRequestsAgree == Spec => []OperatorsMatchInvitations
<1>1. SerialInv => OperatorsMatchInvitations
  BY DEF SerialInv
<1>2. QED
  BY <1>1, InitWellFormed, NextWellFormed, InitAudit, NextAudit, InitTokens, NextTokens,
     InitSerial, NextSerial, PTL DEF Spec

-----------------------------------------------------------------------------
(* Delivery of the emails.                                                  *)

\* A request goes on: what it wrote it will email, what it was about to email
\* it did, or it died.
LEMMA DeliveredFrame ==
    ASSUME WellFormed, PendingIsDelivered, NEW c \in Calls, NEW k \in Call, Continue(c, k),
           mailbox \subseteq mailbox', torn \subseteq torn',
           call[c].pc = "email" => call[c].token \in mailbox' \cup torn',
           \A i \in Number : invitation'[i].status = "pending" =>
               \/ /\ invitation[i].status = "pending"
                  /\ invitation'[i].token = invitation[i].token
               \/ k.pc = "email" /\ invitation'[i].token = k.token
    PROVE  PendingIsDelivered'
<1>1. call'[c] = k /\ \A d \in Calls \ {c} : call'[d] = call[d]
  BY ContinueDoes
<1>2. ASSUME NEW i \in Number, invitation'[i].status = "pending"
      PROVE  \/ invitation'[i].token \in mailbox' \cup torn'
             \/ \E d \in Calls : call'[d].pc = "email" /\ call'[d].token = invitation'[i].token
  <2>1. CASE k.pc = "email" /\ invitation'[i].token = k.token
    BY <1>1, <2>1
  <2>2. CASE invitation[i].status = "pending" /\ invitation'[i].token = invitation[i].token
    <3>1. CASE invitation[i].token \in mailbox \cup torn
      BY <2>2, <3>1
    <3>2. ASSUME NEW d \in Calls, call[d].pc = "email", call[d].token = invitation[i].token
          PROVE  \/ invitation'[i].token \in mailbox' \cup torn'
                 \/ \E e \in Calls : /\ call'[e].pc = "email"
                                     /\ call'[e].token = invitation'[i].token
      <4>1. CASE d = c
        BY <2>2, <3>2, <4>1
      <4>2. CASE d # c
        BY <1>1, <2>2, <3>2, <4>2
      <4>3. QED
        BY <4>1, <4>2
    <3>3. QED
      BY <2>2, <3>1, <3>2 DEF PendingIsDelivered
  <2>3. QED
    BY <1>2, <2>1, <2>2
<1>3. QED
  BY <1>2 DEF PendingIsDelivered

LEMMA NextDelivered == WellFormed /\ PendingIsDelivered /\ [Next]_vars => PendingIsDelivered'
<1> SUFFICES ASSUME WellFormed, PendingIsDelivered, [Next]_vars PROVE PendingIsDelivered'
  OBVIOUS
<1> USE DEF tables, ghosts
<1>1. ASSUME NEW c \in Calls, BeginSome(c) PROVE PendingIsDelivered'
  <2>1. PICK k \in Call : Begin(c, k)
    BY <1>1, BeginStart
  <2>2. QED
    BY <2>1, DeliveredFrame DEF Begin
<1>2. ASSUME NEW c \in Calls, call[c].pc # "email", UNCHANGED <<mailbox, torn>>, NoNewPending,
             \A i \in Number : invitation'[i].token = invitation[i].token,
             NEW k \in Call, Continue(c, k)
      PROVE  PendingIsDelivered'
  BY <1>2, DeliveredFrame DEF NoNewPending
<1>3. ASSUME NEW c \in Calls, NEW i \in Number, NEW kind \in {"created", "resent"},
             call[c].pc \in {"resend", "create"}, WriteInvitation(c, i, kind)
      PROVE  PendingIsDelivered'
  <2>1. call[c] \in Call /\ call[c].number \in Number
    BY <1>3 DEF WellFormed, TypeOK, RequestLocals, LocalsFit
  <2>2. PICK k \in Call : k.pc = "email" /\ k.token = call[c].number /\ Continue(c, k)
    <3> DEFINE k == [call[c] EXCEPT !.pc = "email", !.row = i,
                                    !.token = call[c].number, !.kind = kind]
    <3>1. k \in Call /\ k.pc = "email" /\ k.token = call[c].number
      BY <2>1 DEF Call, Step, ChangeKind
    <3>2. QED
      BY <1>3, <3>1 DEF WriteInvitation
  <2>3. /\ invitation'[i].token = call[c].number
        /\ \A j \in Number \ {i} : invitation'[j] = invitation[j]
        /\ UNCHANGED <<mailbox, torn>>
    BY <1>3 DEF WriteInvitation, WellFormed, TypeOK
  <2>4. QED
    BY <1>3, <2>2, <2>3, DeliveredFrame
<1>4. ASSUME NEW c \in Calls, Invite(c) PROVE PendingIsDelivered'
  <2>1. CASE CheckActive(c) \/ FindPending(c) \/ Conflict(c)
    <3>1. PICK k \in Call : Continue(c, k)
      <4>1. call[c] \in Call
        BY DEF WellFormed, TypeOK
      <4>2. [call[c] EXCEPT !.pc = "findPending"] \in Call /\ [call[c] EXCEPT !.pc = "create"] \in Call
        BY <4>1 DEF Call, Step
      <4>3. \A i \in Number : [call[c] EXCEPT !.pc = "resend", !.row = i] \in Call
        BY <4>1 DEF Call, Step
      <4>4. QED
        BY <2>1, <4>2, <4>3, IdleFits DEF CheckActive, FindPending, Conflict, GoTo, Finish
    <3>2. QED
      BY <1>2, <2>1, <3>1 DEF CheckActive, FindPending, Conflict, NoNewPending
  <2>2. CASE Resend(c)
    BY <1>3, <2>2 DEF Resend, WellFormed, RequestLocals, LocalsFit
  <2>3. CASE Create(c)
    BY <1>3, <2>3 DEF Create, WellFormed, RequestLocals, LocalsFit
  <2>4. CASE SendEmail(c)
    <3>1. PICK k \in Call : Continue(c, k)
      <4>1. call[c] \in Call
        BY DEF WellFormed, TypeOK
      <4>2. [call[c] EXCEPT !.pc = "audit"] \in Call
        BY <4>1 DEF Call, Step
      <4>3. QED
        BY <2>4, <4>2 DEF SendEmail, GoTo
    <3>2. QED
      BY <2>4, <3>1, DeliveredFrame DEF SendEmail
  <2>5. QED
    BY <1>4, <2>1, <2>2, <2>3, <2>4 DEF Invite
<1>5. ASSUME NEW c \in Calls, Accept(c) \/ Withdraw(c) PROVE PendingIsDelivered'
  <2>1. PICK k \in Call : Continue(c, k)
    <3>1. call[c] \in Call
      BY DEF WellFormed, TypeOK
    <3>2. \A s \in Step : [call[c] EXCEPT !.pc = s] \in Call
      BY <3>1 DEF Call
    <3>3. \A s \in Step, kind \in ChangeKind : [call[c] EXCEPT !.pc = s, !.kind = kind] \in Call
      BY <3>1 DEF Call
    <3>4. QED
      BY <1>5, <3>2, <3>3, IdleFits DEF Accept, FindAccount, Provision, Grant, MarkAccepted,
         Withdraw, Revoke, RevokeInvitation, GoTo, Finish, Step, ChangeKind
  <2>2. call[c].pc # "email" /\ UNCHANGED <<mailbox, torn>>
    BY <1>5 DEF Accept, FindAccount, Provision, Grant, MarkAccepted,
       Withdraw, Revoke, RevokeInvitation
  <2>3. NoNewPending /\ \A i \in Number : invitation'[i].token = invitation[i].token
    BY <1>5 DEF Accept, FindAccount, Provision, Grant, MarkAccepted, NoNewPending,
       Withdraw, Revoke, RevokeInvitation, WellFormed, TypeOK, Row
  <2>4. QED
    BY <1>2, <2>1, <2>2, <2>3
<1>6. ASSUME NEW c \in Calls, WriteAudit(c) PROVE PendingIsDelivered'
  BY <1>2, <1>6, IdleFits DEF WriteAudit, Finish, NoNewPending
<1>7. ASSUME NEW c \in Calls, Die(c) PROVE PendingIsDelivered'
  <2>1. call[c].pc = "email" => call[c].token = call[c].number
    BY DEF WellFormed, RequestLocals, LocalsFit
  <2>2. QED
    BY <1>7, <2>1, IdleFits, DeliveredFrame DEF Die, Finish
<1>8. ASSUME NEW i \in Number, Expire(i) PROVE PendingIsDelivered'
  <2>1. \A j \in Number : /\ invitation'[j].status = invitation[j].status
                          /\ invitation'[j].token = invitation[j].token
    BY <1>8 DEF Expire, WellFormed, TypeOK, Row
  <2>2. QED
    BY <1>8, <2>1 DEF Expire, PendingIsDelivered
<1>9. CASE UNCHANGED <<invitation, mailbox, torn, call>>
  BY <1>9 DEF PendingIsDelivered
<1>10. QED
  BY <1>1, <1>4, <1>5, <1>6, <1>7, <1>8, <1>9 DEF Next, SignUp, vars

\* The token of a pending invitation was emailed, is about to be, or the
\* request that wrote it died before it could email it.
THEOREM PendingInvitationsAreDelivered == Spec => []PendingIsDelivered
<1>1. Init => PendingIsDelivered
  BY DEF Init, PendingIsDelivered, Absent
<1>2. QED
  BY <1>1, InitWellFormed, NextWellFormed, NextDelivered, PTL DEF Spec

=============================================================================
