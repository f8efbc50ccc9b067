---------------------------- MODULE Entitlements ----------------------------
(***************************************************************************)
(* The ledger of what one organization may use: a row per validity period  *)
(* and feature key.  Operators append periods by granting a Comp (a Plan    *)
(* expanded to its keys) and close them early by revoking it                *)
(* (packages/billing/src/entitlements and apps/admin/lib/actions/comps.ts). *)
(*                                                                         *)
(* A statement runs under READ COMMITTED in a transaction of its own: it    *)
(* has one now(), read when it starts, sees the rows committed by then, and *)
(* takes effect when it commits.  Its start and its commit are two actions, *)
(* with other requests and the clock in between.  No writer of the billing  *)
(* periods exists in the repository: those rows are there from the start.   *)
(* The value of a row is left to the row; the operator's gate and name to   *)
(* OperatorAccess; database and application are taken to share a clock.     *)
(***************************************************************************)
EXTENDS Naturals, FiniteSets

CONSTANTS
    Plans,        \* the plans
    Keys,         \* the entitlement_key enum
    NoPlan,       \* the null plan_id
    Catalog,      \* what each plan grants at first
    Releases,     \* what a release may make of the catalog
    Opening,      \* the billing and seed periods of the organization
    DayEnds,      \* the times an operator can choose as an expiry
    Calls,        \* the requests that may be in flight at one time
    MaxTime,      \* bound: the last value of the clock
    MaxCalls,     \* bound: requests in a behaviour
    MaxEdits,     \* bound: releases that change the plans
    MaxDeaths     \* bound: requests that die between two statements

Time == 0 .. MaxTime + 1
Never == MaxTime + 2  \* a null expires_at: later than every time
Number == 1 .. MaxCalls
None == 0

\* promised is observed: the expiry the row was written with.
Period == [batch : Number \cup {None}, plan : Plans \cup {NoPlan}, key : Keys,
           source : {"billing", "seed", "grant"}, starts : Time,
           expires : Time \cup {Never}, promised : Time \cup {Never}]

ASSUME EntitlementsAssumption ==
    /\ NoPlan \notin Plans
    /\ MaxTime \in Nat
    /\ MaxCalls \in Nat
    /\ MaxEdits \in Nat
    /\ MaxDeaths \in Nat
    /\ DayEnds \subseteq Time
    /\ Catalog \in [Plans -> SUBSET Keys]
    /\ Releases \subseteq [Plans -> SUBSET Keys]
    /\ Opening \subseteq {r \in Period : r.source # "grant" /\ r.batch = None}
    /\ IsFiniteSet(Keys) /\ IsFiniteSet(Opening)

VARIABLES
    ledger,    \* entitlements, the rows of the organization
    contents,  \* plan_entitlements
    audit,     \* admin_audit_log
    clock,     \* what now() and Date.now() answer
    call,      \* the requests in flight
    nextCall,  \* the number of the next request
    edited,    \* observed: the plans a release has changed
    edits,     \* observed: how many such changes
    closures,  \* observed: what each committed revocation saw, and when
    torn       \* observed: the requests that died

requests == <<call, nextCall>>
catalog == <<contents, edited, edits>>
vars == <<ledger, catalog, audit, clock, requests, closures, torn>>

\* A grant's row is known by its request and key.
RowId == Number \X Keys
Id(r) == <<r.batch, r.key>>

Step == {"idle", "expand", "insert", "inserting", "auditGrant",
         "close", "closing", "auditRevoke"}

\* The locals of a request; at is now() of the statement in flight, seen
\* the rows it found, closed the count it returned.
Call == [pc : Step, number : Number \cup {None}, plan : Plans \cup {NoPlan},
         until : Time, keys : SUBSET Keys, at : Time,
         seen : SUBSET RowId, closed : Nat]
Idle == [pc |-> "idle", number |-> None, plan |-> NoPlan, until |-> 0,
         keys |-> {}, at |-> 0, seen |-> {}, closed |-> 0]
Entry == [number : Number, kind : {"granted", "revoked"}, plan : Plans,
          until : Time, keys : SUBSET Keys, closed : Nat]
Closure == [number : Number, at : Time, seen : SUBSET RowId]

TypeOK ==
    /\ ledger \in SUBSET Period
    /\ \A r \in ledger : r.source = "grant" => r.expires # Never
    /\ contents \in [Plans -> SUBSET Keys]
    /\ audit \in SUBSET Entry
    /\ clock \in Time
    /\ call \in [Calls -> Call]
    /\ nextCall \in 1 .. MaxCalls + 1
    /\ edited \in SUBSET Plans
    /\ edits \in 0 .. MaxEdits
    /\ closures \in SUBSET Closure
    /\ torn \in SUBSET Number

Init ==
    /\ ledger = Opening
    /\ contents = Catalog
    /\ audit = {}
    /\ clock = 0
    /\ call = [c \in Calls |-> Idle]
    /\ nextCall = 1
    /\ edited = {}
    /\ edits = 0
    /\ closures = {}
    /\ torn = {}

-----------------------------------------------------------------------------
(* What the ledger says.                                                    *)

\* activeWindow: the period r covers the time t.
Covers(r, t) == r.starts <= t /\ t < r.expires

\* has(): a period of the rows l for the key k covers the time t.
Held(l, k, t) == \E r \in l : r.key = k /\ Covers(r, t)

\* Deviation: the source is not asked for.
RevocableAnySource(p, t) == {r \in ledger : r.plan = p /\ Covers(r, t)}

\* Deviation: the periods that ended already are not left out.
RevocableOnceStarted(p, t) ==
    {r \in ledger : r.source = "grant" /\ r.plan = p /\ r.starts <= t}

\* The rows revokeComp's WHERE clause selects when its now() is t.
Revocable(p, t) ==
    {r \in ledger : r.source = "grant" /\ r.plan = p /\ Covers(r, t)}

-----------------------------------------------------------------------------
(* The life of a request.                                                   *)

\* A request passes its gate with the locals k.
Begin(c, k) ==
    /\ call[c].pc = "idle"
    /\ nextCall <= MaxCalls
    /\ call' = [call EXCEPT ![c] = [k EXCEPT !.number = nextCall]]
    /\ nextCall' = nextCall + 1
    /\ UNCHANGED <<ledger, catalog, audit, clock, closures, torn>>

\* The request goes on with the locals k.
Continue(c, k) == call' = [call EXCEPT ![c] = k] /\ UNCHANGED nextCall

Finish(c) == Continue(c, Idle)

-----------------------------------------------------------------------------
(* grantCompAction -> grantComp.                                            *)

\* grantCompSchema: the chosen day has not ended.
BeginGrant(c, p, e) ==
    /\ e > clock
    /\ Begin(c, [Idle EXCEPT !.pc = "expand", !.plan = p, !.until = e])

\* The keys the plan maps to; a plan that maps none throws.
Expand(c) ==
    /\ call[c].pc = "expand"
    /\ IF contents[call[c].plan] = {}
       THEN Finish(c)
       ELSE Continue(c, [call[c] EXCEPT !.pc = "insert",
                                        !.keys = contents[call[c].plan]])
    /\ UNCHANGED <<ledger, catalog, audit, clock, closures, torn>>

StartInsert(c) ==
    /\ call[c].pc = "insert"
    /\ Continue(c, [call[c] EXCEPT !.pc = "inserting", !.at = clock])
    /\ UNCHANGED <<ledger, catalog, audit, clock, closures, torn>>

\* The rows of c's INSERT: all start at its now() and share the expiry.
Granted(c) ==
    {[batch |-> call[c].number, plan |-> call[c].plan, key |-> k,
      source |-> "grant", starts |-> call[c].at, expires |-> call[c].until,
      promised |-> call[c].until] : k \in call[c].keys}

\* Deviation: a row is written only for a key no row covers yet.
CommitInsertMissing(c) ==
    /\ call[c].pc = "inserting"
    /\ ledger' = ledger \cup
           {r \in Granted(c) : ~Held(ledger, r.key, call[c].at)}
    /\ Continue(c, [call[c] EXCEPT !.pc = "auditGrant"])
    /\ UNCHANGED <<catalog, audit, clock, closures, torn>>

CommitInsert(c) ==
    /\ call[c].pc = "inserting"
    /\ ledger' = ledger \cup Granted(c)
    /\ Continue(c, [call[c] EXCEPT !.pc = "auditGrant"])
    /\ UNCHANGED <<catalog, audit, clock, closures, torn>>

-----------------------------------------------------------------------------
(* revokeCompAction -> revokeComp.                                          *)

BeginRevoke(c, p) == Begin(c, [Idle EXCEPT !.pc = "close", !.plan = p])

\* The UPDATE starts: it takes its now() and its snapshot.
StartClose(c) ==
    /\ call[c].pc = "close"
    /\ Continue(c, [call[c] EXCEPT
           !.pc = "closing", !.at = clock,
           !.seen = {Id(r) : r \in Revocable(call[c].plan, clock)}])
    /\ UNCHANGED <<ledger, catalog, audit, clock, closures, torn>>

\* Deviation: the UPDATE goes by the ids that were read and no more.
FoundBefore(c) ==
    {r \in ledger : r.source = "grant" /\ Id(r) \in call[c].seen}

\* The rows that c's UPDATE found and that still match when it has their locks.
StillOpen(c) ==
    {r \in Revocable(call[c].plan, call[c].at) : Id(r) \in call[c].seen}

CommitClose(c) ==
    /\ call[c].pc = "closing"
    /\ ledger' = (ledger \ StillOpen(c)) \cup
           {[r EXCEPT !.expires = call[c].at] : r \in StillOpen(c)}
    /\ closures' = closures \cup {[number |-> call[c].number,
                                   at |-> call[c].at, seen |-> call[c].seen]}
    /\ Continue(c, [call[c] EXCEPT !.pc = "auditRevoke",
                                   !.closed = Cardinality(StillOpen(c))])
    /\ UNCHANGED <<catalog, audit, clock, torn>>

-----------------------------------------------------------------------------
(* writeAdminAudit: also for a revocation that closed nothing.              *)

\* Deviation: the entry names the keys the plan has now.
EntryByCatalog(c, kind) ==
    [number |-> call[c].number, kind |-> kind, plan |-> call[c].plan,
     until |-> call[c].until, keys |-> contents[call[c].plan],
     closed |-> call[c].closed]

EntryOf(c, kind) ==
    [number |-> call[c].number, kind |-> kind, plan |-> call[c].plan,
     until |-> call[c].until, keys |-> call[c].keys, closed |-> call[c].closed]

WriteAudit(c, step, kind) ==
    /\ call[c].pc = step
    /\ audit' = audit \cup {EntryOf(c, kind)}
    /\ Finish(c)
    /\ UNCHANGED <<ledger, catalog, clock, closures, torn>>

\* Deviation: a revocation is not logged.
AuditRevokeSkipped(c) ==
    /\ call[c].pc = "auditRevoke"
    /\ Finish(c)
    /\ UNCHANGED <<ledger, catalog, audit, clock, closures, torn>>

AuditGrant(c) == WriteAudit(c, "auditGrant", "granted")
AuditRevoke(c) == WriteAudit(c, "auditRevoke", "revoked")

-----------------------------------------------------------------------------
(* Around the requests.                                                     *)

\* A statement throws or the process ends: nothing after it happens.
Die(c) ==
    /\ call[c].pc # "idle"
    /\ Cardinality(torn) < MaxDeaths
    /\ torn' = torn \cup {call[c].number}
    /\ Finish(c)
    /\ UNCHANGED <<ledger, catalog, audit, clock, closures>>

Tick ==
    /\ clock < MaxTime
    /\ clock' = clock + 1
    /\ UNCHANGED <<ledger, catalog, audit, requests, closures, torn>>

\* A release changes what the plans grant.
Release(plans) ==
    /\ edits < MaxEdits
    /\ contents' = plans
    /\ edited' = edited \cup {p \in Plans : plans[p] # contents[p]}
    /\ edits' = edits + 1
    /\ UNCHANGED <<ledger, audit, clock, requests, closures, torn>>

Grant(c) ==
    \/ \E p \in Plans, e \in DayEnds : BeginGrant(c, p, e)
    \/ Expand(c)
    \/ StartInsert(c)
    \/ CommitInsert(c)
    \/ AuditGrant(c)

Revoke(c) ==
    \/ \E p \in Plans : BeginRevoke(c, p)
    \/ StartClose(c)
    \/ CommitClose(c)
    \/ AuditRevoke(c)

Next ==
    \/ \E c \in Calls : Grant(c) \/ Revoke(c) \/ Die(c)
    \/ Tick
    \/ \E plans \in Releases : Release(plans)

Spec == Init /\ [][Next]_vars

-----------------------------------------------------------------------------
(* What the writers must keep.                                              *)

\* A row is never removed, and the one thing that may change is the end of a
\* granted period: to an earlier time, not before its start.  Billing and seed
\* periods are left alone even where they share the plan of a Comp (ADR 0007:
\* "the sole permitted mutation"; revokeComp's WHERE clause).
LedgerOnlyCloses ==
    [][\A r \in ledger :
           \/ r \in ledger'
           \/ /\ r.source = "grant"
              /\ \E e \in Time : /\ r.starts <= e /\ e < r.expires
                                 /\ [r EXCEPT !.expires = e] \in ledger']_vars

\* A statement that began at or before t explains a change of whether the key
\* k was held at t: a grant that adds it, a revocation that takes it away.
Explains(c, k, t) ==
    /\ call[c].at <= t
    /\ \/ /\ call[c].pc = "inserting"
          /\ k \in call[c].keys
          /\ Held(ledger', k, t)
       \/ /\ call[c].pc = "closing"
          /\ \E b \in Number : <<b, k>> \in call[c].seen
          /\ ~Held(ledger', k, t)
    /\ call'[c].pc # call[c].pc

\* What was held at a time gone by does not change, but for the statements
\* that had begun by then and commit late: no revocation of an ended Comp
\* gives it more past, and no two writers undo each other (the ledger must
\* answer what was held on a date, ADR 0007).
PastIsSettled ==
    [][\A k \in Keys, t \in 0 .. clock :
           Held(ledger, k, t) # Held(ledger', k, t)
               => \E c \in Calls : Explains(c, k, t)]_vars

\* Every granted row that a committed revocation found ends by the time that
\* revocation began, whatever other revocations began earlier or later and in
\* whichever order they committed.
RevokedStaysClosed ==
    \A x \in closures : \A r \in ledger :
        r.source = "grant" /\ Id(r) \in x.seen => r.expires <= x.at

\* A granted period that ends before its promised expiry was ended by a
\* revocation which is in the audit log with a count above zero, or has yet to
\* write its entry, or died.
Accounted(x) ==
    \/ \E a \in audit : /\ a.number = x.number
                        /\ a.kind = "revoked" /\ a.closed > 0
    \/ \E c \in Calls : /\ call[c].number = x.number
                        /\ call[c].pc = "auditRevoke" /\ call[c].closed > 0
    \/ x.number \in torn
EarlyEndsAreLogged ==
    \A r \in ledger :
        r.source = "grant" /\ r.expires # r.promised
            => \E x \in closures : /\ Id(r) \in x.seen
                                   /\ x.at = r.expires
                                   /\ Accounted(x)

\* An entry comp.granted names exactly the keys for which its request wrote
\* rows, with the expiry they were written with, whatever was released or
\* revoked meanwhile.
GrantLogIsTrue ==
    \A a \in audit : a.kind = "granted" =>
        /\ a.keys = {r.key : r \in {s \in ledger : s.batch = a.number}}
        /\ \A r \in ledger : r.batch = a.number => r.promised = a.until
=============================================================================
