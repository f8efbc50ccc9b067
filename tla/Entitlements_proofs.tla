------------------------ MODULE Entitlements_proofs ------------------------
(***************************************************************************)
(* Theorems about Entitlements and EntitlementReads, for every catalog,     *)
(* every opening ledger and any number of requests in flight.               *)
(***************************************************************************)
EXTENDS EntitlementReads, FiniteSetTheorems, WellFoundedInduction, TLAPS

\* The locals a request has set while it is under way.
LocalsFit(k, next) ==
    k.pc # "idle" => k.number \in Number /\ k.number < next /\ k.plan \in Plans

RequestLocals == \A c \in Calls : LocalsFit(call[c], nextCall)

\* The rows were written by requests that have begun, and are finitely many.
LedgerFits(l, next) ==
    /\ IsFiniteSet(l)
    /\ \A r \in l :
           /\ r.batch < next
           /\ r.source = "grant" => r.batch \in Number

WellFormed == TypeOK /\ RequestLocals /\ LedgerFits(ledger, nextCall)

LEMMA NumberType ==
    /\ Number \in SUBSET Nat /\ None \notin Number
    /\ Time \in SUBSET Nat /\ Never \in Nat /\ 0 \in Time
    /\ \A n \in 1 .. MaxCalls + 1 : n <= MaxCalls => n \in Number
BY EntitlementsAssumption DEF Number, None, Time, Never

LEMMA ImageIsFinite ==
    ASSUME NEW S, IsFiniteSet(S), NEW f
    PROVE  IsFiniteSet({f[x] : x \in S})
<1> DEFINE T == {f[x] : x \in S}
           g == [x \in S |-> f[x]]
<1>1. g \in Surjection(S, T)
  BY DEF Surjection
<1> HIDE DEF g, T
<1>2. IsFiniteSet(T)
  BY <1>1, FS_Surjection
<1>3. QED
  BY <1>2 DEF T

LEMMA InitWellFormed == Init => WellFormed
BY EntitlementsAssumption, NumberType
   DEF Init, WellFormed, TypeOK, RequestLocals, LocalsFit, LedgerFits, Period,
       Call, Idle, Step, None

LEMMA IdleFits == Idle \in Call /\ \A n : LocalsFit(Idle, n)
BY NumberType DEF Idle, Call, Step, None, LocalsFit

\* A request that is under way: its locals, and what it writes.
LEMMA LocalTypes ==
    ASSUME WellFormed, NEW c \in Calls, call[c].pc # "idle"
    PROVE  /\ call[c] \in Call
           /\ call[c].pc \in Step /\ call[c].number \in Number
           /\ call[c].plan \in Plans /\ call[c].until \in Time
           /\ call[c].keys \in SUBSET Keys /\ call[c].at \in Time
           /\ call[c].seen \in SUBSET RowId /\ call[c].closed \in Nat
BY DEF WellFormed, TypeOK, RequestLocals, LocalsFit, Call

-----------------------------------------------------------------------------
(* One step of one request.                                                 *)

\* A request begins: its number is new.
Starts(c, k) ==
    /\ call[c].pc = "idle"
    /\ k.pc \in {"expand", "close"}
    /\ k.number = nextCall /\ nextCall \in Number
    /\ nextCall' = nextCall + 1
    /\ UNCHANGED <<ledger, catalog, audit, clock, closures, torn>>

\* Where a request under way goes next.
Follows(s, t) ==
    \/ s = "expand" /\ t = "insert"
    \/ s = "insert" /\ t = "inserting"
    \/ s = "inserting" /\ t = "auditGrant"
    \/ s = "close" /\ t = "closing"
    \/ s = "closing" /\ t = "auditRevoke"

\* A request goes on, under its number and for its plan.
GoesOn(c, k) ==
    /\ Follows(call[c].pc, k.pc)
    /\ k.number = call[c].number /\ k.plan = call[c].plan
    /\ k.until = call[c].until
    /\ nextCall' = nextCall
    /\ call[c].pc \in {"closing", "inserting"} => k.at = call[c].at /\ k.keys = call[c].keys
    /\ call[c].pc = "closing" => k.seen = call[c].seen
    /\ call[c].pc # "inserting" /\ call[c].pc # "closing"
           => UNCHANGED <<ledger, closures>>
    /\ UNCHANGED <<catalog, audit, clock, torn>>

\* A request ends, with or without an entry in the log.
Ends(c, k) ==
    /\ call[c].pc # "idle" /\ k = Idle
    /\ nextCall' = nextCall
    /\ UNCHANGED <<ledger, catalog, clock, closures>>

StepOf(c) == Grant(c) \/ Revoke(c) \/ Die(c)

LEMMA BeginStarts ==
    ASSUME WellFormed, NEW c \in Calls, NEW k \in Call,
           k.pc \in {"expand", "close"}, k.plan \in Plans, Begin(c, k)
    PROVE  \E m \in Call : /\ call' = [call EXCEPT ![c] = m]
                           /\ LocalsFit(m, nextCall') /\ Starts(c, m)
<1> DEFINE m == [k EXCEPT !.number = nextCall]
<1>1. nextCall \in Nat /\ nextCall \in Number
  BY NumberType, EntitlementsAssumption DEF WellFormed, TypeOK, Begin
<1>2. m \in Call /\ m.pc = k.pc /\ m.number = nextCall /\ m.plan = k.plan
  BY <1>1 DEF Call
<1>3. LocalsFit(m, nextCall')
  BY <1>1, <1>2 DEF LocalsFit, Begin
<1>4. Starts(c, m)
  BY <1>1, <1>2 DEF Starts, Begin
<1>5. QED
  BY <1>2, <1>3, <1>4 DEF Begin

LEMMA StepShape ==
    ASSUME WellFormed, NEW c \in Calls, StepOf(c)
    PROVE  \E k \in Call : /\ call' = [call EXCEPT ![c] = k]
                           /\ LocalsFit(k, nextCall')
                           /\ Starts(c, k) \/ GoesOn(c, k) \/ Ends(c, k)
<1>n. nextCall \in Nat
  BY EntitlementsAssumption DEF WellFormed, TypeOK
<1>1. CASE \E p \in Plans, e \in DayEnds : BeginGrant(c, p, e)
  <2>1. PICK p \in Plans, e \in DayEnds : BeginGrant(c, p, e)
    BY <1>1
  <2> DEFINE k == [Idle EXCEPT !.pc = "expand", !.plan = p, !.until = e]
  <2>2. k \in Call /\ k.pc = "expand" /\ k.plan = p
    BY IdleFits, EntitlementsAssumption DEF Idle, Call, Step
  <2>3. Begin(c, k)
    BY <2>1 DEF BeginGrant
  <2> HIDE DEF k
  <2>4. QED
    BY <2>2, <2>3, BeginStarts
<1>2. CASE \E p \in Plans : BeginRevoke(c, p)
  <2>1. PICK p \in Plans : BeginRevoke(c, p)
    BY <1>2
  <2> DEFINE k == [Idle EXCEPT !.pc = "close", !.plan = p]
  <2>2. k \in Call /\ k.pc = "close" /\ k.plan = p
    BY IdleFits DEF Idle, Call, Step
  <2>3. Begin(c, k)
    BY <2>1 DEF BeginRevoke
  <2> HIDE DEF k
  <2>4. QED
    BY <2>2, <2>3, BeginStarts
<1>3. CASE AuditGrant(c) \/ AuditRevoke(c) \/ Die(c)
  BY <1>3, IdleFits DEF AuditGrant, AuditRevoke, WriteAudit, Die, Finish,
                       Continue, Ends
<1>4. ASSUME call[c].pc # "idle", NEW k \in Call, Continue(c, k), GoesOn(c, k)
      PROVE  /\ call' = [call EXCEPT ![c] = k]
             /\ LocalsFit(k, nextCall') /\ GoesOn(c, k)
  BY <1>4 DEF Continue, GoesOn, LocalsFit, WellFormed, RequestLocals
<1>5. CASE Expand(c)
  <2>1. CASE contents[call[c].plan] = {}
    BY <1>5, <2>1, IdleFits DEF Expand, Finish, Continue, Ends
  <2>2. CASE contents[call[c].plan] # {}
    <3> DEFINE k == [call[c] EXCEPT !.pc = "insert",
                                    !.keys = contents[call[c].plan]]
    <3>1. call[c] \in Call /\ contents[call[c].plan] \in SUBSET Keys
      BY <1>5, LocalTypes DEF Expand, WellFormed, TypeOK
    <3>2. k \in Call
      BY <3>1 DEF Call, Step
    <3>3. Continue(c, k) /\ call[c].pc = "expand"
      BY <1>5, <2>2 DEF Expand
    <3>4. GoesOn(c, k)
      BY <1>5, <3>1, <3>3 DEF Expand, GoesOn, Follows, Continue, Call
    <3> HIDE DEF k
    <3>5. QED
      BY <3>2, <3>3, <3>4, <1>4
  <2>3. QED
    BY <2>1, <2>2
<1>6. CASE StartInsert(c)
  <2> DEFINE k == [call[c] EXCEPT !.pc = "inserting", !.at = clock]
  <2>1. call[c] \in Call /\ call[c].pc = "insert" /\ Continue(c, k)
    BY <1>6, LocalTypes DEF StartInsert
  <2>2. k \in Call
    BY <2>1 DEF Call, Step, WellFormed, TypeOK
  <2>3. GoesOn(c, k)
    BY <1>6, <2>1 DEF StartInsert, GoesOn, Follows, Continue, Call
  <2> HIDE DEF k
  <2>4. QED
    BY <2>1, <2>2, <2>3, <1>4
<1>7. CASE CommitInsert(c)
  <2> DEFINE k == [call[c] EXCEPT !.pc = "auditGrant"]
  <2>1. call[c] \in Call /\ call[c].pc = "inserting" /\ Continue(c, k)
    BY <1>7, LocalTypes DEF CommitInsert
  <2>2. k \in Call
    BY <2>1 DEF Call, Step
  <2>3. GoesOn(c, k)
    BY <1>7, <2>1 DEF CommitInsert, GoesOn, Follows, Continue, Call
  <2> HIDE DEF k
  <2>4. QED
    BY <2>1, <2>2, <2>3, <1>4
<1>8. CASE StartClose(c)
  <2> DEFINE S == {Id(r) : r \in Revocable(call[c].plan, clock)}
             k == [call[c] EXCEPT !.pc = "closing", !.at = clock, !.seen = S]
  <2>1. call[c] \in Call /\ call[c].pc = "close" /\ Continue(c, k)
    BY <1>8, LocalTypes DEF StartClose
  <2>2. S \in SUBSET RowId
    <3>1. ASSUME NEW r \in Revocable(call[c].plan, clock) PROVE Id(r) \in RowId
      <4>1. r \in ledger /\ r.source = "grant"
        BY DEF Revocable
      <4>2. r.batch \in Number
        BY <4>1 DEF WellFormed, LedgerFits
      <4>. r \in Period
        BY <4>1 DEF WellFormed, TypeOK
      <4>3. r.key \in Keys
        BY <4>2 DEF Period
      <4>4. QED
        BY <4>2, <4>3 DEF Id, RowId
    <3>2. QED
      BY <3>1
  <2>3. k \in Call
    BY <2>1, <2>2 DEF Call, Step, WellFormed, TypeOK
  <2>4. GoesOn(c, k)
    BY <1>8, <2>1 DEF StartClose, GoesOn, Follows, Continue, Call
  <2> HIDE DEF k
  <2>5. QED
    BY <2>1, <2>3, <2>4, <1>4
<1>9. CASE CommitClose(c)
  <2> DEFINE n == Cardinality(StillOpen(c))
             k == [call[c] EXCEPT !.pc = "auditRevoke", !.closed = n]
  <2>1. call[c] \in Call /\ call[c].pc = "closing" /\ Continue(c, k)
    BY <1>9, LocalTypes DEF CommitClose
  <2>2. n \in Nat
    BY FS_Subset, FS_CardinalityType DEF StillOpen, Revocable, WellFormed, LedgerFits
  <2>3. k \in Call
    BY <2>1, <2>2 DEF Call, Step
  <2>4. GoesOn(c, k)
    BY <1>9, <2>1 DEF CommitClose, GoesOn, Follows, Continue, Call
  <2> HIDE DEF k
  <2>5. QED
    BY <2>1, <2>3, <2>4, <1>4
<1>10. QED
  BY <1>1, <1>2, <1>3, <1>5, <1>6, <1>7, <1>8, <1>9 DEF StepOf, Grant, Revoke

-----------------------------------------------------------------------------
(* What the two writing statements make of the ledger.                      *)

\* The row r once it is closed at e.
Shut(r, e) == [r EXCEPT !.expires = e]

LEMMA InsertWrites ==
    ASSUME WellFormed, NEW c \in Calls, CommitInsert(c)
    PROVE  /\ ledger' = ledger \cup Granted(c)
           /\ call[c].pc = "inserting" /\ call[c].number \in Number
           /\ IsFiniteSet(Granted(c))
           /\ \A r \in Granted(c) :
                  /\ r \in Period /\ r.source = "grant" /\ r.key \in call[c].keys
                  /\ r.batch = call[c].number /\ r.plan = call[c].plan
                  /\ r.starts = call[c].at
                  /\ r.expires = call[c].until /\ r.promised = call[c].until
           /\ \A k \in call[c].keys : \E r \in Granted(c) : r.key = k
<1>1. /\ call[c].pc # "idle" /\ ledger' = ledger \cup Granted(c)
      /\ call[c].number \in Number /\ call[c].plan \in Plans
      /\ call[c].until \in Time /\ call[c].keys \in SUBSET Keys
      /\ call[c].at \in Time
  BY LocalTypes DEF CommitInsert
<1>2. IsFiniteSet(Granted(c))
  <2> DEFINE RowFor(k) ==
        [batch |-> call[c].number, plan |-> call[c].plan, key |-> k,
         source |-> "grant", starts |-> call[c].at,
         expires |-> call[c].until, promised |-> call[c].until]
  <2>1. IsFiniteSet(call[c].keys)
    BY <1>1, EntitlementsAssumption, FS_Subset
  <2> DEFINE f == [k \in call[c].keys |-> RowFor(k)]
  <2>2. IsFiniteSet({f[k] : k \in call[c].keys})
    BY <2>1, ImageIsFinite
  <2>3. Granted(c) = {f[k] : k \in call[c].keys}
    BY DEF Granted
  <2>4. QED
    BY <2>2, <2>3
<1>3. ASSUME NEW r \in Granted(c)
      PROVE  /\ r \in Period /\ r.source = "grant" /\ r.key \in call[c].keys
             /\ r.batch = call[c].number /\ r.plan = call[c].plan
             /\ r.starts = call[c].at
             /\ r.expires = call[c].until /\ r.promised = call[c].until
  BY <1>1 DEF Granted, Period
<1>4. ASSUME NEW k \in call[c].keys PROVE \E r \in Granted(c) : r.key = k
  <2> DEFINE r == [batch |-> call[c].number, plan |-> call[c].plan, key |-> k,
                   source |-> "grant", starts |-> call[c].at,
                   expires |-> call[c].until, promised |-> call[c].until]
  <2>1. r \in Granted(c)
    BY DEF Granted
  <2>2. r.key = k
    OBVIOUS
  <2>3. QED
    BY <2>1, <2>2
<1>5. call[c].pc = "inserting"
  BY DEF CommitInsert
<1>6. QED
  BY <1>1, <1>2, <1>3, <1>4, <1>5

LEMMA CloseWrites ==
    ASSUME WellFormed, NEW c \in Calls, CommitClose(c)
    PROVE  /\ call[c].at \in Time /\ call[c].seen \in SUBSET RowId
           /\ StillOpen(c) \subseteq ledger
           /\ \A r \in StillOpen(c) :
                  /\ r.source = "grant" /\ Id(r) \in call[c].seen
                  /\ r.plan = call[c].plan
                  /\ r.starts <= call[c].at /\ call[c].at < r.expires
                  /\ Shut(r, call[c].at) \in ledger'
           /\ \A r \in ledger : r \notin StillOpen(c) => r \in ledger'
           /\ \A s \in ledger' :
                  \/ s \in ledger /\ s \notin StillOpen(c)
                  \/ \E r \in StillOpen(c) : s = Shut(r, call[c].at)
BY LocalTypes DEF CommitClose, StillOpen, Revocable, Covers, Shut

\* Closing a row changes its end and nothing else.
LEMMA ShutRow ==
    ASSUME NEW r \in Period, NEW e \in Time
    PROVE  /\ Shut(r, e) \in Period
           /\ Shut(r, e).batch = r.batch /\ Shut(r, e).plan = r.plan
           /\ Shut(r, e).key = r.key /\ Shut(r, e).source = r.source
           /\ Shut(r, e).starts = r.starts /\ Shut(r, e).expires = e
           /\ Shut(r, e).promised = r.promised
BY DEF Shut, Period

-----------------------------------------------------------------------------
(* Type correctness.                                                        *)

\* Only two statements write the ledger, and only one marks a closure.
LEMMA LedgerWriters ==
    ASSUME NEW c \in Calls, StepOf(c)
    PROVE  \/ UNCHANGED <<ledger, closures>>
           \/ CommitInsert(c) /\ closures' = closures
           \/ CommitClose(c)
BY DEF StepOf, Grant, Revoke, Die, BeginGrant, BeginRevoke, Begin, Expand,
       StartInsert, CommitInsert, StartClose, AuditGrant, AuditRevoke, WriteAudit

\* The log grows by the entry of a request that ends.
LEMMA LogWriters ==
    ASSUME WellFormed, NEW c \in Calls, StepOf(c)
    PROVE  \/ UNCHANGED <<audit, torn>>
           \/ AuditGrant(c) /\ torn' = torn
           \/ AuditRevoke(c) /\ torn' = torn
           \/ Die(c) /\ audit' = audit
BY DEF StepOf, Grant, Revoke, Die, BeginGrant, BeginRevoke, Begin, Expand,
       StartInsert, CommitInsert, StartClose, CommitClose, AuditGrant,
       AuditRevoke, WriteAudit

LEMMA LedgerTypes ==
    ASSUME WellFormed, NEW c \in Calls, StepOf(c)
    PROVE  /\ ledger' \in SUBSET Period
           /\ \A r \in ledger' : r.source = "grant" => r.expires # Never
           /\ closures' \in SUBSET Closure
           /\ LedgerFits(ledger', nextCall')
<1>n. nextCall \in Nat /\ nextCall' \in Nat /\ nextCall <= nextCall'
  <2>1. nextCall \in Nat
    BY EntitlementsAssumption DEF WellFormed, TypeOK
  <2>2. PICK k \in Call : Starts(c, k) \/ GoesOn(c, k) \/ Ends(c, k)
    BY StepShape
  <2>3. QED
    BY <2>1, <2>2 DEF Starts, GoesOn, Ends
<1>t. \A t \in Time : t # Never /\ t \in Nat
  BY EntitlementsAssumption DEF Time, Never
<1>r. ASSUME NEW r \in ledger
      PROVE  /\ r \in Period /\ r.batch \in Nat /\ r.batch < nextCall
             /\ r.source = "grant" => r.batch \in Number /\ r.expires # Never
  <2>1. r \in Period /\ r.batch < nextCall
    BY DEF WellFormed, TypeOK, LedgerFits
  <2>2. r.batch \in Number \cup {None}
    BY <2>1 DEF Period
  <2>3. r.source = "grant" => r.batch \in Number /\ r.expires # Never
    BY DEF WellFormed, TypeOK, LedgerFits
  <2>4. QED
    BY <2>1, <2>2, <2>3, NumberType DEF None
<1>1. CASE UNCHANGED <<ledger, closures>>
  <2>1. \A r \in ledger : r.batch < nextCall'
    BY <1>n, <1>r
  <2>2. QED
    BY <1>1, <2>1 DEF WellFormed, TypeOK, LedgerFits
<1>2. CASE CommitInsert(c) /\ closures' = closures
  <2>1. call[c].until \in Time /\ call[c].number < nextCall /\ call[c].number \in Nat
    BY <1>2, InsertWrites, LocalTypes, NumberType
       DEF WellFormed, RequestLocals, LocalsFit
  <2>2. ASSUME NEW r \in ledger'
        PROVE  /\ r \in Period /\ r.batch < nextCall'
               /\ r.source = "grant" => r.batch \in Number /\ r.expires # Never
    BY <1>2, <1>n, <1>r, <1>t, <2>1, InsertWrites
  <2>3. IsFiniteSet(ledger')
    <3>1. IsFiniteSet(ledger) /\ IsFiniteSet(Granted(c))
      BY <1>2, InsertWrites DEF WellFormed, LedgerFits
    <3>2. IsFiniteSet(ledger \cup Granted(c))
      BY <3>1, FS_Union
    <3>3. QED
      BY <1>2, <3>2, InsertWrites
  <2>4. QED
    BY <1>2, <2>2, <2>3 DEF LedgerFits, WellFormed, TypeOK
<1>3. CASE CommitClose(c)
  <2> DEFINE e == call[c].at
  <2>1. e \in Time
    BY <1>3, CloseWrites
  <2>2. ASSUME NEW r \in ledger'
        PROVE  /\ r \in Period /\ r.batch < nextCall'
               /\ r.source = "grant" => r.batch \in Number /\ r.expires # Never
    <3>1. CASE r \in ledger
      BY <3>1, <1>n, <1>r
    <3>2. CASE \E s \in StillOpen(c) : r = Shut(s, e)
      <4>1. PICK s \in ledger : r = Shut(s, e)
        BY <3>2, <1>3, CloseWrites
      <4>2. /\ Shut(s, e) \in Period
            /\ Shut(s, e).batch = s.batch /\ Shut(s, e).source = s.source
            /\ Shut(s, e).expires = e
        BY <1>r, <2>1, ShutRow
      <4>3. QED
        BY <4>1, <4>2, <1>n, <1>r, <1>t, <2>1
    <3>3. QED
      BY <3>1, <3>2, <1>3, CloseWrites
  <2>3. IsFiniteSet(ledger')
    <3> DEFINE f == [r \in StillOpen(c) |-> Shut(r, e)]
    <3>1. IsFiniteSet(ledger \ StillOpen(c)) /\ IsFiniteSet(StillOpen(c))
      BY <1>3, CloseWrites, FS_Difference, FS_Subset DEF WellFormed, LedgerFits
    <3>2. IsFiniteSet({f[r] : r \in StillOpen(c)})
      BY <3>1, ImageIsFinite
    <3>3. ledger' = (ledger \ StillOpen(c)) \cup {f[r] : r \in StillOpen(c)}
      BY <1>3 DEF CommitClose, Shut
    <3> HIDE DEF f
    <3>4. QED
      BY <3>1, <3>2, <3>3, FS_Union
  <2>4. closures' \in SUBSET Closure
    <3>1. call[c].number \in Number /\ call[c].seen \in SUBSET RowId
      BY <1>3, LocalTypes DEF CommitClose
    <3>2. [number |-> call[c].number, at |-> e, seen |-> call[c].seen] \in Closure
      BY <3>1, <2>1 DEF Closure
    <3>3. QED
      BY <1>3, <3>2 DEF CommitClose, WellFormed, TypeOK
  <2>5. QED
    BY <2>2, <2>3, <2>4 DEF LedgerFits
<1>4. QED
  BY <1>1, <1>2, <1>3, LedgerWriters

LEMMA LogTypes ==
    ASSUME WellFormed, NEW c \in Calls, StepOf(c)
    PROVE  audit' \in SUBSET Entry /\ torn' \in SUBSET Number
<1>1. ASSUME call[c].pc # "idle", NEW kind \in {"granted", "revoked"}
      PROVE  EntryOf(c, kind) \in Entry
  BY <1>1, LocalTypes DEF EntryOf, Entry
<1>2. CASE AuditGrant(c) /\ torn' = torn
  BY <1>1, <1>2 DEF AuditGrant, WriteAudit, WellFormed, TypeOK
<1>3. CASE AuditRevoke(c) /\ torn' = torn
  BY <1>1, <1>3 DEF AuditRevoke, WriteAudit, WellFormed, TypeOK
<1>4. CASE Die(c) /\ audit' = audit
  BY <1>4, LocalTypes DEF Die, WellFormed, TypeOK
<1>5. QED
  BY <1>2, <1>3, <1>4, LogWriters DEF WellFormed, TypeOK

\* Every step is that of a request, the clock's or a release.
LEMMA StepKinds ==
    ASSUME [Next]_vars
    PROVE  \/ \E c \in Calls : StepOf(c)
           \/ /\ UNCHANGED <<ledger, audit, requests, closures, torn>>
              /\ Tick \/ (\E plans \in Releases : Release(plans))
           \/ UNCHANGED vars
BY DEF Next, StepOf, Tick, Release

LEMMA StepWellFormed ==
    ASSUME WellFormed, [Next]_vars
    PROVE  WellFormed'
<1>1. CASE UNCHANGED vars
  BY <1>1 DEF vars, requests, catalog, WellFormed, TypeOK, RequestLocals,
              LocalsFit, LedgerFits
<1>2. CASE Tick /\ UNCHANGED <<ledger, audit, requests, closures, torn>>
  <2>1. clock' \in Time
    BY <1>2, EntitlementsAssumption DEF Tick, Time, WellFormed, TypeOK
  <2>2. QED
    BY <1>2, <2>1 DEF Tick, requests, catalog, WellFormed, TypeOK,
                      RequestLocals, LocalsFit, LedgerFits
<1>3. CASE /\ \E plans \in Releases : Release(plans)
           /\ UNCHANGED <<ledger, audit, requests, closures, torn>>
  <2>1. /\ contents' \in [Plans -> SUBSET Keys] /\ edited' \in SUBSET Plans
        /\ edits' \in 0 .. MaxEdits /\ clock' = clock
    BY <1>3, EntitlementsAssumption DEF Release, WellFormed, TypeOK
  <2>2. QED
    BY <1>3, <2>1 DEF requests, WellFormed, TypeOK, RequestLocals, LocalsFit,
                      LedgerFits
<1>4. ASSUME NEW c \in Calls, StepOf(c) PROVE WellFormed'
  <2>1. PICK k \in Call : /\ call' = [call EXCEPT ![c] = k]
                          /\ LocalsFit(k, nextCall')
                          /\ Starts(c, k) \/ GoesOn(c, k) \/ Ends(c, k)
    BY <1>4, StepShape
  <2>2. /\ nextCall \in Nat /\ nextCall' \in 1 .. MaxCalls + 1
        /\ nextCall <= nextCall' /\ nextCall' \in Nat
    BY <2>1, EntitlementsAssumption
       DEF Starts, GoesOn, Ends, Number, WellFormed, TypeOK
  <2>3. call' \in [Calls -> Call]
    BY <2>1 DEF WellFormed, TypeOK
  <2>4. ASSUME NEW d \in Calls PROVE LocalsFit(call'[d], nextCall')
    <3>1. CASE d = c
      BY <2>1, <3>1 DEF WellFormed, TypeOK
    <3>2. CASE d # c
      <4>1. call'[d] = call[d] /\ LocalsFit(call[d], nextCall)
        BY <2>1, <3>2 DEF WellFormed, TypeOK, RequestLocals
      <4>2. call[d].number \in Number => call[d].number \in Nat
        BY NumberType
      <4>3. QED
        BY <4>1, <4>2, <2>2 DEF LocalsFit
    <3>3. QED
      BY <3>1, <3>2
  <2>5. UNCHANGED <<catalog, clock>>
    BY <2>1 DEF Starts, GoesOn, Ends
  <2>6. TypeOK'
    BY <1>4, <2>2, <2>3, <2>5, LedgerTypes, LogTypes
       DEF catalog, WellFormed, TypeOK
  <2>7. QED
    BY <1>4, <2>4, <2>6, LedgerTypes DEF WellFormed, RequestLocals
<1>5. QED
  BY <1>1, <1>2, <1>3, <1>4, StepKinds

\* Every variable keeps its type in every behaviour.
THEOREM TypeCorrect == Spec => []TypeOK
<1>1. Init => WellFormed
  BY InitWellFormed
<1>2. WellFormed /\ [Next]_vars => WellFormed'
  BY StepWellFormed
<1>3. WellFormed => TypeOK
  BY DEF WellFormed
<1>4. QED
  BY <1>1, <1>2, <1>3, PTL DEF Spec

LEMMA AlwaysWellFormed == Spec => []WellFormed
BY InitWellFormed, StepWellFormed, PTL DEF Spec

-----------------------------------------------------------------------------
(* What a step may do to the ledger.                                        *)

\* Each row is where it was, or closed at a time inside its period.
ClosesOnly ==
    \A r \in ledger :
        \/ r \in ledger'
        \/ /\ r.source = "grant"
           /\ \E e \in Time : /\ r.starts <= e /\ e < r.expires
                              /\ [r EXCEPT !.expires = e] \in ledger'

LEMMA StepClosesOnly ==
    ASSUME WellFormed, [Next]_vars
    PROVE  ClosesOnly
<1>1. CASE ledger' = ledger
  BY <1>1 DEF ClosesOnly
<1>2. ASSUME NEW c \in Calls, CommitInsert(c) PROVE ClosesOnly
  BY <1>2, InsertWrites DEF ClosesOnly
<1>3. ASSUME NEW c \in Calls, CommitClose(c) PROVE ClosesOnly
  BY <1>3, CloseWrites DEF ClosesOnly, Shut
<1>4. QED
  BY <1>1, <1>2, <1>3, StepKinds, LedgerWriters DEF vars

\* Rows are never removed, and only granted periods are ended early.
THEOREM RowsOnlyClose == Spec => LedgerOnlyCloses
<1>1. WellFormed /\ [Next]_vars
          => [\A r \in ledger :
                  \/ r \in ledger'
                  \/ /\ r.source = "grant"
                     /\ \E e \in Time : /\ r.starts <= e /\ e < r.expires
                                        /\ [r EXCEPT !.expires = e] \in ledger']_vars
  BY StepClosesOnly DEF ClosesOnly
<1>2. QED
  BY <1>1, AlwaysWellFormed, PTL DEF Spec, LedgerOnlyCloses

\* A change of what was held at t comes from a statement begun by then.
LEMMA StepSettles ==
    ASSUME WellFormed, [Next]_vars, NEW k \in Keys, NEW t \in 0 .. clock,
           Held(ledger, k, t) # Held(ledger', k, t)
    PROVE  \E c \in Calls : Explains(c, k, t)
<1>t. t \in Nat
  BY NumberType DEF WellFormed, TypeOK
<1>1. ledger' # ledger
  OBVIOUS
<1>2. ASSUME NEW c \in Calls, CommitInsert(c) PROVE Explains(c, k, t)
  <2>1. ledger' = ledger \cup Granted(c)
    BY <1>2, InsertWrites
  <2>2. Held(ledger', k, t) /\ ~Held(ledger, k, t)
    BY <2>1 DEF Held
  <2>3. PICK r \in Granted(c) : r.key = k /\ Covers(r, t)
    BY <2>1, <2>2 DEF Held
  <2>4. k \in call[c].keys /\ call[c].at <= t
    BY <1>2, <2>3, InsertWrites DEF Covers
  <2>5. call[c].pc = "inserting" /\ call'[c].pc # call[c].pc
    BY <1>2 DEF CommitInsert, Continue, WellFormed, TypeOK, Call
  <2>6. QED
    BY <2>2, <2>4, <2>5 DEF Explains
<1>3. ASSUME NEW c \in Calls, CommitClose(c) PROVE Explains(c, k, t)
  <2> DEFINE e == call[c].at
  <2>0. e \in Nat
    BY <1>3, CloseWrites, NumberType
  <2>1. ASSUME Held(ledger', k, t) PROVE Held(ledger, k, t)
    <3>1. PICK s \in ledger' : s.key = k /\ Covers(s, t)
      BY <2>1 DEF Held
    <3>2. CASE s \in ledger
      BY <3>1, <3>2 DEF Held
    <3>3. CASE \E r \in StillOpen(c) : s = Shut(r, e)
      <4>1. PICK r \in StillOpen(c) : s = Shut(r, e)
        BY <3>3
      <4>2. r \in ledger /\ r \in Period /\ e < r.expires /\ e \in Time
        BY <1>3, CloseWrites DEF WellFormed, TypeOK
      <4>3. s.key = r.key /\ s.starts = r.starts /\ s.expires = e
        BY <4>1, <4>2, ShutRow
      <4>4. r.expires \in Nat
        BY <4>2, NumberType DEF Period
      <4>5. Covers(r, t) /\ r.key = k
        BY <3>1, <4>2, <4>3, <4>4, <2>0, <1>t DEF Covers
      <4>6. QED
        BY <4>2, <4>5 DEF Held
    <3>4. QED
      BY <3>2, <3>3, <1>3, CloseWrites
  <2>2. Held(ledger, k, t) /\ ~Held(ledger', k, t)
    BY <2>1 DEF Held
  <2>3. PICK r \in ledger : r.key = k /\ Covers(r, t)
    BY <2>2 DEF Held
  <2>4. r \in StillOpen(c) /\ r \in Period
    BY <1>3, <2>2, <2>3, CloseWrites DEF Held, WellFormed, TypeOK
  <2>5. e \in Time /\ Shut(r, e) \in ledger' /\ Id(r) \in call[c].seen
        /\ call[c].seen \in SUBSET RowId
    BY <1>3, <2>4, CloseWrites
  <2>6. /\ Shut(r, e).key = k /\ Shut(r, e).starts = r.starts
        /\ Shut(r, e).expires = e
    BY <2>3, <2>4, <2>5, ShutRow
  <2>7. ~Covers(Shut(r, e), t)
    BY <2>2, <2>5, <2>6 DEF Held
  <2>8. e <= t
    BY <2>0, <2>3, <2>6, <2>7, <1>t DEF Covers
  <2>9. r.batch \in Number /\ <<r.batch, k>> \in call[c].seen
    BY <2>3, <2>5 DEF Id, RowId
  <2>10. call[c].pc = "closing" /\ call'[c].pc # call[c].pc
    BY <1>3 DEF CommitClose, Continue, WellFormed, TypeOK, Call
  <2>11. QED
    BY <2>2, <2>8, <2>9, <2>10 DEF Explains
<1>4. QED
  BY <1>1, <1>2, <1>3, StepKinds, LedgerWriters DEF vars

\* The past of the ledger is settled but for the statements in flight.
THEOREM PastStaysSettled == Spec => PastIsSettled
<1>1. WellFormed /\ [Next]_vars
          => [\A k \in Keys, t \in 0 .. clock :
                  Held(ledger, k, t) # Held(ledger', k, t)
                      => \E c \in Calls : Explains(c, k, t)]_vars
  BY StepSettles
<1>2. QED
  BY <1>1, AlwaysWellFormed, PTL DEF Spec, PastIsSettled

-----------------------------------------------------------------------------
(* The inductive invariant behind what revocations and the log promise.     *)

\* No two requests share a number, and a number in the log is a past one's.
NumbersAreOnes ==
    /\ \A c, d \in Calls : c # d /\ call[c].pc # "idle" /\ call[d].pc # "idle"
                               => call[c].number # call[d].number
    /\ \A a \in audit : /\ a.number < nextCall
                        /\ \A c \in Calls : call[c].pc # "idle"
                                                => a.number # call[c].number

KeysOf(l, n) == {r.key : r \in {s \in l : s.batch = n}}

\* Rows of a request under way exist only once it has inserted them, and are
\* then the rows it is about to log.
BatchFits(k, l) ==
    /\ \A r \in l : k.pc # "idle" /\ r.batch = k.number
                        => k.pc = "auditGrant" /\ r.promised = k.until
    /\ k.pc = "auditGrant" => k.keys = KeysOf(l, k.number)
BatchesFit == \A c \in Calls : BatchFits(call[c], ledger)

\* The granted rows of one request are of one plan and start together.
OneGrant(l) ==
    \A r, s \in l : r.source = "grant" /\ s.source = "grant" /\ r.batch = s.batch
                        => r.plan = s.plan /\ r.starts = s.starts

GrantIds(l) == {Id(r) : r \in {s \in l : s.source = "grant"}}

\* A revocation found rows of its plan that had started, and no others.
Found(k, l) ==
    k.pc = "closing" =>
        /\ k.seen \subseteq GrantIds(l)
        /\ \A r \in l : r.source = "grant" /\ Id(r) \in k.seen
                            => r.plan = k.plan /\ r.starts <= k.at
FoundRows ==
    /\ \A c \in Calls : Found(call[c], ledger)
    /\ \A x \in closures : x.seen \subseteq GrantIds(ledger)

RowsInv == BatchesFit /\ OneGrant(ledger) /\ FoundRows

\* Two versions of one row.
Kin(r, s) ==
    /\ s.batch = r.batch /\ s.plan = r.plan /\ s.key = r.key
    /\ s.source = r.source /\ s.starts = r.starts /\ s.promised = r.promised

LEMMA KinIds == \A r, s : Kin(r, s) => Id(r) = Id(s)
BY DEF Kin, Id

\* Where the rows of the next ledger come from, and where those of this go.
LEMMA Descent ==
    ASSUME WellFormed, NEW c \in Calls, StepOf(c)
    PROVE  /\ \A s \in ledger' : \/ \E r \in ledger : Kin(r, s)
                                 \/ CommitInsert(c) /\ s \in Granted(c)
           /\ \A r \in ledger : \E s \in ledger' : Kin(r, s)
<1>0. \A r \in ledger : r \in Period
  BY DEF WellFormed, TypeOK
<1>1. CASE ledger' = ledger
  BY <1>1 DEF Kin
<1>2. CASE CommitInsert(c)
  BY <1>2, InsertWrites DEF Kin
<1>3. CASE CommitClose(c)
  <2>1. ASSUME NEW r \in StillOpen(c)
        PROVE  /\ r \in ledger /\ Shut(r, call[c].at) \in ledger'
               /\ Kin(r, Shut(r, call[c].at))
    <3>1. r \in ledger /\ call[c].at \in Time /\ Shut(r, call[c].at) \in ledger'
      BY <1>3, CloseWrites
    <3>2. QED
      BY <1>0, <3>1, ShutRow DEF Kin
  <2>2. ASSUME NEW s \in ledger' PROVE \E r \in ledger : Kin(r, s)
    <3>1. CASE s \in ledger
      BY <3>1 DEF Kin
    <3>2. CASE \E r \in StillOpen(c) : s = Shut(r, call[c].at)
      BY <2>1, <3>2
    <3>3. QED
      BY <3>1, <3>2, <1>3, CloseWrites
  <2>3. ASSUME NEW r \in ledger PROVE \E s \in ledger' : Kin(r, s)
    <3>1. CASE r \in StillOpen(c)
      BY <2>1, <3>1
    <3>2. CASE r \notin StillOpen(c)
      BY <3>2, <1>3, CloseWrites DEF Kin
    <3>3. QED
      BY <3>1, <3>2
  <2>4. QED
    BY <2>2, <2>3
<1>4. QED
  BY <1>1, <1>2, <1>3, LedgerWriters

LEMMA GrantIdsGrow ==
    ASSUME WellFormed, NEW c \in Calls, StepOf(c)
    PROVE  GrantIds(ledger) \subseteq GrantIds(ledger')
<1>1. ASSUME NEW r \in ledger, r.source = "grant" PROVE Id(r) \in GrantIds(ledger')
  <2>1. PICK s \in ledger' : Kin(r, s)
    BY Descent
  <2>2. s.source = "grant" /\ Id(s) = Id(r)
    BY <1>1, <2>1, KinIds DEF Kin
  <2>3. QED
    BY <2>2 DEF GrantIds
<1>2. QED
  BY <1>1 DEF GrantIds

LEMMA StepNumbers ==
    ASSUME WellFormed, NumbersAreOnes, NEW c \in Calls, StepOf(c)
    PROVE  NumbersAreOnes'
<1>1. PICK k \in Call : /\ call' = [call EXCEPT ![c] = k]
                        /\ LocalsFit(k, nextCall')
                        /\ Starts(c, k) \/ GoesOn(c, k) \/ Ends(c, k)
  BY StepShape
<1>2. /\ call'[c] = k
      /\ \A d \in Calls : d # c => call'[d] = call[d]
  BY <1>1 DEF WellFormed, TypeOK
<1>3. /\ nextCall \in Nat
      /\ \A d \in Calls : call[d].pc # "idle"
             => call[d].number \in Nat /\ call[d].number < nextCall
  <2>1. nextCall \in Nat
    BY EntitlementsAssumption DEF WellFormed, TypeOK
  <2>2. ASSUME NEW d \in Calls, call[d].pc # "idle"
        PROVE  call[d].number \in Number /\ call[d].number < nextCall
    BY <2>2 DEF WellFormed, RequestLocals, LocalsFit
  <2>3. \A n \in Number : n \in Nat
    BY NumberType
  <2>4. QED
    BY <2>1, <2>2, <2>3
<1>4. CASE Starts(c, k)
  <2>1. k.number = nextCall /\ nextCall' = nextCall + 1 /\ audit' = audit
    BY <1>4 DEF Starts
  <2>2. \A a \in audit : a.number \in Nat
    BY NumberType DEF WellFormed, TypeOK, Entry
  <2>3. QED
    BY <1>2, <1>3, <2>1, <2>2 DEF NumbersAreOnes
<1>5. CASE GoesOn(c, k)
  <2>1. k.number = call[c].number /\ nextCall' = nextCall /\ audit' = audit
        /\ call[c].pc # "idle"
    BY <1>5 DEF GoesOn, Follows
  <2>2. QED
    BY <1>2, <2>1 DEF NumbersAreOnes
<1>6. CASE Ends(c, k)
  <2>1. call[c].pc # "idle" /\ k.pc = "idle" /\ nextCall' = nextCall
    BY <1>6 DEF Ends, Idle
  <2>2. \A a \in audit' : a \in audit \/ a.number = call[c].number
    BY LogWriters DEF AuditGrant, AuditRevoke, WriteAudit, EntryOf, Die
  <2>3. QED
    BY <1>2, <1>3, <2>1, <2>2 DEF NumbersAreOnes
<1>7. QED
  BY <1>1, <1>4, <1>5, <1>6

\* A request with a statement in flight sees it commit, or dies.
LEMMA OnlyWayOn ==
    ASSUME NEW c \in Calls, StepOf(c)
    PROVE  /\ call[c].pc = "inserting" => CommitInsert(c) \/ Die(c)
           /\ call[c].pc = "close" => StartClose(c) \/ Die(c)
           /\ call[c].pc = "closing" => CommitClose(c) \/ Die(c)
           /\ call[c].pc = "auditRevoke" => AuditRevoke(c) \/ Die(c)
BY DEF StepOf, Grant, Revoke, BeginGrant, BeginRevoke, Begin, Expand,
       StartInsert, CommitInsert, StartClose, CommitClose, AuditGrant,
       AuditRevoke, WriteAudit

LEMMA StepBatches ==
    ASSUME WellFormed, NumbersAreOnes, BatchesFit, NEW c \in Calls, StepOf(c)
    PROVE  BatchesFit'
<1>1. PICK k \in Call : /\ call' = [call EXCEPT ![c] = k]
                        /\ LocalsFit(k, nextCall')
                        /\ Starts(c, k) \/ GoesOn(c, k) \/ Ends(c, k)
  BY StepShape
<1>2. /\ call'[c] = k
      /\ \A d \in Calls : d # c => call'[d] = call[d]
  BY <1>1 DEF WellFormed, TypeOK
<1>3. ASSUME CommitInsert(c) PROVE BatchesFit'
  <2>1. /\ ledger' = ledger \cup Granted(c) /\ call[c].pc = "inserting"
        /\ \A r \in Granted(c) : /\ r.key \in call[c].keys
                                 /\ r.batch = call[c].number
                                 /\ r.promised = call[c].until
        /\ \A m \in call[c].keys : \E r \in Granted(c) : r.key = m
    BY <1>3, InsertWrites
  <2>2. /\ k.pc = "auditGrant" /\ k.number = call[c].number
        /\ k.until = call[c].until /\ k.keys = call[c].keys
    BY <1>1, <2>1, <1>3 DEF Starts, GoesOn, Ends, Follows, CommitInsert, Continue,
                            WellFormed, TypeOK, Call
  <2>3. \A r \in ledger : r.batch # call[c].number
    BY <2>1 DEF BatchesFit, BatchFits
  <2>4. BatchFits(k, ledger')
    <3>1. k.keys = KeysOf(ledger', k.number)
      BY <2>1, <2>2, <2>3 DEF KeysOf
    <3>2. QED
      BY <2>1, <2>2, <2>3, <3>1 DEF BatchFits
  <2>5. ASSUME NEW d \in Calls, d # c PROVE BatchFits(call[d], ledger')
    <3>1. CASE call[d].pc = "idle"
      BY <3>1 DEF BatchFits
    <3>2. CASE call[d].pc # "idle"
      <4>1. call[d].number # call[c].number
        BY <2>1, <2>5, <3>2 DEF NumbersAreOnes
      <4>2. KeysOf(ledger', call[d].number) = KeysOf(ledger, call[d].number)
        BY <2>1, <4>1 DEF KeysOf
      <4>3. QED
        BY <2>1, <4>1, <4>2 DEF BatchesFit, BatchFits
    <3>3. QED
      BY <3>1, <3>2
  <2>6. QED
    BY <1>2, <2>4, <2>5 DEF BatchesFit
<1>4. ASSUME ~CommitInsert(c) PROVE BatchesFit'
  <2>1. /\ \A s \in ledger' : \E r \in ledger : Kin(r, s)
        /\ \A r \in ledger : \E s \in ledger' : Kin(r, s)
    BY <1>4, Descent
  <2>2. ASSUME NEW m, BatchFits(m, ledger) PROVE BatchFits(m, ledger')
    <3>1. KeysOf(ledger', m.number) = KeysOf(ledger, m.number)
      BY <2>1 DEF KeysOf, Kin
    <3>2. QED
      BY <2>1, <2>2, <3>1 DEF BatchFits, Kin
  <2>3. BatchFits(k, ledger)
    <3>1. CASE Starts(c, k)
      <4>1. k.pc \in {"expand", "close"} /\ k.number = nextCall /\ nextCall \in Nat
        BY <3>1, EntitlementsAssumption DEF Starts, WellFormed, TypeOK
      <4>2. \A r \in ledger : r.batch \in Nat /\ r.batch < nextCall
        <5>1. ASSUME NEW r \in ledger PROVE r.batch \in Number \cup {None}
          BY DEF WellFormed, TypeOK, Period
        <5>2. QED
          BY <5>1, NumberType DEF WellFormed, LedgerFits, None
      <4>3. QED
        BY <4>1, <4>2 DEF BatchFits
    <3>2. CASE GoesOn(c, k)
      <4>1. call[c].pc # "inserting"
        <5>1. Die(c) => call'[c] = Idle
          BY DEF Die, Finish, Continue, WellFormed, TypeOK
        <5>2. k.pc # "idle"
          BY <3>2 DEF GoesOn, Follows
        <5>3. ~Die(c)
          BY <1>2, <5>1, <5>2 DEF Idle
        <5>4. QED
          BY <1>4, <5>3, OnlyWayOn
      <4>2. /\ call[c].pc # "idle" /\ call[c].pc # "auditGrant" /\ k.pc # "auditGrant"
            /\ k.number = call[c].number
        BY <3>2, <4>1 DEF GoesOn, Follows
      <4>3. QED
        BY <4>2 DEF BatchesFit, BatchFits
    <3>3. CASE Ends(c, k)
      BY <3>3 DEF Ends, Idle, BatchFits
    <3>4. QED
      BY <1>1, <3>1, <3>2, <3>3
  <2>4. QED
    BY <1>2, <2>2, <2>3 DEF BatchesFit
<1>5. QED
  BY <1>3, <1>4

LEMMA StepOneGrant ==
    ASSUME WellFormed, BatchesFit, OneGrant(ledger), NEW c \in Calls, StepOf(c)
    PROVE  OneGrant(ledger')
<1>1. CASE CommitInsert(c)
  <2>1. /\ ledger' = ledger \cup Granted(c) /\ call[c].pc = "inserting"
        /\ \A r \in Granted(c) : /\ r.batch = call[c].number
                                 /\ r.plan = call[c].plan /\ r.starts = call[c].at
    BY <1>1, InsertWrites
  <2>2. \A r \in ledger : r.batch # call[c].number
    BY <2>1 DEF BatchesFit, BatchFits
  <2>3. QED
    BY <2>1, <2>2 DEF OneGrant
<1>2. CASE ~CommitInsert(c)
  <2>1. \A s \in ledger' : \E r \in ledger : Kin(r, s)
    BY <1>2, Descent
  <2>2. QED
    BY <2>1 DEF OneGrant, Kin
<1>3. QED
  BY <1>1, <1>2

LEMMA StepFound ==
    ASSUME WellFormed, RowsInv, NEW c \in Calls, StepOf(c)
    PROVE  FoundRows'
<1>1. PICK k \in Call : /\ call' = [call EXCEPT ![c] = k]
                        /\ LocalsFit(k, nextCall')
                        /\ Starts(c, k) \/ GoesOn(c, k) \/ Ends(c, k)
  BY StepShape
<1>2. /\ call'[c] = k
      /\ \A d \in Calls : d # c => call'[d] = call[d]
  BY <1>1 DEF WellFormed, TypeOK
<1>3. GrantIds(ledger) \subseteq GrantIds(ledger')
  BY GrantIdsGrow
<1>4. ASSUME NEW m, Found(m, ledger) PROVE Found(m, ledger')
  <2>1. ASSUME m.pc = "closing", NEW s \in ledger', s.source = "grant",
               Id(s) \in m.seen
        PROVE  s.plan = m.plan /\ s.starts <= m.at
    <3>1. m.seen \subseteq GrantIds(ledger)
      BY <1>4, <2>1 DEF Found
    <3>2. CASE \E r \in ledger : Kin(r, s)
      <4>1. PICK r \in ledger : Kin(r, s)
        BY <3>2
      <4>2. r.source = "grant" /\ Id(r) \in m.seen
        BY <2>1, <4>1, KinIds DEF Kin
      <4>3. QED
        BY <1>4, <2>1, <4>1, <4>2 DEF Found, Kin
    <3>3. CASE CommitInsert(c) /\ s \in Granted(c)
      <4>1. s.batch = call[c].number /\ call[c].pc = "inserting"
        BY <3>3, InsertWrites
      <4>2. PICK r \in ledger : Id(r) = Id(s)
        BY <2>1, <3>1 DEF GrantIds
      <4>3. r.batch = call[c].number
        BY <4>1, <4>2 DEF Id
      <4>4. QED
        BY <4>1, <4>3 DEF RowsInv, BatchesFit, BatchFits
    <3>4. QED
      BY <3>2, <3>3, Descent
  <2>2. m.pc = "closing" => m.seen \subseteq GrantIds(ledger')
    BY <1>3, <1>4 DEF Found
  <2>3. QED
    BY <2>1, <2>2 DEF Found
<1>5. Found(k, ledger')
  <2>1. CASE k.pc # "closing"
    BY <2>1 DEF Found
  <2>2. CASE k.pc = "closing"
    <3>1. call[c].pc = "close"
      BY <1>1, <2>2 DEF Starts, GoesOn, Ends, Follows, Idle
    <3>2. ~Die(c)
      BY <1>2, <2>2 DEF Die, Finish, Continue, Idle, WellFormed, TypeOK
    <3>3. StartClose(c)
      BY <3>1, <3>2, OnlyWayOn
    <3>4. /\ ledger' = ledger /\ k.plan = call[c].plan /\ k.at = clock
          /\ k.seen = {Id(r) : r \in Revocable(call[c].plan, clock)}
      BY <1>2, <3>3 DEF StartClose, Continue, WellFormed, TypeOK, Call
    <3>5. k.seen \subseteq GrantIds(ledger)
      BY <3>4 DEF Revocable, GrantIds
    <3>6. ASSUME NEW r \in ledger, r.source = "grant", Id(r) \in k.seen
          PROVE  r.plan = k.plan /\ r.starts <= k.at
      <4>1. PICK s \in Revocable(call[c].plan, clock) : Id(s) = Id(r)
        BY <3>4, <3>6
      <4>2. /\ s \in ledger /\ s.source = "grant" /\ s.plan = k.plan
            /\ s.starts <= k.at
        BY <3>4, <4>1 DEF Revocable, Covers
      <4>3. r.batch = s.batch
        BY <4>1 DEF Id
      <4>4. QED
        BY <3>6, <4>2, <4>3 DEF RowsInv, OneGrant
    <3>7. QED
      BY <3>4, <3>5, <3>6 DEF Found
  <2>3. QED
    BY <2>1, <2>2
<1>6. ASSUME NEW d \in Calls PROVE Found(call'[d], ledger')
  <2>1. CASE d = c
    BY <2>1, <1>2, <1>5
  <2>2. CASE d # c
    BY <2>2, <1>2, <1>4 DEF RowsInv, FoundRows
  <2>3. QED
    BY <2>1, <2>2
<1>7. ASSUME NEW x \in closures' PROVE x.seen \subseteq GrantIds(ledger')
  <2>1. CASE x \in closures
    BY <2>1, <1>3 DEF RowsInv, FoundRows
  <2>2. CASE x \notin closures
    <3>1. CommitClose(c)
      BY <2>2, LedgerWriters
    <3>2. x.seen = call[c].seen /\ call[c].pc = "closing"
      BY <2>2, <3>1 DEF CommitClose
    <3>3. QED
      BY <1>3, <3>2 DEF RowsInv, FoundRows, Found
  <2>3. QED
    BY <2>1, <2>2
<1>8. QED
  BY <1>6, <1>7 DEF FoundRows

LEMMA StepRevoked ==
    ASSUME WellFormed, RowsInv, RevokedStaysClosed, NEW c \in Calls, StepOf(c)
    PROVE  RevokedStaysClosed'
<1>1. SUFFICES ASSUME NEW x \in closures', NEW s \in ledger',
                      s.source = "grant", Id(s) \in x.seen
               PROVE  s.expires <= x.at
  BY DEF RevokedStaysClosed
<1>2. CASE UNCHANGED <<ledger, closures>>
  BY <1>1, <1>2 DEF RevokedStaysClosed
<1>3. CASE CommitInsert(c) /\ closures' = closures
  <2>1. CASE s \in ledger
    BY <1>1, <1>3, <2>1 DEF RevokedStaysClosed
  <2>2. CASE s \in Granted(c)
    <3>1. s.batch = call[c].number /\ call[c].pc = "inserting"
      BY <1>3, <2>2, InsertWrites
    <3>2. PICK r \in ledger : Id(r) = Id(s)
      BY <1>1, <1>3 DEF RowsInv, FoundRows, GrantIds
    <3>3. r.batch = call[c].number
      BY <3>1, <3>2 DEF Id
    <3>4. QED
      BY <3>1, <3>3 DEF RowsInv, BatchesFit, BatchFits
  <2>3. QED
    BY <2>1, <2>2, <1>3, InsertWrites
<1>4. CASE CommitClose(c)
  <2> DEFINE e == call[c].at
  <2>0. /\ e \in Time /\ e \in Nat /\ call[c].pc = "closing"
        /\ \A r \in ledger : r \in Period /\ r.expires \in Nat
    <3>1. \A r \in ledger : r \in Period
      BY DEF WellFormed, TypeOK
    <3>2. \A r \in ledger : r.expires \in Time \cup {Never}
      BY <3>1 DEF Period
    <3>3. e \in Time /\ call[c].pc = "closing"
      BY <1>4, CloseWrites DEF CommitClose
    <3>4. QED
      BY <3>1, <3>2, <3>3, NumberType
  <2>1. x \in closures \/ (x.at = e /\ x.seen = call[c].seen)
    BY <1>1, <1>4 DEF CommitClose
  <2>2. x \in closures => x.at \in Nat
    BY NumberType DEF WellFormed, TypeOK, Closure
  <2>3. CASE s \in ledger /\ s \notin StillOpen(c)
    <3>1. CASE x \in closures
      BY <1>1, <2>3, <3>1 DEF RevokedStaysClosed
    <3>2. CASE x.at = e /\ x.seen = call[c].seen
      <4>1. s.plan = call[c].plan /\ s.starts <= e
        BY <1>1, <2>0, <2>3, <3>2 DEF RowsInv, FoundRows, Found
      <4>2. ~(e < s.expires)
        BY <1>1, <2>3, <3>2, <4>1 DEF StillOpen, Revocable, Covers
      <4>3. QED
        BY <2>0, <2>3, <3>2, <4>2
    <3>3. QED
      BY <2>1, <3>1, <3>2
  <2>4. CASE \E r \in StillOpen(c) : s = Shut(r, e)
    <3>1. PICK r \in StillOpen(c) : s = Shut(r, e)
      BY <2>4
    <3>2. r \in ledger /\ r.source = "grant" /\ e < r.expires
      BY <1>4, CloseWrites
    <3>3. s.expires = e /\ Id(s) = Id(r)
      BY <2>0, <3>1, <3>2, ShutRow DEF Id
    <3>4. x \in closures => r.expires <= x.at
      BY <1>1, <3>2, <3>3 DEF RevokedStaysClosed
    <3>5. QED
      BY <2>0, <2>1, <2>2, <3>2, <3>3, <3>4
  <2>5. QED
    BY <2>3, <2>4, <1>4, CloseWrites
<1>5. QED
  BY <1>2, <1>3, <1>4, LedgerWriters

\* A closure that is accounted for stays so: the request that made it logs it
\* or dies.
LEMMA StepAccounted ==
    ASSUME WellFormed, NEW c \in Calls, StepOf(c), NEW x, Accounted(x)
    PROVE  Accounted(x)'
<1>1. PICK k \in Call : /\ call' = [call EXCEPT ![c] = k]
                        /\ LocalsFit(k, nextCall')
                        /\ Starts(c, k) \/ GoesOn(c, k) \/ Ends(c, k)
  BY StepShape
<1>2. \A d \in Calls : d # c => call'[d] = call[d]
  BY <1>1 DEF WellFormed, TypeOK
<1>3. audit \subseteq audit' /\ torn \subseteq torn'
  BY LogWriters DEF AuditGrant, AuditRevoke, WriteAudit, Die
<1>4. CASE \E a \in audit : /\ a.number = x.number
                            /\ a.kind = "revoked" /\ a.closed > 0
  BY <1>3, <1>4 DEF Accounted
<1>5. CASE x.number \in torn
  BY <1>3, <1>5 DEF Accounted
<1>6. CASE \E d \in Calls : /\ call[d].number = x.number
                            /\ call[d].pc = "auditRevoke" /\ call[d].closed > 0
  <2>1. PICK d \in Calls : /\ call[d].number = x.number
                           /\ call[d].pc = "auditRevoke" /\ call[d].closed > 0
    BY <1>6
  <2>2. CASE d # c
    BY <1>2, <2>1, <2>2 DEF Accounted
  <2>3. CASE d = c /\ Die(c)
    BY <2>1, <2>3 DEF Die, Accounted
  <2>4. CASE d = c /\ AuditRevoke(c)
    <3>1. EntryOf(c, "revoked") \in audit'
      BY <2>4 DEF AuditRevoke, WriteAudit
    <3>2. /\ EntryOf(c, "revoked").number = x.number
          /\ EntryOf(c, "revoked").kind = "revoked"
          /\ EntryOf(c, "revoked").closed > 0
      BY <2>1, <2>4 DEF EntryOf
    <3>3. QED
      BY <3>1, <3>2 DEF Accounted
  <2>5. QED
    BY <2>1, <2>2, <2>3, <2>4, OnlyWayOn
<1>7. QED
  BY <1>4, <1>5, <1>6 DEF Accounted

LEMMA StepEarlyEnds ==
    ASSUME WellFormed, EarlyEndsAreLogged, NEW c \in Calls, StepOf(c)
    PROVE  EarlyEndsAreLogged'
<1>1. SUFFICES ASSUME NEW s \in ledger', s.source = "grant",
                      s.expires # s.promised
               PROVE  \E x \in closures' : /\ Id(s) \in x.seen
                                           /\ x.at = s.expires
                                           /\ Accounted(x)'
  BY DEF EarlyEndsAreLogged
<1>2. closures \subseteq closures'
  BY LedgerWriters DEF CommitClose
<1>3. CASE s \in ledger
  <2>1. PICK x \in closures : /\ Id(s) \in x.seen /\ x.at = s.expires
                              /\ Accounted(x)
    BY <1>1, <1>3 DEF EarlyEndsAreLogged
  <2>2. QED
    BY <1>2, <2>1, StepAccounted
<1>4. CASE CommitInsert(c) /\ s \in Granted(c)
  BY <1>1, <1>4, InsertWrites
<1>5. CASE CommitClose(c) /\ \E r \in StillOpen(c) : s = Shut(r, call[c].at)
  <2> DEFINE e == call[c].at
  <2>0. PICK x \in closures' : /\ x.number = call[c].number
                               /\ x.at = e /\ x.seen = call[c].seen
    <3> DEFINE y == [number |-> call[c].number, at |-> e, seen |-> call[c].seen]
    <3>1. y \in closures'
      BY <1>5 DEF CommitClose
    <3>2. y.number = call[c].number /\ y.at = e /\ y.seen = call[c].seen
      OBVIOUS
    <3> HIDE DEF y
    <3>3. QED
      BY <3>1, <3>2
  <2>1. PICK r \in StillOpen(c) : s = Shut(r, e)
    BY <1>5
  <2>2. r \in Period /\ e \in Time /\ Id(r) \in call[c].seen
    BY <1>5, CloseWrites DEF WellFormed, TypeOK
  <2>3. Id(s) \in x.seen /\ x.at = s.expires
    BY <2>0, <2>1, <2>2, ShutRow DEF Id
  <2>5. Cardinality(StillOpen(c)) \in Nat /\ Cardinality(StillOpen(c)) # 0
    <3>1. IsFiniteSet(StillOpen(c))
      BY <1>5, CloseWrites, FS_Subset DEF WellFormed, LedgerFits
    <3>2. QED
      BY <2>1, <3>1, FS_CardinalityType, FS_EmptySet
  <2>6. /\ call'[c].number = call[c].number /\ call'[c].pc = "auditRevoke"
        /\ call'[c].closed = Cardinality(StillOpen(c))
    BY <1>5 DEF CommitClose, Continue, WellFormed, TypeOK, Call
  <2>7. Accounted(x)'
    BY <2>0, <2>5, <2>6 DEF Accounted
  <2>8. QED
    BY <2>0, <2>3, <2>7
<1>6. QED
  BY <1>3, <1>4, <1>5, LedgerWriters, CloseWrites, InsertWrites

LEMMA StepGrantLog ==
    ASSUME WellFormed, NumbersAreOnes, BatchesFit, GrantLogIsTrue,
           NEW c \in Calls, StepOf(c)
    PROVE  GrantLogIsTrue'
<1>1. SUFFICES ASSUME NEW a \in audit', a.kind = "granted"
               PROVE  /\ a.keys = KeysOf(ledger', a.number)
                      /\ \A s \in ledger' : s.batch = a.number
                                                => s.promised = a.until
  BY DEF GrantLogIsTrue, KeysOf
<1>2. CASE a \in audit
  <2>1. /\ a.keys = KeysOf(ledger, a.number)
        /\ \A r \in ledger : r.batch = a.number => r.promised = a.until
    BY <1>1, <1>2 DEF GrantLogIsTrue, KeysOf
  <2>2. ASSUME CommitInsert(c), NEW s \in Granted(c) PROVE s.batch # a.number
    BY <1>2, <2>2, InsertWrites DEF NumbersAreOnes
  <2>3. \A s \in ledger' : s.batch = a.number => \E r \in ledger : Kin(r, s)
    BY <2>2, Descent
  <2>4. \A r \in ledger : \E s \in ledger' : Kin(r, s)
    BY Descent
  <2>5. KeysOf(ledger', a.number) = KeysOf(ledger, a.number)
    BY <2>3, <2>4 DEF KeysOf, Kin
  <2>6. QED
    BY <2>1, <2>3, <2>5 DEF Kin
<1>3. CASE a \notin audit
  <2>1. AuditGrant(c)
    BY <1>1, <1>3, LogWriters DEF AuditRevoke, WriteAudit, EntryOf
  <2>2. a = EntryOf(c, "granted") /\ ledger' = ledger /\ call[c].pc = "auditGrant"
    BY <1>3, <2>1 DEF AuditGrant, WriteAudit
  <2>3. /\ a.number = call[c].number /\ a.keys = call[c].keys
        /\ a.until = call[c].until
    BY <2>2 DEF EntryOf
  <2>4. QED
    BY <2>2, <2>3 DEF BatchesFit, BatchFits
<1>4. QED
  BY <1>2, <1>3

IInv == /\ WellFormed /\ NumbersAreOnes /\ RowsInv
        /\ RevokedStaysClosed /\ EarlyEndsAreLogged /\ GrantLogIsTrue

LEMMA InitIInv == Init => IInv
<1>1. SUFFICES ASSUME Init PROVE IInv
  OBVIOUS
<1>2. \A r \in Opening : r.source # "grant"
  BY EntitlementsAssumption
<1>3. QED
  BY <1>1, <1>2, InitWellFormed
     DEF Init, IInv, NumbersAreOnes, RowsInv, BatchesFit, BatchFits, OneGrant,
         FoundRows, Found, RevokedStaysClosed, EarlyEndsAreLogged,
         GrantLogIsTrue, Idle

LEMMA StepIInv == IInv /\ [Next]_vars => IInv'
<1>1. SUFFICES ASSUME IInv, [Next]_vars PROVE IInv'
  OBVIOUS
<1>2. WellFormed'
  BY <1>1, StepWellFormed DEF IInv
<1>3. CASE UNCHANGED <<ledger, audit, requests, closures, torn>>
  BY <1>1, <1>2, <1>3
     DEF IInv, requests, NumbersAreOnes, RowsInv, BatchesFit, BatchFits, KeysOf,
         OneGrant, FoundRows, Found, GrantIds, RevokedStaysClosed,
         EarlyEndsAreLogged, Accounted, GrantLogIsTrue
<1>4. ASSUME NEW c \in Calls, StepOf(c) PROVE IInv'
  BY <1>1, <1>2, <1>4, StepNumbers, StepBatches, StepOneGrant, StepFound,
     StepRevoked, StepEarlyEnds, StepGrantLog DEF IInv, RowsInv
<1>5. QED
  BY <1>1, <1>3, <1>4, StepKinds DEF vars

LEMMA AlwaysIInv == Spec => []IInv
BY InitIInv, StepIInv, PTL DEF Spec

\* What a committed revocation found has ended by the time it began.
THEOREM RevocationsStick == Spec => []RevokedStaysClosed
<1>1. IInv => RevokedStaysClosed
  BY DEF IInv
<1>2. QED
  BY <1>1, AlwaysIInv, PTL

\* A Comp that ends early has its revocation in the log, or in flight, or torn.
THEOREM EarlyEndsHaveEntries == Spec => []EarlyEndsAreLogged
<1>1. IInv => EarlyEndsAreLogged
  BY DEF IInv
<1>2. QED
  BY <1>1, AlwaysIInv, PTL

\* An entry comp.granted names the rows that were written, and their expiry.
THEOREM GrantLogMatchesLedger == Spec => []GrantLogIsTrue
<1>1. IInv => GrantLogIsTrue
  BY DEF IInv
<1>2. QED
  BY <1>1, AlwaysIInv, PTL

-----------------------------------------------------------------------------
(* Minima and maxima.                                                       *)

\* A set of naturals has a least element.  A proof by induction below is one by
\* the least counterexample: the induction theorems of the library take an
\* operator, which the provers cannot instantiate.
LEMMA NatMin ==
    ASSUME NEW T \in SUBSET Nat, T # {}
    PROVE  \E x \in T : \A y \in T : x <= y
<1> DEFINE R == OpToRel(<, Nat)
<1>1. IsWellFoundedOn(R, Nat)
  BY NatLessThanWellFounded
<1>2. \A x, y \in Nat : ~(<<y, x>> \in R) => x <= y
  BY DEF OpToRel
<1> HIDE DEF R
<1>3. \E x \in T : \A y \in T : ~(<<y, x>> \in R)
  BY <1>1, WFMin
<1>4. QED
  BY <1>2, <1>3

\* Max of the community modules is an upper bound in the set.
LEMMA MaxOf ==
    ASSUME NEW S \in SUBSET Nat, S # {}, NEW b \in Nat, \A x \in S : x <= b
    PROVE  Max(S) \in S /\ \A x \in S : x <= Max(S)
<1> DEFINE U == {u \in Nat : \A x \in S : x <= u}
<1>1. U # {} /\ U \in SUBSET Nat
  OBVIOUS
<1>2. PICK u \in U : \A v \in U : u <= v
  BY <1>1, NatMin
<1>3. u \in S
  <2>1. CASE u = 0
    <3>1. PICK x \in S : TRUE
      OBVIOUS
    <3>2. x \in Nat /\ x <= 0
      BY <1>2, <2>1, <3>1
    <3>3. x = 0
      BY <3>2
    <3>4. QED
      BY <2>1, <3>1, <3>3
  <2>2. CASE u # 0 /\ u \notin S
    <3>1. u - 1 \in Nat /\ \A x \in S : x <= u - 1
      BY <1>2, <2>2
    <3>2. QED
      BY <1>2, <3>1
  <2>3. QED
    BY <2>1, <2>2
<1>4. \E x \in S : \A y \in S : x >= y
  BY <1>2, <1>3
<1>5. Max(S) \in S /\ \A y \in S : Max(S) >= y
  BY <1>4 DEF Max
<1>6. QED
  BY <1>5

-----------------------------------------------------------------------------
(* The inductive invariant behind what the reads show of a Comp.            *)

\* Rows with a batch are those of Comps.
WrittenRows(l) ==
    \A r \in l : r.batch # None => r.source = "grant" /\ r.plan \in Plans

\* The rows of one Comp end together.
OneEnd(l) ==
    \A r, s \in l : r.source = "grant" /\ s.source = "grant" /\ r.batch = s.batch
                        => r.expires = s.expires

\* A Comp of a plan that no release has changed has all of the plan's keys.
BatchIsPlan(l) ==
    \A r \in l : r.source = "grant" /\ r.plan \notin edited
                     => KeysOf(l, r.batch) = contents[r.plan]

\* So has a request that has expanded the plan and not yet inserted.
KeysAreCurrent(k) ==
    k.pc \in {"insert", "inserting"} /\ k.plan \notin edited
        => k.keys = contents[k.plan]

\* A revocation in flight found all rows of a Comp or none.
SeenIsWhole(k, l) ==
    k.pc = "closing" =>
        \A r, s \in l :
            (/\ r.source = "grant" /\ s.source = "grant"
             /\ r.batch = s.batch /\ Id(r) \in k.seen) => Id(s) \in k.seen

WholeInv == /\ WrittenRows(ledger) /\ OneEnd(ledger) /\ BatchIsPlan(ledger)
            /\ \A c \in Calls : KeysAreCurrent(call[c]) /\ SeenIsWhole(call[c], ledger)

\* The rows of a batch that is being inserted are not there yet.
LEMMA InsertIsNew ==
    ASSUME WellFormed, RowsInv, NEW c \in Calls, CommitInsert(c)
    PROVE  \A r \in ledger : r.batch # call[c].number
BY InsertWrites DEF RowsInv, BatchesFit, BatchFits

\* A batch stays a Comp of a plan.
LEMMA StepWrittenRows ==
    ASSUME WellFormed, WrittenRows(ledger), NEW c \in Calls, StepOf(c)
    PROVE  WrittenRows(ledger')
<1>1. ASSUME CommitInsert(c), NEW s \in Granted(c)
      PROVE  s.source = "grant" /\ s.plan \in Plans
  BY <1>1, InsertWrites, LocalTypes
<1>2. QED
  BY <1>1, Descent DEF WrittenRows, Kin

\* A revocation closes all rows of a Comp or none.
LEMMA StepOneEnd ==
    ASSUME WellFormed, RowsInv, WholeInv, NEW c \in Calls, StepOf(c)
    PROVE  OneEnd(ledger')
<1>1. CASE ledger' = ledger
  BY <1>1 DEF WholeInv
<1>2. CASE CommitInsert(c)
  <2>1. \A r \in Granted(c) : r.batch = call[c].number /\ r.expires = call[c].until
    BY <1>2, InsertWrites
  <2>2. QED
    BY <1>2, <2>1, InsertIsNew, InsertWrites DEF WholeInv, OneEnd
<1>3. CASE CommitClose(c)
  <2> DEFINE e == call[c].at
  <2>1. e \in Time /\ call[c].pc = "closing" /\ \A r \in ledger : r \in Period
    BY <1>3, CloseWrites DEF CommitClose, WellFormed, TypeOK
  <2>2. ASSUME NEW s \in ledger'
        PROVE  \E r \in ledger : /\ Kin(r, s)
                                 /\ s.expires = IF r \in StillOpen(c) THEN e ELSE r.expires
    <3>1. CASE s \in ledger /\ s \notin StillOpen(c)
      BY <3>1 DEF Kin
    <3>2. CASE \E r \in StillOpen(c) : s = Shut(r, e)
      <4>1. PICK r \in StillOpen(c) : s = Shut(r, e)
        BY <3>2
      <4>2. r \in ledger
        BY <1>3, CloseWrites
      <4>3. QED
        BY <2>1, <4>1, <4>2, ShutRow DEF Kin
    <3>3. QED
      BY <1>3, <3>1, <3>2, CloseWrites
  <2>3. ASSUME NEW r \in ledger, NEW s \in ledger, r.source = "grant",
               s.source = "grant", r.batch = s.batch, r \in StillOpen(c)
        PROVE  s \in StillOpen(c)
    <3>1. r.plan = s.plan /\ r.starts = s.starts /\ r.expires = s.expires
      BY <2>3 DEF RowsInv, OneGrant, WholeInv, OneEnd
    <3>2. Id(s) \in call[c].seen
      BY <2>1, <2>3 DEF StillOpen, WholeInv, SeenIsWhole
    <3>3. QED
      BY <2>3, <3>1, <3>2 DEF StillOpen, Revocable, Covers
  <2>4. ASSUME NEW s \in ledger', NEW t \in ledger', s.source = "grant",
               t.source = "grant", s.batch = t.batch
        PROVE  s.expires = t.expires
    <3>1. PICK r \in ledger : /\ Kin(r, s)
                              /\ s.expires = IF r \in StillOpen(c) THEN e ELSE r.expires
      BY <2>2
    <3>2. PICK q \in ledger : /\ Kin(q, t)
                              /\ t.expires = IF q \in StillOpen(c) THEN e ELSE q.expires
      BY <2>2
    <3>3. r.source = "grant" /\ q.source = "grant" /\ r.batch = q.batch
      BY <2>4, <3>1, <3>2 DEF Kin
    <3>4. r.expires = q.expires /\ (r \in StillOpen(c) <=> q \in StillOpen(c))
      BY <2>3, <3>3 DEF WholeInv, OneEnd
    <3>5. QED
      BY <3>1, <3>2, <3>4
  <2>5. QED
    BY <2>4 DEF OneEnd
<1>4. QED
  BY <1>1, <1>2, <1>3, LedgerWriters

\* An insert brings all keys of the plan, and nothing takes one away.
LEMMA StepBatchIsPlan ==
    ASSUME WellFormed, RowsInv, WholeInv, NEW c \in Calls, StepOf(c)
    PROVE  BatchIsPlan(ledger)'
<1>1. UNCHANGED catalog
  BY StepShape DEF Starts, GoesOn, Ends
<1>2. CASE CommitInsert(c)
  <2>1. /\ ledger' = ledger \cup Granted(c) /\ call[c].pc = "inserting"
        /\ \A r \in Granted(c) : /\ r.key \in call[c].keys
                                 /\ r.batch = call[c].number /\ r.plan = call[c].plan
        /\ \A m \in call[c].keys : \E r \in Granted(c) : r.key = m
    BY <1>2, InsertWrites
  <2>2. KeysOf(ledger', call[c].number) = call[c].keys
    BY <1>2, <2>1, InsertIsNew DEF KeysOf
  <2>3. ASSUME NEW r \in ledger PROVE KeysOf(ledger', r.batch) = KeysOf(ledger, r.batch)
    BY <1>2, <2>1, InsertIsNew DEF KeysOf
  <2>4. QED
    BY <1>1, <2>1, <2>2, <2>3 DEF WholeInv, BatchIsPlan, KeysAreCurrent, catalog
<1>3. CASE ~CommitInsert(c)
  <2>1. /\ \A s \in ledger' : \E r \in ledger : Kin(r, s)
        /\ \A r \in ledger : \E s \in ledger' : Kin(r, s)
    BY <1>3, Descent
  <2>2. \A n : KeysOf(ledger', n) = KeysOf(ledger, n)
    BY <2>1 DEF KeysOf, Kin
  <2>3. QED
    BY <1>1, <2>1, <2>2 DEF WholeInv, BatchIsPlan, Kin, catalog
<1>4. QED
  BY <1>2, <1>3

\* What a request has read of the plan or found of a Comp stays whole.
LEMMA StepLocals ==
    ASSUME WellFormed, RowsInv, WholeInv, NEW c \in Calls, StepOf(c), NEW d \in Calls
    PROVE  KeysAreCurrent(call[d])' /\ SeenIsWhole(call[d], ledger)'
<1>1. PICK k \in Call : /\ call' = [call EXCEPT ![c] = k]
                        /\ LocalsFit(k, nextCall')
                        /\ Starts(c, k) \/ GoesOn(c, k) \/ Ends(c, k)
  BY StepShape
<1>2. /\ call'[c] = k
      /\ d # c => call'[d] = call[d]
      /\ UNCHANGED catalog
  BY <1>1 DEF WellFormed, TypeOK, Starts, GoesOn, Ends
<1>3. KeysAreCurrent(k)
  <2>1. CASE k.pc \notin {"insert", "inserting"}
    BY <2>1 DEF KeysAreCurrent
  <2>2. CASE k.pc \in {"insert", "inserting"}
    <3>1. GoesOn(c, k) /\ call[c].pc \in {"expand", "insert"} /\ ~Die(c)
      BY <1>1, <1>2, <2>2 DEF Starts, GoesOn, Ends, Follows, Idle, Die, Finish, Continue,
         WellFormed, TypeOK
    <3>2. Expand(c) \/ StartInsert(c)
      BY <3>1 DEF StepOf, Grant, Revoke, BeginGrant, BeginRevoke, Begin, CommitInsert,
         StartClose, CommitClose, AuditGrant, AuditRevoke, WriteAudit
    <3>3. k.plan = call[c].plan
      BY <3>1 DEF GoesOn
    <3>4. CASE Expand(c)
      <4>1. contents[call[c].plan] # {}
        BY <1>2, <2>2, <3>4 DEF Expand, Finish, Continue, Idle, WellFormed, TypeOK
      <4>2. k.keys = contents[call[c].plan]
        BY <1>2, <3>4, <4>1 DEF Expand, Continue, WellFormed, TypeOK, Call
      <4>3. QED
        BY <3>3, <4>2 DEF KeysAreCurrent
    <3>5. CASE StartInsert(c)
      <4>1. k.keys = call[c].keys /\ call[c].pc = "insert"
        BY <1>2, <3>5 DEF StartInsert, Continue, WellFormed, TypeOK, Call
      <4>2. QED
        BY <3>3, <4>1 DEF WholeInv, KeysAreCurrent
    <3>6. QED
      BY <3>2, <3>4, <3>5
  <2>3. QED
    BY <2>1, <2>2
<1>4. KeysAreCurrent(call[d])'
  BY <1>2, <1>3 DEF WholeInv, KeysAreCurrent, catalog
<1>5. ASSUME NEW m, m.pc = "closing" => m.seen \subseteq GrantIds(ledger),
             SeenIsWhole(m, ledger)
      PROVE  SeenIsWhole(m, ledger')
  <2>1. SUFFICES ASSUME m.pc = "closing", NEW s \in ledger', NEW t \in ledger',
                        s.source = "grant", t.source = "grant", s.batch = t.batch,
                        Id(s) \in m.seen
                 PROVE  Id(t) \in m.seen
    BY DEF SeenIsWhole
  <2>2. PICK q \in ledger : Id(q) = Id(s)
    BY <1>5, <2>1 DEF GrantIds
  <2>3. q.batch = s.batch
    BY <2>2 DEF Id
  <2>4. ASSUME CommitInsert(c) PROVE s \notin Granted(c) /\ t \notin Granted(c)
    BY <2>1, <2>3, <2>4, InsertIsNew, InsertWrites
  <2>5. PICK r \in ledger, u \in ledger : Kin(r, s) /\ Kin(u, t)
    BY <2>4, Descent
  <2>6. /\ r.source = "grant" /\ u.source = "grant" /\ r.batch = u.batch
        /\ Id(r) = Id(s) /\ Id(u) = Id(t)
    BY <2>1, <2>5, KinIds DEF Kin
  <2>7. QED
    BY <1>5, <2>1, <2>6 DEF SeenIsWhole
<1>6. SeenIsWhole(k, ledger')
  <2>1. CASE k.pc # "closing"
    BY <2>1 DEF SeenIsWhole
  <2>2. CASE k.pc = "closing"
    <3>1. call[c].pc = "close" /\ ~Die(c)
      BY <1>1, <1>2, <2>2 DEF Starts, GoesOn, Ends, Follows, Idle, Die, Finish, Continue,
         WellFormed, TypeOK
    <3>2. StartClose(c)
      BY <3>1, OnlyWayOn
    <3>3. ledger' = ledger /\ k.seen = {Id(r) : r \in Revocable(call[c].plan, clock)}
      BY <1>2, <3>2 DEF StartClose, Continue, WellFormed, TypeOK, Call
    <3>4. ASSUME NEW r \in ledger, NEW s \in ledger, r.source = "grant",
                 s.source = "grant", r.batch = s.batch, Id(r) \in k.seen
          PROVE  Id(s) \in k.seen
      <4>1. PICK q \in Revocable(call[c].plan, clock) : Id(q) = Id(r)
        BY <3>3, <3>4
      <4>2. q \in ledger /\ q.source = "grant" /\ q.batch = s.batch
        BY <3>4, <4>1 DEF Id, Revocable
      <4>3. q.plan = s.plan /\ q.starts = s.starts /\ q.expires = s.expires
        BY <3>4, <4>2 DEF RowsInv, OneGrant, WholeInv, OneEnd
      <4>4. s \in Revocable(call[c].plan, clock)
        BY <3>4, <4>1, <4>3 DEF Revocable, Covers
      <4>5. QED
        BY <3>3, <4>4
    <3>5. QED
      BY <3>3, <3>4 DEF SeenIsWhole
  <2>3. QED
    BY <2>1, <2>2
<1>7. SeenIsWhole(call[d], ledger)'
  BY <1>2, <1>5, <1>6 DEF WholeInv, RowsInv, FoundRows, Found
<1>8. QED
  BY <1>4, <1>7

LEMMA InitWhole == Init => WholeInv
<1>1. \A r \in Opening : r.source # "grant" /\ r.batch = None
  BY EntitlementsAssumption
<1>2. QED
  BY <1>1 DEF Init, WholeInv, WrittenRows, OneEnd, BatchIsPlan, KeysAreCurrent,
              SeenIsWhole, Idle

LEMMA StepWhole == IInv /\ WholeInv /\ [Next]_vars => WholeInv'
<1>1. SUFFICES ASSUME IInv, WholeInv, [Next]_vars PROVE WholeInv'
  OBVIOUS
<1>2. WellFormed /\ RowsInv
  BY <1>1 DEF IInv
<1>3. CASE UNCHANGED vars
  BY <1>1, <1>3 DEF vars, catalog, requests, WholeInv, WrittenRows, OneEnd, BatchIsPlan,
     KeysAreCurrent, SeenIsWhole, KeysOf
<1>4. CASE /\ UNCHANGED <<ledger, audit, requests, closures, torn>>
           /\ Tick \/ (\E plans \in Releases : Release(plans))
  <2>1. /\ edited \subseteq edited'
        /\ \A p \in Plans : p \notin edited' => contents'[p] = contents[p]
    BY <1>4 DEF Tick, Release, catalog
  <2>2. \A r \in ledger : r.source = "grant" => r.plan \in Plans
    BY <1>1, <1>2, NumberType DEF WholeInv, WrittenRows, WellFormed, LedgerFits
  <2>3. \A c \in Calls : call[c].pc # "idle" => call[c].plan \in Plans
    BY <1>2, LocalTypes
  <2>4. BatchIsPlan(ledger)'
    BY <1>1, <1>4, <2>1, <2>2 DEF WholeInv, BatchIsPlan
  <2>5. \A c \in Calls : KeysAreCurrent(call[c])'
    BY <1>1, <1>4, <2>1, <2>3 DEF WholeInv, KeysAreCurrent, requests
  <2>6. QED
    BY <1>1, <1>4, <2>4, <2>5 DEF WholeInv, WrittenRows, OneEnd, SeenIsWhole, requests
<1>5. ASSUME NEW c \in Calls, StepOf(c) PROVE WholeInv'
  <2>1. WrittenRows(ledger') /\ OneEnd(ledger') /\ BatchIsPlan(ledger)'
    BY <1>1, <1>2, <1>5, StepWrittenRows, StepOneEnd, StepBatchIsPlan DEF WholeInv
  <2>2. QED
    BY <1>1, <1>2, <1>5, <2>1, StepLocals DEF WholeInv
<1>6. QED
  BY <1>1, <1>3, <1>4, <1>5, StepKinds

\* In a state of the invariant every Comp is shown whole.
LEMMA WholeComps ==
    ASSUME IInv, WholeInv
    PROVE  CompsAreWhole
<1>1. SUFFICES ASSUME NEW m \in ActiveComps, m.plan \notin edited
               PROVE  /\ m.keys = contents[m.plan]
                      /\ \A k \in m.keys : \A t \in clock .. m.expires - 1 :
                             \E r \in ActiveGrants(m.plan) : r.key = k /\ Covers(r, t)
  BY DEF CompsAreWhole
<1>2. PICK p \in Plans : ActiveGrants(p) # {} /\ m = Comp(p)
  BY DEF ActiveComps
<1>3. /\ m.plan = p
      /\ m.keys = {r.key : r \in ActiveGrants(p)}
      /\ m.expires = Max({r.expires : r \in ActiveGrants(p)})
  BY <1>2 DEF Comp
<1>4. /\ clock \in Nat
      /\ \A r \in ActiveGrants(p) :
             /\ r \in ledger /\ r.source = "grant" /\ r.plan = p
             /\ r.starts <= clock /\ clock < r.expires
             /\ r.starts \in Nat /\ r.expires \in Nat /\ r.expires <= Never
             /\ r.batch # None
  <2>1. ASSUME NEW r \in ActiveGrants(p)
        PROVE  /\ r \in ledger /\ r.source = "grant" /\ r.plan = p
               /\ r.starts <= clock /\ clock < r.expires
    BY DEF ActiveGrants, ActiveRows, listActiveEntitlementPeriods, Covers
  <2>2. ASSUME NEW r \in ActiveGrants(p)
        PROVE  r.starts \in Time /\ r.expires \in Time \cup {Never} /\ r.batch \in Number
    <3>1. r \in Period
      BY <2>1 DEF IInv, WellFormed, TypeOK
    <3>2. r.batch \in Number
      BY <2>1 DEF IInv, WellFormed, LedgerFits
    <3>3. QED
      BY <3>1, <3>2 DEF Period
  <2>3. \A t \in Time : t <= Never
    BY EntitlementsAssumption DEF Time, Never
  <2>4. QED
    BY <2>1, <2>2, <2>3, NumberType DEF IInv, WellFormed, TypeOK
<1>5. ASSUME NEW r \in ActiveGrants(p), NEW s \in ledger, s.batch = r.batch
      PROVE  /\ s \in ActiveGrants(p)
             /\ s.starts = r.starts /\ s.expires = r.expires
  <2>1. s.source = "grant"
    BY <1>4, <1>5 DEF WholeInv, WrittenRows
  <2>2. s.plan = p /\ s.starts = r.starts /\ s.expires = r.expires
    BY <1>4, <1>5, <2>1 DEF IInv, RowsInv, OneGrant, WholeInv, OneEnd
  <2>3. QED
    BY <1>4, <2>1, <2>2 DEF ActiveGrants, ActiveRows, listActiveEntitlementPeriods, Covers
<1>6. ASSUME NEW r \in ActiveGrants(p) PROVE KeysOf(ledger, r.batch) = contents[p]
  BY <1>1, <1>3, <1>4 DEF WholeInv, BatchIsPlan
<1>7. m.keys = contents[p]
  <2>1. PICK r \in ActiveGrants(p) : TRUE
    BY <1>2
  <2>2. contents[p] \subseteq m.keys
    BY <1>3, <1>5, <1>6, <2>1 DEF KeysOf
  <2>3. ASSUME NEW s \in ActiveGrants(p) PROVE s.key \in contents[p]
    BY <1>4, <1>6 DEF KeysOf
  <2>4. QED
    BY <1>3, <2>2, <2>3
<1>8. PICK r \in ActiveGrants(p) : r.expires = m.expires
  <2> DEFINE S == {r.expires : r \in ActiveGrants(p)}
  <2>1. S \in SUBSET Nat /\ S # {} /\ Never \in Nat /\ \A x \in S : x <= Never
    BY <1>2, <1>4, NumberType
  <2>2. Max(S) \in S
    BY <2>1, MaxOf
  <2>3. QED
    BY <1>3, <2>2
<1>9. ASSUME NEW k \in m.keys, NEW t \in clock .. m.expires - 1
      PROVE  \E s \in ActiveGrants(p) : s.key = k /\ Covers(s, t)
  <2>1. PICK s \in ledger : s.batch = r.batch /\ s.key = k
    BY <1>6, <1>7, <1>8, <1>9 DEF KeysOf
  <2>2. s \in ActiveGrants(p) /\ s.starts = r.starts /\ s.expires = m.expires
    BY <1>5, <1>8, <2>1
  <2>3. t \in Int /\ clock <= t /\ t <= m.expires - 1 /\ m.expires \in Nat
    BY <1>4, <1>8, <1>9
  <2>4. Covers(s, t)
    BY <1>4, <2>2, <2>3 DEF Covers
  <2>5. QED
    BY <2>1, <2>2, <2>4
<1>10. QED
  BY <1>3, <1>7, <1>9

\* A Comp is shown with all keys of its plan, every one held until the shown
\* expiry.
THEOREM CompsStayWhole == Spec => []CompsAreWhole
BY InitIInv, StepIInv, InitWhole, StepWhole, WholeComps, PTL DEF Spec

-----------------------------------------------------------------------------
(* The pass of resolveActiveEntitlements over the rows, in any order.       *)

NoneYet == [k \in Keys |-> NoPeriod]

\* g[i] is what the loop has kept after i rows of s.
Pass(s, g) ==
    g = [i \in 0 .. Len(s) |-> IF i = 0 THEN NoneYet ELSE Take(g[i - 1], s[i])]

\* The loop ends: what it keeps after each row is well-defined.
LEMMA PassExists ==
    ASSUME NEW s, Len(s) \in Nat
    PROVE  \E g : Pass(s, g)
<1> DEFINE Upto(g, n) ==
        \A i \in 0 .. n : g[i] = IF i = 0 THEN NoneYet ELSE Take(g[i - 1], s[i])
           T == {n \in Nat : ~ \E g : Upto(g, n)}
<1>1. T = {}
  <2>1. SUFFICES ASSUME T # {} PROVE FALSE
    OBVIOUS
  <2>2. PICK n \in T : \A m \in T : n <= m
    <3>1. T \in SUBSET Nat
      OBVIOUS
    <3> HIDE DEF T
    <3>2. QED
      BY <2>1, <3>1, NatMin
  <2>3. CASE n = 0
    <3> DEFINE g == [i \in {0} |-> NoneYet]
    <3>1. Upto(g, 0)
      OBVIOUS
    <3>2. QED
      BY <2>2, <2>3, <3>1
  <2>4. CASE n # 0
    <3>1. n - 1 \in Nat /\ n \in Nat /\ n - 1 \notin T
      <4>1. n \in Nat
        BY <2>2
      <4>2. n - 1 \in Nat /\ ~(n <= n - 1)
        BY <2>4, <4>1
      <4> HIDE DEF T
      <4>3. QED
        BY <2>2, <4>1, <4>2
    <3>2. PICK h : Upto(h, n - 1)
      BY <3>1
    <3> DEFINE g == [i \in 0 .. n |-> IF i = n THEN Take(h[n - 1], s[n]) ELSE h[i]]
    <3>3. Upto(g, n)
      <4>1. SUFFICES ASSUME NEW i \in 0 .. n
                     PROVE  g[i] = IF i = 0 THEN NoneYet ELSE Take(g[i - 1], s[i])
        OBVIOUS
      <4>2. i # 0 => i - 1 \in 0 .. n /\ i - 1 # n /\ g[i - 1] = h[i - 1]
        BY <3>1
      <4>3. CASE i = n
        BY <2>4, <4>2, <4>3
      <4>4. CASE i # n
        <5>1. i \in 0 .. n - 1 /\ g[i] = h[i]
          BY <3>1, <4>4
        <5>2. QED
          BY <3>2, <4>2, <5>1
      <4>5. QED
        BY <4>3, <4>4
    <3>4. QED
      BY <2>2, <3>3
  <2>5. QED
    BY <2>3, <2>4
<1>2. PICK h : Upto(h, Len(s))
  BY <1>1
<1> DEFINE g == [i \in 0 .. Len(s) |-> h[i]]
<1>3. Pass(s, g)
  <2>1. ASSUME NEW i \in 0 .. Len(s)
        PROVE  g[i] = IF i = 0 THEN NoneYet ELSE Take(g[i - 1], s[i])
    <3>1. i # 0 => i - 1 \in 0 .. Len(s)
      OBVIOUS
    <3>2. i # 0 => g[i - 1] = h[i - 1]
      BY <3>1
    <3>3. QED
      BY <1>2, <3>2
  <2>2. QED
    BY <2>1 DEF Pass
<1>4. QED
  BY <1>3

\* Resolve is the last value of such a pass.
LEMMA ResolvePass ==
    ASSUME NEW s, Len(s) \in Nat
    PROVE  \E g : Pass(s, g) /\ Resolve(s) = g[Len(s)]
<1> DEFINE g == CHOOSE h : Pass(s, h)
<1>1. Pass(s, g)
  BY PassExists
<1>2. Resolve(s) = g[Len(s)]
  BY DEF Resolve, Pass, NoneYet
<1>3. QED
  BY <1>1, <1>2

\* After i rows a key has an entry iff one of them is for it, and then one of
\* those, granted iff one of those is granted.
Kept(s, m, i) ==
    /\ m \in [Keys -> Period \cup {NoPeriod}]
    /\ \A k \in Keys :
           LET rows == {j \in 1 .. i : s[j].key = k} IN
           IF rows = {} THEN m[k] = NoPeriod
           ELSE /\ \E j \in rows : m[k] = s[j]
                /\ m[k].source = "grant" <=> \E j \in rows : s[j].source = "grant"

LEMMA NoPeriodIsNone == NoPeriod \notin Period
<1>1. "source" \notin DOMAIN NoPeriod
  BY DEF NoPeriod
<1>2. \A r \in Period : "source" \in DOMAIN r
  BY DEF Period
<1>3. QED
  BY <1>1, <1>2

\* One turn of the loop.
LEMMA TakeKeeps ==
    ASSUME NEW n \in Nat, NEW s \in [1 .. n -> Period], NEW i \in 1 .. n,
           NEW m, Kept(s, m, i - 1)
    PROVE  Kept(s, Take(m, s[i]), i)
<1> DEFINE p == s[i]
           next == Take(m, p)
           Rows(j, k) == {x \in 1 .. j : s[x].key = k}
<1>1. p \in Period /\ p.key \in Keys /\ i \in Nat /\ i - 1 \in Nat
  <2>1. p \in Period
    OBVIOUS
  <2>2. QED
    BY <2>1 DEF Period
<1>2. /\ m \in [Keys -> Period \cup {NoPeriod}]
      /\ \A k \in Keys :
             IF Rows(i - 1, k) = {} THEN m[k] = NoPeriod
             ELSE /\ \E j \in Rows(i - 1, k) : m[k] = s[j]
                  /\ m[k].source = "grant" <=> \E j \in Rows(i - 1, k) : s[j].source = "grant"
  BY DEF Kept
<1>3. /\ \A k \in Keys : k # p.key => Rows(i, k) = Rows(i - 1, k)
      /\ Rows(i, p.key) = Rows(i - 1, p.key) \cup {i}
  BY <1>1
<1>4. /\ \A k \in Keys : k # p.key => next[k] = m[k]
      /\ next[p.key] = IF m[p.key] = NoPeriod THEN p ELSE Keep(m[p.key], p)
      /\ DOMAIN next = Keys /\ next \in [Keys -> Period \cup {NoPeriod}]
  BY <1>1, <1>2 DEF Take, Keep
<1> HIDE DEF next
<1>5. ASSUME NEW k \in Keys
      PROVE  IF Rows(i, k) = {} THEN next[k] = NoPeriod
             ELSE /\ \E j \in Rows(i, k) : next[k] = s[j]
                  /\ next[k].source = "grant" <=> \E j \in Rows(i, k) : s[j].source = "grant"
  <2>1. CASE k # p.key
    BY <1>2, <1>3, <1>4, <2>1
  <2>2. CASE k = p.key /\ Rows(i - 1, k) = {}
    <3>1. Rows(i, k) = {i} /\ next[k] = p
      BY <1>2, <1>3, <1>4, <2>2
    <3>2. QED
      BY <3>1
  <2>3. CASE k = p.key /\ Rows(i - 1, k) # {}
    <3>1. /\ \E j \in Rows(i - 1, k) : m[k] = s[j]
          /\ m[k].source = "grant" <=> \E j \in Rows(i - 1, k) : s[j].source = "grant"
      BY <1>2, <2>3
    <3>2. m[k] # NoPeriod
      BY <3>1, <1>1, NoPeriodIsNone
    <3>3. next[k] = IF p.source = "grant" /\ m[k].source # "grant" THEN p ELSE m[k]
      BY <1>4, <2>3, <3>2 DEF Keep
    <3>4. Rows(i, k) = Rows(i - 1, k) \cup {i}
      BY <1>3, <2>3
    <3> HIDE DEF Rows
    <3>5. QED
      BY <3>1, <3>3, <3>4
  <2>4. QED
    BY <2>1, <2>2, <2>3
<1>6. QED
  BY <1>4, <1>5 DEF Kept, next

\* All turns of the loop, by its first one that would go wrong.
LEMMA PassKeeps ==
    ASSUME NEW n \in Nat, NEW s \in [1 .. n -> Period], NEW g, Len(s) = n, Pass(s, g)
    PROVE  Kept(s, g[n], n)
<1> DEFINE T == {i \in 0 .. n : ~Kept(s, g[i], i)}
<1>1. T = {}
  <2>1. SUFFICES ASSUME T # {} PROVE FALSE
    OBVIOUS
  <2>2. PICK i \in T : \A j \in T : i <= j
    <3>1. T \in SUBSET Nat
      OBVIOUS
    <3> HIDE DEF T
    <3>2. QED
      BY <2>1, <3>1, NatMin
  <2>3. i \in Nat /\ i <= n /\ ~Kept(s, g[i], i)
    BY <2>2
  <2>4. CASE i = 0
    <3>1. g[0] = NoneYet
      BY DEF Pass
    <3>2. Kept(s, NoneYet, 0)
      BY DEF Kept, NoneYet
    <3>3. QED
      BY <2>3, <2>4, <3>1, <3>2
  <2>5. CASE i # 0
    <3>1. i \in 1 .. n /\ i - 1 \in 0 .. n /\ ~(i <= i - 1)
      BY <2>3, <2>5
    <3>2. Kept(s, g[i - 1], i - 1)
      BY <2>2, <3>1
    <3>3. g[i] = Take(g[i - 1], s[i])
      BY <2>5, <3>1 DEF Pass
    <3>4. QED
      BY <2>3, <3>1, <3>2, <3>3, TakeKeeps
  <2>6. QED
    BY <2>4, <2>5
<1>2. QED
  BY <1>1

\* What the pass over any order of the rows S of some keys makes of a key.
LEMMA ResolveKeeps ==
    ASSUME NEW S \in SUBSET Period, IsFiniteSet(S), NEW s \in SetToSeqs(S), NEW k \in Keys
    PROVE  LET rows == {r \in S : r.key = k} IN
           IF rows = {} THEN Resolve(s)[k] = NoPeriod
           ELSE /\ Resolve(s)[k] \in rows
                /\ Resolve(s)[k].source = "grant" <=> \E r \in rows : r.source = "grant"
<1> DEFINE n == Cardinality(S)
<1>1. /\ n \in Nat /\ s \in [1 .. n -> S]
      /\ \A i, j \in 1 .. n : i # j => s[i] # s[j]
  BY FS_CardinalityType DEF SetToSeqs
<1>2. \A r \in S : \E j \in 1 .. n : s[j] = r
  <2>1. s \in Injection(1 .. n, S)
    BY <1>1 DEF Injection, IsInjective
  <2>2. IsFiniteSet(1 .. n) /\ Cardinality(1 .. n) = n
    BY <1>1, FS_Interval
  <2>3. s \in Surjection(1 .. n, S)
    BY <2>1, <2>2, FS_Injection
  <2>4. QED
    BY <2>3 DEF Surjection
<1>3. s \in [1 .. n -> Period] /\ Len(s) = n
  BY <1>1
<1>4. Kept(s, Resolve(s), n)
  BY <1>1, <1>3, ResolvePass, PassKeeps
<1> HIDE DEF n
<1>5. QED
  BY <1>1, <1>2, <1>4 DEF Kept

\* What list() answers agrees with has(), and prefers the Comp.
LEMMA AnswersAgree ==
    ASSUME IInv
    PROVE  ListAnswersHas
<1>1. SUFFICES ASSUME NEW k \in Keys, NEW s \in Answers(k), NEW entry, entry = Resolve(s)[k]
               PROVE  /\ entry # NoPeriod <=> Held(ledger, k, clock)
                      /\ entry # NoPeriod => entry \in ActiveRows /\ entry.key = k
                      /\ entry # NoPeriod =>
                           (entry.source = "grant" <=>
                            [key |-> k, sourceLabel |-> "Comp"] \in OrganizationEntitlements)
  BY DEF ListAnswersHas
<1> DEFINE S == {r \in ActiveRows : r.key = k}
<1>2. S \in SUBSET Period /\ IsFiniteSet(S) /\ ActiveRows \subseteq ledger
  <2>1. ledger \in SUBSET Period /\ IsFiniteSet(ledger)
    BY DEF IInv, WellFormed, TypeOK, LedgerFits
  <2>2. ActiveRows \subseteq ledger
    BY DEF ActiveRows, listActiveEntitlementPeriods
  <2>3. S \subseteq ledger
    BY <2>2
  <2>4. QED
    BY <2>1, <2>2, <2>3, FS_Subset
<1>3. Held(ledger, k, clock) <=> S # {}
  BY DEF Held, ActiveRows, listActiveEntitlementPeriods
<1>4. /\ S = {} => entry = NoPeriod
      /\ S # {} => /\ entry \in S
                   /\ entry.source = "grant" <=> \E r \in S : r.source = "grant"
  <2>1. s \in SetToSeqs(S) /\ {r \in S : r.key = k} = S
    BY <1>1 DEF Answers
  <2> HIDE DEF S
  <2>2. QED
    BY <1>1, <1>2, <2>1, ResolveKeeps
<1>5. [key |-> k, sourceLabel |-> "Comp"] \in OrganizationEntitlements
          <=> \E r \in S : r.source = "grant"
  <2>1. \A r \in ActiveRows : r.source \in {"billing", "seed", "grant"}
    BY <1>2 DEF IInv, WellFormed, TypeOK, Period
  <2>2. \A r \in ActiveRows :
            entitlementSourceLabel(r.source) = "Comp" <=> r.source = "grant"
    BY <2>1 DEF entitlementSourceLabel
  <2>3. ASSUME NEW r \in ActiveRows
        PROVE  [key |-> k, sourceLabel |-> "Comp"]
                   = [key |-> r.key, sourceLabel |-> entitlementSourceLabel(r.source)]
               <=> r.key = k /\ r.source = "grant"
    BY <2>2
  <2>4. QED
    BY <2>3 DEF OrganizationEntitlements, ActiveRows
<1>6. NoPeriod \notin S
  BY <1>2, NoPeriodIsNone
<1>7. QED
  BY <1>3, <1>4, <1>5, <1>6

\* Whatever the order of the rows, list() answers what has() affirms and what
\* the page of the organization shows, and the Comp wins.
THEOREM ListsAgree == Spec => []ListAnswersHas
BY AlwaysIInv, AnswersAgree, PTL
=============================================================================
