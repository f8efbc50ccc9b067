------------------------------ MODULE AdminMfa ------------------------------
(***************************************************************************)
(* The second factor of one operator: TOTP enrolment and challenge,         *)
(* recovery codes and the elevation cookie, and the reset of the factor by  *)
(* a peer (apps/admin/lib, packages/auth/src/flows/admin-mfa.ts).           *)
(*                                                                         *)
(* An action is one awaited call of the auth service or one SQL statement   *)
(* with the code up to the next.  The auth service is external and modelled *)
(* from what the code and its comments expect of it: deleting a verified    *)
(* factor ends every session, unenrolling one needs, and takes away, aal2.  *)
(* That the user is an operator at all is the business of OperatorAccess.   *)
(***************************************************************************)
EXTENDS Naturals, FiniteSets

CONSTANTS
    Browsers,      \* where the operator signs in
    Calls,         \* the requests that may be in flight at one time
    CodeCount,     \* RECOVERY_CODE_COUNT
    MaxCalls,      \* bound: requests in a behaviour, an earlier enrolment included
    MaxSessions,   \* bound: sign-ins in a behaviour
    MaxDeaths      \* bound: requests that die between two calls

ASSUME AdminMfaAssumption ==
    /\ CodeCount \in Nat \ {0}
    /\ MaxCalls \in Nat \ {0}
    /\ MaxSessions \in Nat
    /\ MaxDeaths \in Nat

VARIABLES
    factor,      \* auth.mfa_factors; a factor is named by its enrolment
    level,       \* the live sessions and their assurance level
    holds,       \* the session a browser has the tokens of
    cookie,      \* the session its elevation cookie was signed for
    codes,       \* admin_recovery_codes whose used_at is null
    audit,       \* admin_audit_log: operator.mfa_reset entries
    issued,      \* the codes that were ever stored, and shown
    call,        \* the requests in flight
    nextCall,    \* the number of the next request
    nextSession, \* the number of the next session
    spent,       \* observed: which code was redeemed in which session
    deletedBy,   \* observed: the request that deleted a factor
    unenrolled,  \* observed: verified factors an enrolment page deleted
    bare,        \* observed: factors verified by a request that stored no codes
    late,        \* observed: codes stored or redeemed without their factor
    torn         \* observed: the requests that died or threw

auth == <<factor, level>>
browser == <<holds, cookie>>
tables == <<codes, audit, issued>>
ghosts == <<spent, deletedBy, unenrolled, bare, late, torn>>
vars == <<auth, browser, tables, call, nextCall, nextSession, ghosts>>

Number == 1 .. MaxCalls
Session == 1 .. MaxSessions
None == 0

\* The codes of one confirmation belong to the factor it confirmed.
Code == [factor : Number, batch : Number, index : 1 .. CodeCount]
NoCode == [factor |-> None, batch |-> None, index |-> None]
CodesOf(f, n) == {[factor |-> f, batch |-> n, index |-> i] : i \in 1 .. CodeCount}

\* Where a request is: the call it will make next.
Step == {"idle", "listUnverified", "unenroll", "enroll", "getUser", "store",
         "findFactor", "form", "redeem", "elevate", "listAll", "delete", "clear", "audit"}
Call == [pc : Step, number : Number \cup {None}, at : Browsers \cup {None},
         session : Session \cup {None}, factor : Number \cup {None},
         code : Code \cup {NoCode}, todo : SUBSET Number, count : Nat]
Idle == [pc |-> "idle", number |-> None, at |-> None, session |-> None,
         factor |-> None, code |-> NoCode, todo |-> {}, count |-> 0]
Entry == [number : Number, count : Nat]

TypeOK ==
    /\ factor \in [Number -> {"none", "unverified", "verified", "deleted"}]
    /\ level \in [Session -> {"none", "aal1", "aal2"}]
    /\ holds \in [Browsers -> Session \cup {None}]
    /\ cookie \in [Browsers -> Session \cup {None}]
    /\ codes \in SUBSET issued
    /\ issued \in SUBSET Code
    /\ audit \in SUBSET Entry
    /\ call \in [Calls -> Call]
    /\ nextCall \in 1 .. MaxCalls + 1
    /\ nextSession \in 1 .. MaxSessions + 1
    /\ spent \in SUBSET (issued \X Session)
    /\ deletedBy \in [Number -> Number \cup {None}]
    /\ unenrolled \in SUBSET Number
    /\ bare \in SUBSET Number
    /\ late \in SUBSET issued
    /\ torn \in SUBSET Number

\* Nobody is signed in.  The operator has not enrolled yet, or did so earlier,
\* by a request that the first number is kept for.
Init ==
    /\ \/ /\ factor = [f \in Number |-> "none"]
          /\ codes = {}
       \/ /\ factor = [f \in Number |-> IF f = 1 THEN "verified" ELSE "none"]
          /\ codes = CodesOf(1, 1)
    /\ nextCall = 2
    /\ issued = codes
    /\ level = [s \in Session |-> "none"]
    /\ holds = [b \in Browsers |-> None]
    /\ cookie = [b \in Browsers |-> None]
    /\ audit = {}
    /\ call = [c \in Calls |-> Idle]
    /\ nextSession = 1
    /\ spent = {} /\ unenrolled = {} /\ bare = {} /\ late = {} /\ torn = {}
    /\ deletedBy = [f \in Number |-> None]

-----------------------------------------------------------------------------
(* The gate.                                                                *)

Exists(f) == factor[f] \in {"unverified", "verified"}
Live(s) == s # None /\ level[s] # "none"

\* nextLevel is aal2 exactly when a verified factor exists.
HasFactor == \E f \in Number : factor[f] = "verified"

\* Deviation: the cookie is accepted whatever session it was signed for.
ElevatedAnywhere(b) == cookie[b] # None

\* verifyRecoveryElevation: the cookie was signed for the session at hand.
Elevated(b) == cookie[b] # None /\ cookie[b] = holds[b]

\* gateAdmin, as resolveAdminGate calls it for browser b.
Gate(b) ==
    IF ~Live(holds[b]) THEN "no-session"
    ELSE IF level[holds[b]] = "aal2" THEN "ok"
    ELSE IF ~HasFactor THEN "enroll"
    ELSE IF Elevated(b) THEN "ok" ELSE "challenge"

-----------------------------------------------------------------------------
(* Helpers: the life of a request.                                          *)

Continue(c, k) == call' = [call EXCEPT ![c] = k]
GoTo(c, s) == Continue(c, [call[c] EXCEPT !.pc = s])
Finish(c) == Continue(c, Idle)

\* A request comes in, from browser b unless a peer sends it.
Begin(c, k) ==
    /\ call[c].pc = "idle"
    /\ nextCall <= MaxCalls
    /\ Continue(c, [k EXCEPT !.number = nextCall])
    /\ nextCall' = nextCall + 1

\* A loop of awaited calls over the factors todo, and the call after it.
Loop(c, k, todo, during, after) ==
    Continue(c, [k EXCEPT !.todo = todo, !.pc = IF todo = {} THEN after ELSE during])

From(b, s) == [Idle EXCEPT !.pc = s, !.at = b, !.session = holds[b]]

-----------------------------------------------------------------------------
(* EnrollPage -> enrollAdminTotp.                                           *)

BeginEnroll(c, b) ==
    /\ Gate(b) = "enroll"
    /\ Begin(c, From(b, "listUnverified"))
    /\ UNCHANGED <<auth, browser, tables, nextSession, ghosts>>

\* listFactors; a session that ended meanwhile gets no list.
ListUnverified(c) ==
    /\ call[c].pc = "listUnverified"
    /\ Loop(c, call[c], IF Live(call[c].session)
                        THEN {f \in Number : factor[f] = "unverified"} ELSE {},
            "unenroll", "enroll")
    /\ UNCHANGED <<auth, browser, tables, nextCall, nextSession, ghosts>>

\* unenroll, one stale factor at a time; what it answers is not looked at.
\* The factor may have been verified, or deleted, since it was listed.
Unenroll(c) ==
    /\ call[c].pc = "unenroll"
    /\ \E f \in call[c].todo :
        /\ Loop(c, call[c], call[c].todo \ {f}, "unenroll", "enroll")
        /\ \/ /\ Live(call[c].session)
              /\ factor[f] = "unverified"
              /\ factor' = [factor EXCEPT ![f] = "deleted"]
              /\ deletedBy' = [deletedBy EXCEPT ![f] = call[c].number]
              /\ UNCHANGED <<level, unenrolled>>
           \/ /\ Live(call[c].session)
              /\ factor[f] = "verified"
              /\ level[call[c].session] = "aal2"
              /\ factor' = [factor EXCEPT ![f] = "deleted"]
              /\ level' = [s \in Session |-> IF level[s] = "aal2" THEN "aal1"
                                             ELSE level[s]]
              /\ deletedBy' = [deletedBy EXCEPT ![f] = call[c].number]
              /\ unenrolled' = unenrolled \cup {f}
           \/ UNCHANGED <<auth, deletedBy, unenrolled>>
    /\ UNCHANGED <<browser, tables, nextCall, nextSession, spent, bare, late, torn>>

\* enroll: a fresh unverified factor, or an error and a 404.
Enroll(c) ==
    /\ call[c].pc = "enroll"
    /\ \/ /\ Live(call[c].session)
          /\ factor' = [factor EXCEPT ![call[c].number] = "unverified"]
       \/ UNCHANGED factor
    /\ Finish(c)
    /\ UNCHANGED <<level, browser, tables, nextCall, nextSession, ghosts>>

-----------------------------------------------------------------------------
(* confirmEnrollmentAction and verifyChallengeAction.                       *)

\* challengeAndVerify with a correct code; a wrong one changes nothing.
Verify(b, f) ==
    /\ Live(holds[b])
    /\ factor' = [factor EXCEPT ![f] = "verified"]
    /\ level' = [level EXCEPT ![holds[b]] = "aal2"]

\* The enrolment form sends the factor the page showed, verified or not yet.
BeginConfirm(c, b, f) ==
    /\ Exists(f)
    /\ Verify(b, f)
    /\ Begin(c, [From(b, "getUser") EXCEPT !.factor = f])
    /\ UNCHANGED <<browser, tables, nextSession, ghosts>>

\* getUser: without its session the request stores no codes.
GetUser(c) ==
    /\ call[c].pc = "getUser"
    /\ \/ Live(call[c].session) /\ GoTo(c, "store") /\ UNCHANGED bare
       \/ /\ ~Live(call[c].session)
          /\ bare' = bare \cup {call[c].factor}
          /\ Finish(c)
    /\ UNCHANGED <<auth, browser, tables, nextCall, nextSession,
                   spent, deletedBy, unenrolled, late, torn>>

\* Deviation: codes that are there already are kept.
StoreIfNone(c) ==
    /\ call[c].pc = "store"
    /\ LET new == CodesOf(call[c].factor, call[c].number) IN
       /\ codes' = IF codes = {} THEN new ELSE codes
       /\ issued' = IF codes = {} THEN issued \cup new ELSE issued
       /\ late' = IF codes # {} \/ factor[call[c].factor] = "verified" THEN late
                  ELSE late \cup new
    /\ Finish(c)
    /\ UNCHANGED <<auth, browser, audit, nextCall, nextSession,
                   spent, deletedBy, unenrolled, bare, torn>>

\* storeRecoveryCodes: one transaction that replaces all codes.
StoreRecoveryCodes(c) ==
    /\ call[c].pc = "store"
    /\ LET new == CodesOf(call[c].factor, call[c].number) IN
       /\ codes' = new
       /\ issued' = issued \cup new
       /\ late' = IF factor[call[c].factor] = "verified" THEN late ELSE late \cup new
    /\ Finish(c)
    /\ UNCHANGED <<auth, browser, audit, nextCall, nextSession,
                   spent, deletedBy, unenrolled, bare, torn>>

\* ChallengePage: the gate asks for the factor.
BeginChallenge(c, b) ==
    /\ Gate(b) = "challenge"
    /\ Begin(c, From(b, "findFactor"))
    /\ UNCHANGED <<auth, browser, tables, nextSession, ghosts>>

\* getAdminTotpFactor: a verified factor for the form, or else any other.
FindFactor(c) ==
    /\ call[c].pc = "findFactor"
    /\ \/ /\ Live(call[c].session)
          /\ \E f \in Number : /\ Exists(f)
                               /\ HasFactor => factor[f] = "verified"
                               /\ Continue(c, [call[c] EXCEPT !.pc = "form",
                                                              !.factor = f])
       \/ /\ ~Live(call[c].session) \/ \A f \in Number : ~Exists(f)
          /\ Finish(c)
    /\ UNCHANGED <<auth, browser, tables, nextCall, nextSession, ghosts>>

\* verifyChallengeAction, with a correct code or a wrong one.
Challenge(c) ==
    /\ call[c].pc = "form"
    /\ LET f == call[c].factor IN
       \/ /\ Exists(f)
          /\ Verify(call[c].at, f)
          /\ bare' = IF factor[f] = "verified" THEN bare ELSE bare \cup {f}
       \/ UNCHANGED <<auth, bare>>
    /\ Finish(c)
    /\ UNCHANGED <<browser, tables, nextCall, nextSession,
                   spent, deletedBy, unenrolled, late, torn>>

-----------------------------------------------------------------------------
(* redeemRecoveryCodeAction.                                                *)

\* getUser.  A code that is not in the table now never will be, and a request
\* with it changes nothing; this one may lose its code before it redeems it.
BeginRedeem(c, b, k) ==
    /\ Live(holds[b])
    /\ k \in codes
    /\ Begin(c, [From(b, "redeem") EXCEPT !.code = k])
    /\ UNCHANGED <<auth, browser, tables, nextSession, ghosts>>

\* The code is redeemed in the session of request c.
Spend(c) ==
    /\ spent' = spent \cup {<<call[c].code, call[c].session>>}
    /\ late' = IF factor[call[c].code.factor] = "verified" THEN late
               ELSE late \cup {call[c].code}
    /\ GoTo(c, "elevate")

\* Deviation: used_at is not set.
RedeemAgain(c) ==
    /\ call[c].pc = "redeem"
    /\ \/ call[c].code \in codes /\ Spend(c)
       \/ call[c].code \notin codes /\ Finish(c) /\ UNCHANGED <<spent, late>>
    /\ UNCHANGED <<auth, browser, tables, nextCall, nextSession,
                   deletedBy, unenrolled, bare, torn>>

\* redeemRecoveryCode: sets used_at where it is null, and reports if it did.
RedeemRecoveryCode(c) ==
    /\ call[c].pc = "redeem"
    /\ codes' = codes \ {call[c].code}
    /\ \/ call[c].code \in codes /\ Spend(c)
       \/ call[c].code \notin codes /\ Finish(c) /\ UNCHANGED <<spent, late>>
    /\ UNCHANGED <<auth, browser, audit, issued, nextCall, nextSession,
                   deletedBy, unenrolled, bare, torn>>

\* signRecoveryElevation for the request's session; the response sets the cookie.
Elevate(c) ==
    /\ call[c].pc = "elevate"
    /\ cookie' = [cookie EXCEPT ![call[c].at] = call[c].session]
    /\ Finish(c)
    /\ UNCHANGED <<auth, holds, tables, nextCall, nextSession, ghosts>>

-----------------------------------------------------------------------------
(* resetOperatorMfaAction -> resetOperatorMfa, sent by a peer.              *)

BeginReset(c) ==
    /\ Begin(c, [Idle EXCEPT !.pc = "listAll"])
    /\ UNCHANGED <<auth, browser, tables, nextSession, ghosts>>

ListFactors(c) ==
    /\ call[c].pc = "listAll"
    /\ LET all == {f \in Number : Exists(f)} IN
       Loop(c, [call[c] EXCEPT !.count = Cardinality(all)], all, "delete", "clear")
    /\ UNCHANGED <<auth, browser, tables, nextCall, nextSession, ghosts>>

\* The auth service deletes f for request c; with a verified factor go all
\* sessions.
ServiceDeletes(c, f) ==
    /\ Exists(f)
    /\ factor' = [factor EXCEPT ![f] = "deleted"]
    /\ level' = IF factor[f] = "verified" THEN [s \in Session |-> "none"] ELSE level
    /\ deletedBy' = [deletedBy EXCEPT ![f] = call[c].number]
    /\ Loop(c, call[c], call[c].todo \ {f}, "delete", "clear")
    /\ UNCHANGED torn

\* Deviation: the factor's row is deleted, which ends no session.
DeleteFactorRow(c) ==
    /\ call[c].pc = "delete"
    /\ \E f \in call[c].todo :
        /\ factor' = [factor EXCEPT ![f] = "deleted"]
        /\ deletedBy' = [deletedBy EXCEPT ![f] = call[c].number]
        /\ Loop(c, call[c], call[c].todo \ {f}, "delete", "clear")
    /\ UNCHANGED <<level, browser, tables, nextCall, nextSession,
                   spent, unenrolled, bare, late, torn>>

\* deleteFactor, one after the other; one that is gone by now makes it throw.
DeleteFactor(c) ==
    /\ call[c].pc = "delete"
    /\ \E f \in call[c].todo :
        \/ ServiceDeletes(c, f)
        \/ /\ ~Exists(f)
           /\ torn' = torn \cup {call[c].number}
           /\ Finish(c)
           /\ UNCHANGED <<auth, deletedBy>>
    /\ UNCHANGED <<browser, tables, nextCall, nextSession,
                   spent, unenrolled, bare, late>>

\* Deviation: the codes are left alone.
ClearNothing(c) ==
    /\ call[c].pc = "clear"
    /\ GoTo(c, "audit")
    /\ UNCHANGED <<auth, browser, tables, nextCall, nextSession, ghosts>>

\* delete from admin_recovery_codes, used or not.
ClearCodes(c) ==
    /\ call[c].pc = "clear"
    /\ codes' = {}
    /\ GoTo(c, "audit")
    /\ UNCHANGED <<auth, browser, audit, issued, nextCall, nextSession, ghosts>>

\* writeAdminAudit, with deletedFactorCount.
WriteAudit(c) ==
    /\ call[c].pc = "audit"
    /\ audit' = audit \cup {[number |-> call[c].number, count |-> call[c].count]}
    /\ Finish(c)
    /\ UNCHANGED <<auth, browser, codes, issued, nextCall, nextSession, ghosts>>

-----------------------------------------------------------------------------
(* The environment.                                                         *)

\* Email and password in apps/admin: a new session at aal1.
SignIn(b) ==
    /\ ~Live(holds[b])
    /\ nextSession <= MaxSessions
    /\ nextSession' = nextSession + 1
    /\ holds' = [holds EXCEPT ![b] = nextSession]
    /\ level' = [level EXCEPT ![nextSession] = "aal1"]
    /\ UNCHANGED <<factor, cookie, tables, call, nextCall, ghosts>>

\* A session ends: signed out, timed out, or ended by the auth service.
EndSession(s) ==
    /\ Live(s)
    /\ level' = [level EXCEPT ![s] = "none"]
    /\ UNCHANGED <<factor, browser, tables, call, nextCall, nextSession, ghosts>>

\* Eight hours pass: maxAge of the elevation cookie.
DropCookie(b) ==
    /\ cookie[b] # None
    /\ cookie' = [cookie EXCEPT ![b] = None]
    /\ UNCHANGED <<auth, holds, tables, call, nextCall, nextSession, ghosts>>

\* A request dies: a call fails, or the process ends.
Die(c) ==
    /\ call[c].pc # "idle"
    /\ Cardinality(torn) < MaxDeaths
    /\ torn' = torn \cup {call[c].number}
    /\ bare' = IF call[c].pc \in {"getUser", "store"}
               THEN bare \cup {call[c].factor} ELSE bare
    /\ Finish(c)
    /\ UNCHANGED <<auth, browser, tables, nextCall, nextSession,
                   spent, deletedBy, unenrolled, late>>

-----------------------------------------------------------------------------

EnrollSteps(c) == ListUnverified(c) \/ Unenroll(c) \/ Enroll(c)
                     \/ GetUser(c) \/ StoreRecoveryCodes(c)
ChallengeSteps(c) == FindFactor(c) \/ Challenge(c)
RedeemSteps(c) == RedeemRecoveryCode(c) \/ Elevate(c)
ResetSteps(c) == ListFactors(c) \/ DeleteFactor(c) \/ ClearCodes(c)
                    \/ WriteAudit(c)
BeginSome(c) ==
    \/ BeginReset(c)
    \/ \E b \in Browsers : \/ BeginEnroll(c, b)
                           \/ BeginChallenge(c, b)
                           \/ \E f \in Number : BeginConfirm(c, b, f)
                           \/ \E k \in codes : BeginRedeem(c, b, k)

Next ==
    \/ \E c \in Calls : \/ BeginSome(c) \/ EnrollSteps(c) \/ ChallengeSteps(c)
                        \/ RedeemSteps(c) \/ ResetSteps(c) \/ Die(c)
    \/ \E b \in Browsers : \/ SignIn(b) \/ DropCookie(b)
    \/ \E s \in Session : EndSession(s)

Spec == Init /\ [][Next]_vars

-----------------------------------------------------------------------------
(* Properties.                                                              *)

\* Browser b is let in at aal1, by its elevation cookie.
InByCode(b) == Gate(b) = "ok" /\ level[holds[b]] = "aal1"

\* Nobody gets in without a verified factor of the operator, whatever cookie
\* is left from before its reset: the gate sends them to enrol.
EntryNeedsFactor == \A b \in Browsers : Gate(b) = "ok" => HasFactor

\* A recovery code opens one session, however many requests redeem it at once.
CodeOpensOneSession == \A x, y \in spent : x[1] = y[1] => x[2] = y[2]

\* An elevation ends with the session it was earned in: whoever is in by a
\* code redeemed one in this very session.
ElevationIsEarned ==
    \A b \in Browsers : InByCode(b) => \E x \in spent : x[2] = holds[b]

\* A code outlives its factor only while the reset that deleted the factor is
\* on its way to the codes, or when that reset failed, or the enrolment page
\* deleted the factor, or the code was stored after the factor was deleted.
StaleCodesAreExplained ==
    \A k \in codes : factor[k.factor] # "verified" =>
        \/ deletedBy[k.factor] \in torn
        \/ k.factor \in unenrolled
        \/ k \in late
        \/ \E c \in Calls : /\ call[c].number = deletedBy[k.factor]
                            /\ call[c].pc \in {"delete", "clear"}

\* A reset throws out who was in by a code of the factor it deletes: one who
\* is in by the code of a deleted factor redeemed it after the deletion.
ResetEndsElevations ==
    \A b \in Browsers, x \in spent :
        InByCode(b) /\ x[2] = cookie[b] =>
            \/ factor[x[1].factor] = "verified"
            \/ x[1].factor \in unenrolled
            \/ x[1] \in late

\* A verified factor came with recovery codes, unless its confirmation is on
\* its way to store them, or ended before it did, or it was the challenge form
\* that verified the factor.
FactorCameWithCodes ==
    \A f \in Number : factor[f] = "verified" =>
        \/ \E k \in issued : k.factor = f
        \/ f \in bare
        \/ \E c \in Calls : call[c].factor = f /\ call[c].pc \in {"getUser", "store"}

\* The log tells how many factors the reset deleted itself, also when two
\* peers reset the operator at the same time.
ResetCountsAreTrue ==
    \A e \in audit : e.count = Cardinality({f \in Number : deletedBy[f] = e.number})

=============================================================================
