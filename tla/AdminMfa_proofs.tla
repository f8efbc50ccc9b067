--------------------------- MODULE AdminMfa_proofs ---------------------------
(***************************************************************************)
(* Theorems about AdminMfa, for every set of browsers and any number of     *)
(* requests in flight, sessions and recovery codes.                         *)
(***************************************************************************)
EXTENDS AdminMfa, FiniteSetTheorems, TLAPS

\* The requests that a browser sends, by where they are in the code.
Enrolling   == {"listUnverified", "unenroll", "enroll"}
Confirming  == {"getUser", "store"}
Challenging == {"findFactor", "form"}
Redeeming   == {"redeem", "elevate"}
Resetting   == {"listAll", "delete", "clear", "audit"}
FromBrowser == Enrolling \cup Confirming \cup Challenging \cup Redeeming

\* The locals that a request has set by the call it is at.
LocalsFit(k, stored, next, nextS) ==
    /\ k.pc # "idle" => k.number \in Number /\ k.number < next
    /\ k.pc \in FromBrowser => /\ k.at \in Browsers
                               /\ k.session \in Session /\ k.session < nextS
    /\ k.pc \in Confirming \cup {"form"} => k.factor \in Number
    /\ k.pc \in Redeeming => k.code \in stored

RequestLocals == \A c \in Calls : LocalsFit(call[c], issued, nextCall, nextSession)

\* The sessions in use have been handed out.
SessionsStarted == \A b \in Browsers : holds[b] < nextSession

WellFormed == TypeOK /\ RequestLocals /\ SessionsStarted

LEMMA NumberType == /\ Number \in SUBSET Nat /\ None \notin Number
                    /\ Session \in SUBSET Nat /\ None \notin Session
BY AdminMfaAssumption DEF Number, Session, None

LEMMA InitWellFormed == Init => WellFormed
<1> SUFFICES ASSUME Init PROVE WellFormed
  OBVIOUS
<1>1. Idle \in Call
  BY DEF Idle, Call, Step
<1>2. nextCall \in 1 .. MaxCalls + 1 /\ nextSession \in 1 .. MaxSessions + 1
  BY AdminMfaAssumption DEF Init
<1>3. factor \in [Number -> {"none", "unverified", "verified", "deleted"}]
  BY DEF Init
<1>4. codes \in SUBSET Code
  <2>1. CASE codes = {}
    BY <2>1
  <2>2. CASE codes = CodesOf(1, 1)
    <3>1. 1 \in Number
      BY AdminMfaAssumption DEF Number
    <3>2. QED
      BY <2>2, <3>1 DEF CodesOf, Code
  <2>3. QED
    BY <2>1, <2>2 DEF Init
<1>5. TypeOK
  BY <1>1, <1>2, <1>3, <1>4 DEF Init, TypeOK
<1>6. RequestLocals
  BY DEF Init, RequestLocals, LocalsFit, Idle, FromBrowser, Enrolling, Confirming,
     Challenging, Redeeming
<1>7. SessionsStarted
  BY DEF Init, SessionsStarted, None
<1>8. QED
  BY <1>5, <1>6, <1>7 DEF WellFormed

-----------------------------------------------------------------------------
(* What a step does to the locals of its request.                           *)

LEMMA ContinueDoes ==
    ASSUME WellFormed, NEW c \in Calls, NEW k \in Call, Continue(c, k)
    PROVE  /\ call' \in [Calls -> Call] /\ call'[c] = k
           /\ \A d \in Calls \ {c} : call'[d] = call[d]
BY DEF WellFormed, TypeOK, Continue

LEMMA IdleType == Idle \in Call /\ Idle.pc = "idle" /\ Idle.number = None
BY DEF Idle, Call, Step

\* The calls that may follow one another.
Follows(p, q) ==
    \/ p = "listUnverified" /\ q \in {"unenroll", "enroll"}
    \/ p = "unenroll" /\ q \in {"unenroll", "enroll"}
    \/ p = "getUser" /\ q = "store"
    \/ p = "findFactor" /\ q = "form"
    \/ p = "redeem" /\ q = "elevate"
    \/ p = "listAll" /\ q \in {"delete", "clear"}
    \/ p = "delete" /\ q \in {"delete", "clear"}
    \/ p = "clear" /\ q = "audit"

\* Request c, at locals k, ends or goes on to its next call with locals l.
GoesOn(k, l) ==
    \/ l = Idle
    \/ /\ Follows(k.pc, l.pc)
       /\ l.number = k.number /\ l.at = k.at /\ l.session = k.session /\ l.code = k.code
       /\ IF k.pc = "findFactor" THEN l.factor \in Number ELSE l.factor = k.factor

RequestStep(c) == EnrollSteps(c) \/ ChallengeSteps(c) \/ RedeemSteps(c) \/ ResetSteps(c)

LEMMA LoopDoes ==
    ASSUME WellFormed, NEW c \in Calls, NEW k \in Call, NEW todo \in SUBSET Number,
           NEW p, Follows(p, "unenroll") \/ Follows(p, "delete"), k.pc = p,
           NEW during \in {"unenroll", "delete"}, NEW after \in {"enroll", "clear"},
           Follows(p, during), Follows(p, after),
           Loop(c, k, todo, during, after)
    PROVE  \E l \in Call : /\ Continue(c, l) /\ GoesOn(k, l)
                           /\ l.pc = IF todo = {} THEN after ELSE during
                           /\ l.todo = todo /\ l.count = k.count /\ l.number = k.number
<1> DEFINE l == [k EXCEPT !.todo = todo, !.pc = IF todo = {} THEN after ELSE during]
<1>1. l \in Call /\ l.pc = (IF todo = {} THEN after ELSE during)
  BY DEF Call, Step
<1>2. /\ l.todo = todo /\ l.count = k.count /\ l.number = k.number
      /\ l.at = k.at /\ l.session = k.session /\ l.code = k.code /\ l.factor = k.factor
  BY DEF Call
<1>3. Continue(c, l)
  BY DEF Loop
<1>4. GoesOn(k, l)
  <2>1. k.pc # "findFactor"
    BY DEF Follows
  <2>2. QED
    BY <1>1, <1>2, <2>1 DEF GoesOn
<1>5. QED
  BY <1>1, <1>2, <1>3, <1>4

LEMMA GoToDoes ==
    ASSUME WellFormed, NEW c \in Calls, NEW s \in Step, GoTo(c, s),
           Follows(call[c].pc, s), call[c].pc # "findFactor"
    PROVE  \E l \in Call : /\ Continue(c, l) /\ GoesOn(call[c], l)
                           /\ l.pc = s /\ l.todo = call[c].todo /\ l.count = call[c].count
<1> DEFINE l == [call[c] EXCEPT !.pc = s]
<1>1. call[c] \in Call
  BY DEF WellFormed, TypeOK
<1>2. l \in Call /\ l.pc = s /\ l.todo = call[c].todo /\ l.count = call[c].count
  BY <1>1 DEF Call
<1>3. /\ l.number = call[c].number /\ l.at = call[c].at /\ l.session = call[c].session
      /\ l.code = call[c].code /\ l.factor = call[c].factor
  BY <1>1 DEF Call
<1>4. Continue(c, l) /\ GoesOn(call[c], l)
  BY <1>2, <1>3 DEF GoTo, GoesOn
<1>5. QED
  BY <1>2, <1>4

\* The number of factors is a number.
LEMMA FactorCount == /\ IsFiniteSet(Number)
                     /\ \A S \in SUBSET Number : IsFiniteSet(S) /\ Cardinality(S) \in Nat
<1>1. IsFiniteSet(Number)
  BY FS_Interval, AdminMfaAssumption DEF Number
<1>2. QED
  BY <1>1, FS_Subset, FS_CardinalityType

\* A step of a request leaves the others alone, and goes on or ends.
LEMMA StepGoesOn ==
    ASSUME WellFormed, NEW c \in Calls, RequestStep(c) \/ Die(c)
    PROVE  \E l \in Call : Continue(c, l) /\ GoesOn(call[c], l)
<1>0. call[c] \in Call
  BY DEF WellFormed, TypeOK
<1>1. CASE Finish(c)
  BY <1>1, IdleType DEF Finish, GoesOn
<1>2. CASE ListUnverified(c)
  <2> DEFINE t == IF Live(call[c].session)
                  THEN {f \in Number : factor[f] = "unverified"} ELSE {}
  <2>1. Loop(c, call[c], t, "unenroll", "enroll") /\ call[c].pc = "listUnverified"
    BY <1>2 DEF ListUnverified
  <2>2. t \in SUBSET Number
    OBVIOUS
  <2> HIDE DEF t
  <2>3. QED
    BY <1>0, <2>1, <2>2, LoopDoes DEF Follows
<1>3. CASE Unenroll(c)
  <2>1. PICK f \in Number : Loop(c, call[c], call[c].todo \ {f}, "unenroll", "enroll")
    BY <1>0, <1>3 DEF Unenroll, Call
  <2>2. call[c].todo \ {f} \in SUBSET Number /\ call[c].pc = "unenroll"
    BY <1>0, <1>3 DEF Unenroll, Call
  <2>3. QED
    BY <1>0, <2>1, <2>2, LoopDoes DEF Follows
<1>4. CASE GetUser(c) /\ ~Finish(c)
  BY <1>4, GoToDoes DEF GetUser, Follows, Step
<1>5. CASE FindFactor(c) /\ ~Finish(c)
  <2>1. PICK f \in Number : Continue(c, [call[c] EXCEPT !.pc = "form", !.factor = f])
    BY <1>5 DEF FindFactor
  <2> DEFINE l == [call[c] EXCEPT !.pc = "form", !.factor = f]
  <2>2. l \in Call /\ GoesOn(call[c], l)
    BY <1>0, <1>5 DEF FindFactor, Call, Step, GoesOn, Follows
  <2>3. QED
    BY <2>1, <2>2
<1>6. CASE RedeemRecoveryCode(c) /\ ~Finish(c)
  BY <1>6, GoToDoes DEF RedeemRecoveryCode, Spend, Follows, Step
<1>7. CASE ListFactors(c)
  <2>1. PICK n \in Nat, t \in SUBSET Number :
            Loop(c, [call[c] EXCEPT !.count = n], t, "delete", "clear")
    BY <1>7, FactorCount DEF ListFactors
  <2> DEFINE k == [call[c] EXCEPT !.count = n]
  <2>2. /\ k \in Call /\ k.pc = "listAll"
        /\ \A l : GoesOn(k, l) => GoesOn(call[c], l)
    BY <1>0, <1>7 DEF ListFactors, Call, GoesOn
  <2> HIDE DEF k
  <2>3. QED
    BY <2>1, <2>2, LoopDoes DEF Follows, k
<1>8. CASE DeleteFactor(c) /\ ~Finish(c)
  <2>1. PICK f \in Number : Loop(c, call[c], call[c].todo \ {f}, "delete", "clear")
    BY <1>0, <1>8 DEF DeleteFactor, ServiceDeletes, Call
  <2>2. call[c].todo \ {f} \in SUBSET Number /\ call[c].pc = "delete"
    BY <1>0, <1>8 DEF DeleteFactor, Call
  <2>3. QED
    BY <1>0, <2>1, <2>2, LoopDoes DEF Follows
<1>9. CASE ClearCodes(c)
  BY <1>9, GoToDoes DEF ClearCodes, Follows, Step
<1>10. QED
  BY <1>1, <1>2, <1>3, <1>4, <1>5, <1>6, <1>7, <1>8, <1>9
     DEF RequestStep, EnrollSteps, ChallengeSteps, RedeemSteps, ResetSteps, Die,
     Enroll, StoreRecoveryCodes, Challenge, Elevate, WriteAudit

\* A new request has a number of its own, and is before any change unless it
\* confirms an enrolment, which verifies the factor at once.
LEMMA BeginStart ==
    ASSUME WellFormed, NEW c \in Calls, BeginSome(c)
    PROVE  /\ call[c].pc = "idle"
           /\ nextCall \in Number /\ nextCall' = nextCall + 1
           /\ UNCHANGED <<browser, tables, nextSession, ghosts>>
           /\ \E k \in Call :
                /\ Continue(c, k) /\ k.number = nextCall
                /\ LocalsFit(k, issued, nextCall', nextSession)
                /\ \/ k.pc \in {"listUnverified", "findFactor", "listAll"} /\ UNCHANGED auth
                   \/ k.pc = "redeem" /\ k.code \in codes /\ UNCHANGED auth
                   \/ /\ k.pc = "getUser" /\ Exists(k.factor)
                      /\ Live(k.session)
                      /\ factor' = [factor EXCEPT ![k.factor] = "verified"]
                      /\ level' = [level EXCEPT ![k.session] = "aal2"]
<1>0. /\ call[c].pc = "idle"
      /\ nextCall \in Number /\ nextCall \in Nat /\ nextCall' = nextCall + 1
      /\ UNCHANGED <<browser, tables, nextSession, ghosts>>
  <2>1. /\ \E m : Begin(c, m)
        /\ UNCHANGED <<browser, tables, nextSession, ghosts>>
    BY DEF BeginSome, BeginReset, BeginEnroll, BeginChallenge, BeginConfirm, BeginRedeem
  <2>2. nextCall \in 1 .. MaxCalls + 1
    BY DEF WellFormed, TypeOK
  <2>3. call[c].pc = "idle" /\ nextCall <= MaxCalls /\ nextCall' = nextCall + 1
    BY <2>1 DEF Begin
  <2>4. QED
    BY <2>1, <2>2, <2>3, AdminMfaAssumption DEF Number
<1>1. ASSUME NEW b \in Browsers, Live(holds[b])
      PROVE  /\ holds[b] \in Session /\ holds[b] < nextSession
  BY <1>1 DEF WellFormed, TypeOK, SessionsStarted, Live
<1>2. CASE BeginReset(c)
  <2> DEFINE k == [Idle EXCEPT !.pc = "listAll", !.number = nextCall]
  <2>1. k \in Call /\ k.pc = "listAll" /\ k.number = nextCall
    BY <1>0, IdleType DEF Call, Step
  <2>2. LocalsFit(k, issued, nextCall', nextSession)
    BY <1>0, <2>1 DEF LocalsFit, FromBrowser, Enrolling, Confirming, Challenging, Redeeming
  <2>3. Continue(c, k) /\ UNCHANGED auth
    BY <1>2 DEF BeginReset, Begin, Idle
  <2>4. QED
    BY <1>0, <2>1, <2>2, <2>3
<1>3. ASSUME NEW b \in Browsers, NEW s \in {"listUnverified", "findFactor"}, Live(holds[b]),
             Begin(c, From(b, s)), UNCHANGED auth
      PROVE  \E k \in Call : /\ Continue(c, k) /\ k.number = nextCall
                             /\ LocalsFit(k, issued, nextCall', nextSession) /\ k.pc = s
  <2> DEFINE k == [Idle EXCEPT !.pc = s, !.at = b, !.session = holds[b], !.number = nextCall]
  <2>1. k \in Call /\ k.pc = s /\ k.number = nextCall /\ k.session = holds[b] /\ k.at = b
    BY <1>0, <1>1, <1>3, IdleType DEF Call, Step
  <2>2. LocalsFit(k, issued, nextCall', nextSession)
    BY <1>0, <1>1, <1>3, <2>1
       DEF LocalsFit, FromBrowser, Enrolling, Confirming, Challenging, Redeeming
  <2>3. Continue(c, k)
    BY <1>3 DEF Begin, From, Idle
  <2>4. QED
    BY <2>1, <2>2, <2>3
<1>4. CASE \E b \in Browsers : BeginEnroll(c, b) \/ BeginChallenge(c, b)
  BY <1>0, <1>3, <1>4 DEF BeginEnroll, BeginChallenge, Gate
<1>5. CASE \E b \in Browsers, f \in Number : BeginConfirm(c, b, f)
  <2>1. PICK b \in Browsers, f \in Number : BeginConfirm(c, b, f)
    BY <1>5
  <2> DEFINE k == [Idle EXCEPT !.pc = "getUser", !.at = b, !.session = holds[b],
                               !.factor = f, !.number = nextCall]
  <2>2. /\ k \in Call /\ k.pc = "getUser" /\ k.number = nextCall
        /\ k.session = holds[b] /\ k.at = b /\ k.factor = f
    BY <1>0, <1>1, <2>1, IdleType DEF BeginConfirm, Verify, Call, Step
  <2>3. LocalsFit(k, issued, nextCall', nextSession)
    BY <1>0, <1>1, <2>1, <2>2
       DEF BeginConfirm, Verify, LocalsFit, FromBrowser, Enrolling, Confirming,
           Challenging, Redeeming
  <2>4. Continue(c, k)
    BY <2>1 DEF BeginConfirm, Begin, From, Idle
  <2>5. /\ Exists(k.factor) /\ Live(k.session)
        /\ factor' = [factor EXCEPT ![k.factor] = "verified"]
        /\ level' = [level EXCEPT ![k.session] = "aal2"]
    BY <2>1, <2>2 DEF BeginConfirm, Verify
  <2> HIDE DEF k
  <2>6. QED
    BY <1>0, <2>2, <2>3, <2>4, <2>5
<1>6. CASE \E b \in Browsers, x \in codes : BeginRedeem(c, b, x)
  <2>1. PICK b \in Browsers, x \in codes : BeginRedeem(c, b, x)
    BY <1>6
  <2>2. x \in issued /\ x \in Code
    BY DEF WellFormed, TypeOK
  <2> DEFINE k == [Idle EXCEPT !.pc = "redeem", !.at = b, !.session = holds[b],
                               !.code = x, !.number = nextCall]
  <2>3. /\ k \in Call /\ k.pc = "redeem" /\ k.number = nextCall
        /\ k.session = holds[b] /\ k.at = b /\ k.code = x
    BY <1>0, <1>1, <2>1, <2>2, IdleType DEF BeginRedeem, Call, Step
  <2>4. LocalsFit(k, issued, nextCall', nextSession)
    BY <1>0, <1>1, <2>1, <2>2, <2>3
       DEF BeginRedeem, LocalsFit, FromBrowser, Enrolling, Confirming, Challenging, Redeeming
  <2>5. Continue(c, k) /\ UNCHANGED auth
    BY <2>1 DEF BeginRedeem, Begin, From, Idle
  <2>6. QED
    BY <1>0, <2>3, <2>4, <2>5
<1>7. QED
  BY <1>0, <1>2, <1>4, <1>5, <1>6 DEF BeginSome

-----------------------------------------------------------------------------
(* Type correctness.                                                        *)

\* A request goes on: all locals still fit.
LEMMA LocalsKept ==
    ASSUME WellFormed, NEW c \in Calls, NEW l \in Call, Continue(c, l),
           issued \subseteq issued', nextCall' \in Nat, nextCall <= nextCall',
           nextSession' \in Nat, nextSession <= nextSession',
           LocalsFit(l, issued', nextCall', nextSession')
    PROVE  call' \in [Calls -> Call] /\ RequestLocals'
<1>1. call' \in [Calls -> Call] /\ call'[c] = l /\ \A d \in Calls \ {c} : call'[d] = call[d]
  BY ContinueDoes
<1>2. ASSUME NEW d \in Calls, d # c
      PROVE  LocalsFit(call'[d], issued', nextCall', nextSession')
  <2>1. call'[d] = call[d] /\ LocalsFit(call[d], issued, nextCall, nextSession)
    BY <1>1, <1>2 DEF WellFormed, RequestLocals
  <2>2. nextCall \in Nat /\ nextSession \in Nat
    BY AdminMfaAssumption DEF WellFormed, TypeOK
  <2>3. /\ call[d].number \in Number => call[d].number \in Nat
        /\ call[d].session \in Session => call[d].session \in Nat
    BY NumberType
  <2>4. QED
    BY <2>1, <2>2, <2>3 DEF LocalsFit
<1>3. QED
  BY <1>1, <1>2 DEF RequestLocals

LEMMA GoesOnFits ==
    ASSUME WellFormed, NEW c \in Calls, NEW l \in Call, GoesOn(call[c], l),
           issued \subseteq issued', UNCHANGED <<nextCall, nextSession>>
    PROVE  LocalsFit(l, issued', nextCall', nextSession')
<1>1. LocalsFit(call[c], issued, nextCall, nextSession)
  BY DEF WellFormed, RequestLocals
<1>2. CASE l = Idle
  BY <1>2, IdleType DEF LocalsFit, FromBrowser, Enrolling, Confirming, Challenging, Redeeming
<1>3. CASE l # Idle
  <2>1. /\ Follows(call[c].pc, l.pc) /\ l.number = call[c].number /\ l.at = call[c].at
        /\ l.session = call[c].session /\ l.code = call[c].code
        /\ IF call[c].pc = "findFactor" THEN l.factor \in Number
           ELSE l.factor = call[c].factor
    BY <1>3 DEF GoesOn
  <2>2. l.number \in Number /\ l.number < nextCall
    BY <1>1, <2>1 DEF LocalsFit, Follows
  <2>3. l.pc \in FromBrowser => call[c].pc \in FromBrowser
    BY <2>1 DEF Follows, FromBrowser, Enrolling, Confirming, Challenging, Redeeming
  <2>4. l.pc \in Confirming \cup {"form"} => l.factor \in Number
    BY <1>1, <2>1 DEF LocalsFit, Follows, Confirming
  <2>5. l.pc \in Redeeming => call[c].pc \in Redeeming
    BY <2>1 DEF Follows, Redeeming
  <2>6. QED
    BY <1>1, <2>1, <2>2, <2>3, <2>4, <2>5 DEF LocalsFit
<1>4. QED
  BY <1>2, <1>3

LEMMA BeginWellFormed ==
    ASSUME WellFormed, NEW c \in Calls, BeginSome(c)
    PROVE  WellFormed'
<1>1. /\ nextCall \in Number /\ nextCall' = nextCall + 1
      /\ UNCHANGED <<browser, tables, nextSession, ghosts>>
  BY BeginStart
<1>2. PICK k \in Call : /\ Continue(c, k)
                        /\ LocalsFit(k, issued, nextCall', nextSession)
                        /\ factor' \in [Number -> {"none", "unverified", "verified", "deleted"}]
                        /\ level' \in [Session -> {"none", "aal1", "aal2"}]
  BY BeginStart DEF auth, WellFormed, TypeOK
<1>3. nextCall \in Nat /\ nextSession \in Nat /\ nextCall' \in 1 .. MaxCalls + 1
  BY <1>1, AdminMfaAssumption DEF Number, WellFormed, TypeOK
<1>4. call' \in [Calls -> Call] /\ RequestLocals'
  <2>1. issued' = issued /\ nextSession' = nextSession
    BY <1>1 DEF tables
  <2>2. nextCall' \in Nat /\ nextCall <= nextCall' /\ nextSession <= nextSession'
    BY <1>1, <1>3, <2>1
  <2>3. QED
    BY <1>2, <1>3, <2>1, <2>2, LocalsKept
<1>5. TypeOK'
  BY <1>1, <1>2, <1>3, <1>4 DEF WellFormed, TypeOK, browser, tables, ghosts
<1>6. SessionsStarted'
  BY <1>1 DEF WellFormed, SessionsStarted, browser
<1>7. QED
  BY <1>4, <1>5, <1>6 DEF WellFormed

\* What a step of a request may write.
LEMMA StepTypes ==
    ASSUME WellFormed, NEW c \in Calls, RequestStep(c) \/ Die(c)
    PROVE  /\ factor' \in [Number -> {"none", "unverified", "verified", "deleted"}]
           /\ level' \in [Session -> {"none", "aal1", "aal2"}]
           /\ cookie' \in [Browsers -> Session \cup {None}]
           /\ issued \subseteq issued' /\ issued' \in SUBSET Code /\ codes' \in SUBSET issued'
           /\ audit' \in SUBSET Entry
           /\ spent' \in SUBSET (issued' \X Session)
           /\ deletedBy' \in [Number -> Number \cup {None}]
           /\ unenrolled' \in SUBSET Number /\ bare' \in SUBSET Number
           /\ late' \in SUBSET issued' /\ torn' \in SUBSET Number
           /\ UNCHANGED <<holds, nextCall, nextSession>>
<1> USE DEF auth, browser, tables, ghosts
<1>0. /\ call[c] \in Call /\ LocalsFit(call[c], issued, nextCall, nextSession) /\ TypeOK
      /\ \A f \in call[c].todo : f \in Number
  BY DEF WellFormed, TypeOK, RequestLocals, Call
<1>1. CASE ListUnverified(c) \/ FindFactor(c) \/ ListFactors(c)
  BY <1>0, <1>1 DEF ListUnverified, FindFactor, ListFactors, TypeOK
<1>2. CASE Unenroll(c)
  <2>1. PICK f \in Number :
          /\ \/ factor' = [factor EXCEPT ![f] = "deleted"]
                /\ deletedBy' = [deletedBy EXCEPT ![f] = call[c].number]
             \/ factor' = factor /\ deletedBy' = deletedBy
          /\ \/ level' = [s \in Session |-> IF level[s] = "aal2" THEN "aal1" ELSE level[s]]
             \/ level' = level
          /\ unenrolled' \in {unenrolled, unenrolled \cup {f}}
    BY <1>0, <1>2 DEF Unenroll
  <2>2. level' \in [Session -> {"none", "aal1", "aal2"}]
    BY <1>0, <2>1 DEF TypeOK
  <2>3. call[c].number \in Number
    BY <1>0, <1>2 DEF Unenroll, LocalsFit
  <2>4. /\ factor' \in [Number -> {"none", "unverified", "verified", "deleted"}]
        /\ deletedBy' \in [Number -> Number \cup {None}] /\ unenrolled' \in SUBSET Number
    BY <1>0, <2>1, <2>3 DEF TypeOK
  <2>5. QED
    BY <1>0, <1>2, <2>2, <2>4 DEF Unenroll, TypeOK
<1>3. CASE Enroll(c)
  BY <1>0, <1>3 DEF Enroll, TypeOK
<1>4. CASE GetUser(c) \/ Die(c)
  BY <1>0, <1>4 DEF GetUser, Die, TypeOK, LocalsFit, Confirming
<1>5. CASE StoreRecoveryCodes(c)
  <2>1. CodesOf(call[c].factor, call[c].number) \in SUBSET Code
    BY <1>0, <1>5 DEF StoreRecoveryCodes, LocalsFit, Confirming, CodesOf, Code
  <2>2. QED
    BY <1>0, <1>5, <2>1 DEF StoreRecoveryCodes, TypeOK
<1>6. CASE Challenge(c)
  <2>1. PICK f \in Number : /\ factor' \in {factor, [factor EXCEPT ![f] = "verified"]}
                           /\ bare' \in {bare, bare \cup {f}}
    BY <1>0, <1>6 DEF Challenge, Verify, LocalsFit
  <2>2. level' \in [Session -> {"none", "aal1", "aal2"}]
    BY <1>0, <1>6 DEF Challenge, Verify, TypeOK
  <2>3. QED
    BY <1>0, <1>6, <2>1, <2>2 DEF Challenge, TypeOK
<1>7. CASE RedeemRecoveryCode(c)
  <2>1. call[c].code \in issued /\ call[c].session \in Session
    BY <1>0, <1>7 DEF RedeemRecoveryCode, LocalsFit, Redeeming, FromBrowser
  <2>2. /\ spent' \in {spent, spent \cup {<<call[c].code, call[c].session>>}}
        /\ late' \in {late, late \cup {call[c].code}}
        /\ codes' \subseteq codes
    BY <1>7 DEF RedeemRecoveryCode, Spend
  <2>3. QED
    BY <1>0, <1>7, <2>1, <2>2 DEF RedeemRecoveryCode, TypeOK
<1>8. CASE Elevate(c)
  <2>1. call[c].session \in Session
    BY <1>0, <1>8 DEF Elevate, LocalsFit, Redeeming, FromBrowser
  <2>2. QED
    BY <1>0, <1>8, <2>1 DEF Elevate, TypeOK
<1>9. CASE DeleteFactor(c)
  <2>1. PICK f \in Number :
          /\ \/ factor' = [factor EXCEPT ![f] = "deleted"]
                /\ deletedBy' = [deletedBy EXCEPT ![f] = call[c].number]
             \/ factor' = factor /\ deletedBy' = deletedBy
          /\ level' \in {level, [s \in Session |-> "none"]}
          /\ torn' \in {torn, torn \cup {call[c].number}}
    BY <1>0, <1>9 DEF DeleteFactor, ServiceDeletes
  <2>2. call[c].number \in Number
    BY <1>0, <1>9 DEF DeleteFactor, LocalsFit
  <2>3. /\ factor' \in [Number -> {"none", "unverified", "verified", "deleted"}]
        /\ deletedBy' \in [Number -> Number \cup {None}] /\ torn' \in SUBSET Number
        /\ level' \in [Session -> {"none", "aal1", "aal2"}]
    BY <1>0, <2>1, <2>2 DEF TypeOK
  <2>4. QED
    BY <1>0, <1>9, <2>3 DEF DeleteFactor, TypeOK
<1>10. CASE ClearCodes(c)
  BY <1>0, <1>10 DEF ClearCodes, TypeOK
<1>11. CASE WriteAudit(c)
  <2>1. [number |-> call[c].number, count |-> call[c].count] \in Entry
    BY <1>0, <1>11 DEF WriteAudit, LocalsFit, Entry, Call
  <2>2. QED
    BY <1>0, <1>11, <2>1 DEF WriteAudit, TypeOK
<1>12. QED
  BY <1>1, <1>2, <1>3, <1>4, <1>5, <1>6, <1>7, <1>8, <1>9, <1>10, <1>11
     DEF RequestStep, EnrollSteps, ChallengeSteps, RedeemSteps, ResetSteps

LEMMA StepWellFormed ==
    ASSUME WellFormed, NEW c \in Calls, RequestStep(c) \/ Die(c)
    PROVE  WellFormed'
<1>1. PICK l \in Call : Continue(c, l) /\ GoesOn(call[c], l)
  BY StepGoesOn
<1>2. LocalsFit(l, issued', nextCall', nextSession')
  BY <1>1, StepTypes, GoesOnFits
<1>3. call' \in [Calls -> Call] /\ RequestLocals'
  <2>1. nextCall \in Nat /\ nextSession \in Nat
    BY AdminMfaAssumption DEF WellFormed, TypeOK
  <2>2. issued \subseteq issued' /\ nextCall' = nextCall /\ nextSession' = nextSession
    BY StepTypes
  <2>3. QED
    BY <1>1, <1>2, <2>1, <2>2, LocalsKept
<1>4. TypeOK'
  BY <1>3, StepTypes DEF WellFormed, TypeOK
<1>5. SessionsStarted'
  BY StepTypes DEF WellFormed, SessionsStarted
<1>6. QED
  BY <1>3, <1>4, <1>5 DEF WellFormed

\* The environment works on sessions and cookies.
LEMMA EnvironmentWellFormed ==
    ASSUME WellFormed,
           \/ \E b \in Browsers : SignIn(b) \/ DropCookie(b)
           \/ \E s \in Session : EndSession(s)
    PROVE  /\ WellFormed' /\ nextSession <= nextSession'
           /\ UNCHANGED <<factor, codes, issued, audit, call, nextCall, ghosts>>
<1> USE DEF auth, browser, tables, ghosts
<1>1. ASSUME NEW b \in Browsers, SignIn(b) PROVE WellFormed' /\ nextSession <= nextSession'
  <2>1. nextSession \in Session /\ nextSession \in Nat /\ nextSession' = nextSession + 1
        /\ nextSession' \in 1 .. MaxSessions + 1
    BY <1>1, AdminMfaAssumption DEF SignIn, WellFormed, TypeOK, Session
  <2>2. TypeOK'
    BY <1>1, <2>1 DEF SignIn, WellFormed, TypeOK
  <2>3. RequestLocals'
    <3>1. \A c \in Calls : LocalsFit(call[c], issued, nextCall, nextSession)
      BY DEF WellFormed, RequestLocals
    <3>2. call' = call /\ issued' = issued /\ nextCall' = nextCall
      BY <1>1 DEF SignIn
    <3>3. QED
      BY <2>1, <3>1, <3>2, NumberType DEF RequestLocals, LocalsFit
  <2>4. SessionsStarted'
    <3>1. \A a \in Browsers : holds[a] \in Nat /\ holds[a] < nextSession
      <4>1. \A a \in Browsers : holds[a] \in Session \cup {0}
        BY DEF WellFormed, TypeOK, None
      <4>2. \A s \in Session \cup {0} : s \in Nat
        BY NumberType
      <4>3. QED
        BY <4>1, <4>2 DEF WellFormed, SessionsStarted
    <3>2. QED
      BY <1>1, <2>1, <3>1 DEF SignIn, SessionsStarted, WellFormed, TypeOK
  <2>5. QED
    BY <2>1, <2>2, <2>3, <2>4 DEF WellFormed
<1>2. ASSUME NEW b \in Browsers, DropCookie(b) PROVE WellFormed' /\ nextSession <= nextSession'
  BY <1>2, AdminMfaAssumption DEF DropCookie, WellFormed, TypeOK, RequestLocals, SessionsStarted
<1>3. ASSUME NEW s \in Session, EndSession(s) PROVE WellFormed' /\ nextSession <= nextSession'
  BY <1>3, AdminMfaAssumption DEF EndSession, WellFormed, TypeOK, RequestLocals, SessionsStarted
<1>4. QED
  BY <1>1, <1>2, <1>3 DEF SignIn, DropCookie, EndSession

\* The three kinds of steps.
LEMMA NextCases ==
    ASSUME [Next]_vars
    PROVE  \/ \E c \in Calls : BeginSome(c)
           \/ \E c \in Calls : RequestStep(c) \/ Die(c)
           \/ \E b \in Browsers : SignIn(b) \/ DropCookie(b)
           \/ \E s \in Session : EndSession(s)
           \/ UNCHANGED vars
BY DEF Next, RequestStep

LEMMA NextWellFormed == WellFormed /\ [Next]_vars => WellFormed'
<1> SUFFICES ASSUME WellFormed, [Next]_vars PROVE WellFormed'
  OBVIOUS
<1>1. CASE UNCHANGED vars
  BY <1>1 DEF vars, auth, browser, tables, ghosts, WellFormed, TypeOK, RequestLocals,
     SessionsStarted
<1>2. QED
  BY <1>1, BeginWellFormed, StepWellFormed, EnvironmentWellFormed, NextCases

\* Whatever the requests and the environment do, the tables stay well-typed:
\* only stored codes are live, and only live sessions redeem one.
THEOREM TypeCorrect == Spec => []TypeOK
<1>1. WellFormed => TypeOK
  BY DEF WellFormed
<1>2. QED
  BY <1>1, InitWellFormed, NextWellFormed, PTL DEF Spec

-----------------------------------------------------------------------------
(* The numbers of requests, and what bears them.                            *)

OwnNumbers == \A c, d \in Calls : call[c].pc # "idle" /\ call[d].pc # "idle" /\ c # d
                                  => call[c].number # call[d].number
FreshFactors == \A n \in Number : n >= nextCall => factor[n] = "none"
FreshEnrolments == \A c \in Calls : call[c].pc \in Enrolling => factor[call[c].number] = "none"
FreshBatches == \A k \in issued :
                  /\ k.batch < nextCall
                  /\ \A c \in Calls : call[c].pc \in Confirming => k.batch # call[c].number
DeletionsKnown == \A f \in Number : deletedBy[f] # None => /\ factor[f] = "deleted"
                                                         /\ deletedBy[f] < nextCall

NumbersInv == /\ OwnNumbers /\ FreshFactors /\ FreshEnrolments
              /\ FreshBatches /\ DeletionsKnown

\* How a step of request c may change factor f.
FactorStep(c, f) ==
    \/ factor'[f] = factor[f] /\ deletedBy'[f] = deletedBy[f]
    \/ /\ call[c].pc = "enroll" /\ f = call[c].number
       /\ factor'[f] = "unverified" /\ deletedBy'[f] = deletedBy[f]
    \/ /\ call[c].pc = "form" /\ f = call[c].factor /\ Exists(f)
       /\ factor'[f] = "verified" /\ deletedBy'[f] = deletedBy[f]
    \/ /\ call[c].pc = "unenroll" /\ Exists(f) /\ factor'[f] = "deleted"
       /\ deletedBy'[f] = call[c].number
       /\ factor[f] = "verified" => f \in unenrolled'
    \/ /\ call[c].pc = "delete" /\ Exists(f) /\ factor'[f] = "deleted"
       /\ deletedBy'[f] = call[c].number
       /\ factor[f] = "verified" => level' = [s \in Session |-> "none"]

LEMMA FactorSteps ==
    ASSUME WellFormed, NEW c \in Calls, RequestStep(c) \/ Die(c), NEW f \in Number
    PROVE  FactorStep(c, f)
<1> USE DEF auth, tables, ghosts
<1>0. /\ factor \in [Number -> {"none", "unverified", "verified", "deleted"}]
      /\ deletedBy \in [Number -> Number \cup {None}]
      /\ LocalsFit(call[c], issued, nextCall, nextSession)
      /\ \A g \in call[c].todo : g \in Number
  BY DEF WellFormed, TypeOK, RequestLocals, Call
<1>1. CASE Unenroll(c)
  BY <1>0, <1>1 DEF Unenroll, FactorStep, Exists
<1>2. CASE Enroll(c)
  BY <1>0, <1>2 DEF Enroll, FactorStep
<1>3. CASE Challenge(c)
  BY <1>0, <1>3 DEF Challenge, Verify, FactorStep
<1>4. CASE DeleteFactor(c)
  BY <1>0, <1>4 DEF DeleteFactor, ServiceDeletes, FactorStep
<1>5. CASE UNCHANGED <<factor, deletedBy>>
  BY <1>5 DEF FactorStep
<1>6. QED
  BY <1>1, <1>2, <1>3, <1>4, <1>5
     DEF RequestStep, EnrollSteps, ChallengeSteps, RedeemSteps, ResetSteps, Die,
     ListUnverified, GetUser, StoreRecoveryCodes, FindFactor, RedeemRecoveryCode, Elevate,
     ListFactors, ClearCodes, WriteAudit

\* Only a confirmation stores codes, those of its own number.
LEMMA IssuedSteps ==
    ASSUME NEW c \in Calls, RequestStep(c) \/ Die(c)
    PROVE  \/ issued' = issued /\ codes' \subseteq codes
           \/ StoreRecoveryCodes(c)
BY DEF tables, RequestStep, EnrollSteps, ChallengeSteps, RedeemSteps, ResetSteps, Die,
   ListUnverified, Unenroll, Enroll, GetUser, FindFactor, Challenge, RedeemRecoveryCode,
   Elevate, ListFactors, DeleteFactor, ClearCodes, WriteAudit

LEMMA InitNumbers == Init => NumbersInv
<1> SUFFICES ASSUME Init PROVE NumbersInv
  OBVIOUS
<1>1. \A c \in Calls : call[c].pc = "idle"
  BY DEF Init, Idle
<1>2. FreshFactors
  BY NumberType DEF Init, FreshFactors
<1>3. \A k \in issued : k.batch < nextCall
  BY DEF Init, CodesOf
<1>4. DeletionsKnown
  BY DEF Init, DeletionsKnown
<1>5. QED
  BY <1>1, <1>2, <1>3, <1>4
     DEF NumbersInv, OwnNumbers, FreshEnrolments, FreshBatches, Enrolling, Confirming

LEMMA BeginNumbers ==
    ASSUME WellFormed, NumbersInv, NEW c \in Calls, BeginSome(c)
    PROVE  NumbersInv'
<1> USE DEF tables, ghosts
<1>1. /\ nextCall \in Number /\ nextCall \in Nat /\ nextCall' = nextCall + 1
      /\ call[c].pc = "idle" /\ UNCHANGED <<issued, deletedBy>>
  BY BeginStart, NumberType
<1>2. PICK k \in Call :
        /\ Continue(c, k) /\ k.number = nextCall
        /\ \A f \in Number : \/ factor'[f] = factor[f]
                             \/ factor[f] \notin {"none", "deleted"} /\ factor'[f] = "verified"
  <2>1. PICK k \in Call :
          /\ Continue(c, k) /\ k.number = nextCall
          /\ \/ UNCHANGED auth
             \/ Exists(k.factor) /\ factor' = [factor EXCEPT ![k.factor] = "verified"]
    BY BeginStart
  <2>2. \A f \in Number : \/ factor'[f] = factor[f]
                          \/ factor[f] \notin {"none", "deleted"} /\ factor'[f] = "verified"
    BY <2>1 DEF auth, WellFormed, TypeOK, Exists
  <2>3. QED
    BY <2>1, <2>2
<1>3. call'[c] = k /\ \A d \in Calls \ {c} : call'[d] = call[d]
  BY <1>2, ContinueDoes
<1>4. \A d \in Calls : call[d].pc # "idle" => call[d].number \in Number /\ call[d].number < nextCall
                                               /\ call[d].number \in Nat
  BY NumberType DEF WellFormed, RequestLocals, LocalsFit
<1>5. OwnNumbers'
  BY <1>2, <1>3, <1>4, <1>1 DEF NumbersInv, OwnNumbers
<1>6. FreshFactors'
  <2>1. ASSUME NEW n \in Number, n >= nextCall + 1 PROVE factor'[n] = "none"
    <3>1. n \in Nat /\ n >= nextCall
      BY <1>1, <2>1, NumberType
    <3>2. factor[n] = "none"
      BY <3>1 DEF NumbersInv, FreshFactors
    <3>3. QED
      BY <1>2, <3>2
  <2>2. QED
    BY <1>1, <2>1 DEF FreshFactors
<1>7. FreshEnrolments'
  <2>1. ASSUME NEW d \in Calls, call'[d].pc \in Enrolling
        PROVE  factor'[call'[d].number] = "none"
    <3>1. CASE d = c
      BY <1>1, <1>2, <1>3, <3>1 DEF NumbersInv, FreshFactors
    <3>2. CASE d # c
      BY <1>2, <1>3, <1>4, <2>1, <3>2 DEF NumbersInv, FreshEnrolments, Enrolling
    <3>3. QED
      BY <3>1, <3>2
  <2>2. QED
    BY <2>1 DEF FreshEnrolments
<1>8. FreshBatches'
  <2>1. ASSUME NEW x \in issued
        PROVE  /\ x.batch < nextCall + 1
               /\ \A d \in Calls : call'[d].pc \in Confirming => x.batch # call'[d].number
    <3>1. x.batch < nextCall /\ x.batch \in Nat
      BY NumberType DEF NumbersInv, FreshBatches, WellFormed, TypeOK, Code
    <3>2. QED
      BY <1>1, <1>2, <1>3, <3>1 DEF NumbersInv, FreshBatches
  <2>2. QED
    BY <1>1, <2>1 DEF FreshBatches
<1>9. DeletionsKnown'
  <2>1. ASSUME NEW f \in Number, deletedBy[f] # None
        PROVE  factor'[f] = "deleted" /\ deletedBy[f] < nextCall + 1
    <3>1. factor[f] = "deleted" /\ deletedBy[f] < nextCall /\ deletedBy[f] \in Nat
      BY <2>1, NumberType DEF NumbersInv, DeletionsKnown, WellFormed, TypeOK
    <3>2. factor'[f] = "deleted"
      BY <1>2, <3>1
    <3>3. deletedBy[f] < nextCall + 1
      BY <1>1, <3>1
    <3>4. QED
      BY <3>2, <3>3
  <2>2. QED
    BY <1>1, <2>1 DEF DeletionsKnown
<1>10. QED
  BY <1>5, <1>6, <1>7, <1>8, <1>9 DEF NumbersInv

LEMMA StepNumbers ==
    ASSUME WellFormed, NumbersInv, NEW c \in Calls, RequestStep(c) \/ Die(c)
    PROVE  NumbersInv'
<1>1. PICK l \in Call : Continue(c, l) /\ GoesOn(call[c], l)
  BY StepGoesOn
<1>2. call'[c] = l /\ \A d \in Calls \ {c} : call'[d] = call[d]
  BY <1>1, ContinueDoes
<1>3. /\ l.pc # "idle" => call[c].pc # "idle" /\ l.number = call[c].number
      /\ l.pc \in Enrolling => call[c].pc \in {"listUnverified", "unenroll"}
      /\ l.pc \in Confirming => call[c].pc = "getUser"
  BY <1>1, IdleType DEF GoesOn, Follows, Enrolling, Confirming
<1>4. \A d \in Calls : call[d].pc # "idle" => call[d].number \in Number /\ call[d].number < nextCall
                                               /\ call[d].number \in Nat
  BY NumberType DEF WellFormed, RequestLocals, LocalsFit
<1>5. nextCall' = nextCall /\ nextCall \in Nat
  BY StepTypes, AdminMfaAssumption DEF WellFormed, TypeOK
<1>6. \A f \in Number : FactorStep(c, f)
  BY FactorSteps
<1>7. OwnNumbers'
  BY <1>2, <1>3 DEF NumbersInv, OwnNumbers
<1>8. FreshFactors'
  <2>1. ASSUME NEW n \in Number, n >= nextCall PROVE factor'[n] = "none"
    <3>1. factor[n] = "none" /\ n \in Nat
      BY <2>1, NumberType DEF NumbersInv, FreshFactors
    <3>2. ~(call[c].pc = "enroll" /\ n = call[c].number)
      BY <1>4, <1>5, <2>1, <3>1
    <3>3. QED
      BY <1>6, <3>1, <3>2 DEF FactorStep, Exists
  <2>2. QED
    BY <1>5, <2>1 DEF FreshFactors
<1>9. FreshEnrolments'
  <2>1. ASSUME NEW d \in Calls, call'[d].pc \in Enrolling
        PROVE  factor'[call'[d].number] = "none"
    <3>1. /\ call'[d].number = call[d].number /\ call[d].pc \in Enrolling
          /\ d = c => call[c].pc # "enroll"
      BY <1>2, <1>3, <2>1 DEF Enrolling
    <3>2. factor[call[d].number] = "none" /\ call[d].number \in Number
      BY <1>4, <3>1 DEF NumbersInv, FreshEnrolments, Enrolling
    <3>3. ~(call[c].pc = "enroll" /\ call[d].number = call[c].number)
      BY <3>1 DEF NumbersInv, OwnNumbers, Enrolling
    <3>4. QED
      BY <1>6, <3>1, <3>2, <3>3 DEF FactorStep, Exists
  <2>2. QED
    BY <2>1 DEF FreshEnrolments
<1>10. FreshBatches'
  <2>1. ASSUME NEW x \in issued'
        PROVE  /\ x.batch < nextCall
               /\ \A d \in Calls : call'[d].pc \in Confirming => x.batch # call'[d].number
    <3>1. CASE x \in issued
      BY <1>2, <1>3, <3>1 DEF NumbersInv, FreshBatches, Confirming
    <3>2. CASE x \notin issued
      <4>1. x.batch = call[c].number /\ call[c].pc = "store"
        BY <2>1, <3>2, IssuedSteps DEF StoreRecoveryCodes, CodesOf
      <4>2. x.batch < nextCall
        BY <1>4, <4>1
      <4>3. ASSUME NEW d \in Calls, call'[d].pc \in Confirming PROVE x.batch # call'[d].number
        <5>1. d # c
          BY <1>2, <1>3, <4>1, <4>3
        <5>2. QED
          BY <1>2, <4>1, <4>3, <5>1 DEF NumbersInv, OwnNumbers, Confirming
      <4>4. QED
        BY <4>2, <4>3
    <3>3. QED
      BY <3>1, <3>2
  <2>2. QED
    BY <1>5, <2>1 DEF FreshBatches
<1>11. DeletionsKnown'
  <2>1. ASSUME NEW f \in Number, deletedBy'[f] # None
        PROVE  factor'[f] = "deleted" /\ deletedBy'[f] < nextCall
    <3>1. CASE deletedBy'[f] = deletedBy[f]
      <4>1. factor[f] = "deleted" /\ deletedBy[f] < nextCall
        BY <2>1, <3>1 DEF NumbersInv, DeletionsKnown
      <4>2. ~(call[c].pc = "enroll" /\ f = call[c].number)
        BY <4>1 DEF NumbersInv, FreshEnrolments, Enrolling
      <4>3. QED
        BY <1>6, <3>1, <4>1, <4>2 DEF FactorStep, Exists
    <3>2. CASE deletedBy'[f] # deletedBy[f]
      BY <1>4, <1>6, <3>2 DEF FactorStep
    <3>3. QED
      BY <3>1, <3>2
  <2>2. QED
    BY <1>5, <2>1 DEF DeletionsKnown
<1>12. QED
  BY <1>7, <1>8, <1>9, <1>10, <1>11 DEF NumbersInv

LEMMA NextNumbers == WellFormed /\ NumbersInv /\ [Next]_vars => NumbersInv'
<1> SUFFICES ASSUME WellFormed, NumbersInv, [Next]_vars PROVE NumbersInv'
  OBVIOUS
<1>1. CASE UNCHANGED <<factor, issued, call, nextCall, deletedBy>>
  BY <1>1 DEF NumbersInv, OwnNumbers, FreshFactors, FreshEnrolments, FreshBatches, DeletionsKnown
<1>2. QED
  BY <1>1, BeginNumbers, StepNumbers, EnvironmentWellFormed, NextCases
     DEF vars, auth, tables, ghosts

-----------------------------------------------------------------------------
(* The gate.                                                                *)

\* A session at aal2 has a factor to show for it.
SecondFactor == (\E s \in Session : level[s] = "aal2") => HasFactor

LEMMA VerifyGivesFactor ==
    ASSUME WellFormed, NEW f \in Number, factor' = [factor EXCEPT ![f] = "verified"]
    PROVE  SecondFactor'
<1>1. factor'[f] = "verified"
  BY DEF WellFormed, TypeOK
<1>2. QED
  BY <1>1 DEF SecondFactor, HasFactor

LEMMA StepSecondFactor ==
    ASSUME WellFormed, NumbersInv, SecondFactor, NEW c \in Calls, RequestStep(c) \/ Die(c)
    PROVE  SecondFactor'
<1> USE DEF auth
<1>0. /\ factor \in [Number -> {"none", "unverified", "verified", "deleted"}]
      /\ level \in [Session -> {"none", "aal1", "aal2"}]
      /\ LocalsFit(call[c], issued, nextCall, nextSession)
      /\ \A g \in call[c].todo : g \in Number
  BY DEF WellFormed, TypeOK, RequestLocals, Call
<1>1. ASSUME UNCHANGED level,
             \A f \in Number : factor[f] = "verified" => factor'[f] = "verified"
      PROVE  SecondFactor'
  BY <1>1 DEF SecondFactor, HasFactor
<1>2. ASSUME \A s \in Session : level'[s] # "aal2" PROVE SecondFactor'
  BY <1>2 DEF SecondFactor
<1>3. CASE Unenroll(c)
  <2>1. CASE level' = [s \in Session |-> IF level[s] = "aal2" THEN "aal1" ELSE level[s]]
    BY <1>2, <2>1
  <2>2. CASE UNCHANGED level /\ \A f \in Number : factor[f] = "verified" => factor'[f] = "verified"
    BY <1>1, <2>2
  <2>3. QED
    BY <1>0, <1>3, <2>1, <2>2 DEF Unenroll
<1>4. CASE Enroll(c)
  <2>1. factor[call[c].number] = "none"
    BY <1>4 DEF Enroll, NumbersInv, FreshEnrolments, Enrolling
  <2>2. QED
    BY <1>0, <1>1, <1>4, <2>1 DEF Enroll
<1>5. CASE Challenge(c)
  <2>1. call[c].factor \in Number
    BY <1>0, <1>5 DEF Challenge, LocalsFit
  <2>2. QED
    BY <1>1, <1>5, <2>1, VerifyGivesFactor DEF Challenge, Verify
<1>6. CASE DeleteFactor(c)
  <2>1. CASE level' = [s \in Session |-> "none"]
    BY <1>2, <2>1
  <2>2. CASE UNCHANGED level /\ \A f \in Number : factor[f] = "verified" => factor'[f] = "verified"
    BY <1>1, <2>2
  <2>3. QED
    BY <1>0, <1>6, <2>1, <2>2 DEF DeleteFactor, ServiceDeletes
<1>7. CASE UNCHANGED auth
  BY <1>1, <1>7
<1>8. QED
  BY <1>3, <1>4, <1>5, <1>6, <1>7
     DEF RequestStep, EnrollSteps, ChallengeSteps, RedeemSteps, ResetSteps, Die,
     ListUnverified, GetUser, StoreRecoveryCodes, FindFactor, RedeemRecoveryCode, Elevate,
     ListFactors, ClearCodes, WriteAudit

LEMMA NextSecondFactor == WellFormed /\ NumbersInv /\ SecondFactor /\ [Next]_vars => SecondFactor'
<1> SUFFICES ASSUME WellFormed, NumbersInv, SecondFactor, [Next]_vars PROVE SecondFactor'
  OBVIOUS
<1>1. ASSUME NEW c \in Calls, BeginSome(c) PROVE SecondFactor'
  <2>1. CASE UNCHANGED auth
    BY <2>1 DEF auth, SecondFactor, HasFactor
  <2>2. ASSUME ~UNCHANGED auth
        PROVE  \E f \in Number : factor' = [factor EXCEPT ![f] = "verified"]
    <3>1. PICK k \in Call : /\ LocalsFit(k, issued, nextCall', nextSession) /\ k.pc = "getUser"
                            /\ factor' = [factor EXCEPT ![k.factor] = "verified"]
      BY <1>1, <2>2, BeginStart
    <3>2. QED
      BY <3>1 DEF LocalsFit, Confirming
  <2>3. QED
    BY <2>1, <2>2, VerifyGivesFactor
<1>2. ASSUME NEW b \in Browsers, SignIn(b) PROVE SecondFactor'
  BY <1>2 DEF SignIn, SecondFactor, HasFactor, WellFormed, TypeOK
<1>3. ASSUME NEW s \in Session, EndSession(s) PROVE SecondFactor'
  BY <1>3 DEF EndSession, SecondFactor, HasFactor, WellFormed, TypeOK
<1>4. CASE UNCHANGED auth
  BY <1>4 DEF auth, SecondFactor, HasFactor
<1>5. QED
  BY <1>1, <1>2, <1>3, <1>4, StepSecondFactor, NextCases DEF vars, auth, DropCookie

\* Nobody gets past the gate while the operator has no verified factor,
\* whatever sessions and elevation cookies are left from before its reset.
THEOREM EntryTakesAFactor == Spec => []EntryNeedsFactor
<1>1. Init => SecondFactor
  BY DEF Init, SecondFactor
<1>2. WellFormed /\ SecondFactor => EntryNeedsFactor
  <2> SUFFICES ASSUME WellFormed, SecondFactor, NEW b \in Browsers, Gate(b) = "ok"
               PROVE  HasFactor
    BY DEF EntryNeedsFactor
  <2>1. holds[b] \in Session
    BY DEF Gate, Live, WellFormed, TypeOK
  <2>2. QED
    BY <2>1 DEF Gate, SecondFactor
<1>3. QED
  BY <1>1, <1>2, InitWellFormed, NextWellFormed, InitNumbers, NextNumbers, NextSecondFactor,
     PTL DEF Spec

-----------------------------------------------------------------------------
(* Recovery codes and elevations.                                           *)

\* A code that was redeemed is never live again.
SpentInv == \A x \in spent : x[1] \notin codes

LEMMA StepSpent ==
    ASSUME WellFormed, NumbersInv, SpentInv, CodeOpensOneSession,
           NEW c \in Calls, RequestStep(c) \/ Die(c)
    PROVE  SpentInv' /\ CodeOpensOneSession'
<1>1. CASE RedeemRecoveryCode(c)
  <2>1. codes' = codes \ {call[c].code}
    BY <1>1 DEF RedeemRecoveryCode
  <2>2. CASE spent' = spent
    BY <2>1, <2>2 DEF SpentInv, CodeOpensOneSession
  <2>3. CASE call[c].code \in codes /\ Spend(c)
    <3>1. spent' = spent \cup {<<call[c].code, call[c].session>>}
      BY <2>3 DEF Spend
    <3>2. \A x \in spent : x[1] # call[c].code
      BY <2>3 DEF SpentInv
    <3>3. SpentInv'
      BY <2>1, <3>1 DEF SpentInv
    <3>4. CodeOpensOneSession'
      BY <3>1, <3>2 DEF CodeOpensOneSession
    <3>5. QED
      BY <3>3, <3>4
  <2>4. QED
    BY <1>1, <2>2, <2>3 DEF RedeemRecoveryCode
<1>2. CASE ~RedeemRecoveryCode(c)
  <2>1. spent' = spent
    BY <1>2 DEF ghosts, RequestStep, EnrollSteps, ChallengeSteps, RedeemSteps, ResetSteps, Die,
       ListUnverified, Unenroll, Enroll, GetUser, StoreRecoveryCodes, FindFactor, Challenge,
       Elevate, ListFactors, DeleteFactor, ClearCodes, WriteAudit
  <2>2. CASE codes' \subseteq codes
    BY <2>1, <2>2 DEF SpentInv, CodeOpensOneSession
  <2>3. CASE StoreRecoveryCodes(c)
    <3>1. \A k \in codes' : k.batch = call[c].number
      BY <2>3 DEF StoreRecoveryCodes, CodesOf
    <3>2. \A k \in issued : k.batch # call[c].number
      BY <2>3 DEF StoreRecoveryCodes, NumbersInv, FreshBatches, Confirming
    <3>3. \A x \in spent : x[1] \in issued
      BY DEF WellFormed, TypeOK
    <3>4. QED
      BY <2>1, <3>1, <3>2, <3>3 DEF SpentInv, CodeOpensOneSession
  <2>4. QED
    BY <2>2, <2>3, IssuedSteps
<1>3. QED
  BY <1>1, <1>2

LEMMA NextSpent ==
    WellFormed /\ NumbersInv /\ SpentInv /\ CodeOpensOneSession /\ [Next]_vars
        => SpentInv' /\ CodeOpensOneSession'
<1> SUFFICES ASSUME WellFormed, NumbersInv, SpentInv, CodeOpensOneSession, [Next]_vars
             PROVE  SpentInv' /\ CodeOpensOneSession'
  OBVIOUS
<1>1. CASE UNCHANGED <<codes, spent>>
  BY <1>1 DEF SpentInv, CodeOpensOneSession
<1>2. QED
  BY <1>1, BeginStart, StepSpent, EnvironmentWellFormed, NextCases DEF vars, tables, ghosts

\* A recovery code opens one session and no other, however many requests
\* redeem it at the same time and however often codes are stored anew.
THEOREM CodesOpenOneSession == Spec => []CodeOpensOneSession
<1>1. Init => SpentInv /\ CodeOpensOneSession
  BY DEF Init, SpentInv, CodeOpensOneSession
<1>2. QED
  BY <1>1, InitWellFormed, NextWellFormed, InitNumbers, NextNumbers, NextSpent, PTL DEF Spec

\* A cookie, and a request on its way to set one, has a redeemed code.
CookiesEarned ==
    /\ \A b \in Browsers : cookie[b] # None => \E x \in spent : x[2] = cookie[b]
    /\ \A c \in Calls : call[c].pc = "elevate" => \E x \in spent : x[2] = call[c].session

LEMMA StepCookies ==
    ASSUME WellFormed, CookiesEarned, NEW c \in Calls, RequestStep(c) \/ Die(c)
    PROVE  CookiesEarned'
<1>1. PICK l \in Call : Continue(c, l) /\ GoesOn(call[c], l)
  BY StepGoesOn
<1>2. call'[c] = l /\ \A d \in Calls \ {c} : call'[d] = call[d]
  BY <1>1, ContinueDoes
<1>3. l.pc = "elevate" => call[c].pc = "redeem" /\ l.session = call[c].session /\ l # Idle
  BY <1>1, IdleType DEF GoesOn, Follows
<1>4. spent \subseteq spent'
  BY DEF ghosts, RequestStep, EnrollSteps, ChallengeSteps, RedeemSteps, ResetSteps, Die,
     ListUnverified, Unenroll, Enroll, GetUser, StoreRecoveryCodes, FindFactor, Challenge,
     RedeemRecoveryCode, Spend, Elevate, ListFactors, DeleteFactor, ClearCodes, WriteAudit
<1>5. ASSUME l.pc = "elevate" PROVE \E x \in spent' : x[2] = call[c].session
  <2>1. ~Finish(c)
    BY <1>2, <1>3, <1>5, ContinueDoes, IdleType DEF Finish
  <2>2. RedeemRecoveryCode(c)
    BY <1>3, <1>5, <2>1 DEF RequestStep, EnrollSteps, ChallengeSteps, RedeemSteps, ResetSteps, Die,
       ListUnverified, Unenroll, Enroll, GetUser, StoreRecoveryCodes, FindFactor, Challenge,
       Elevate, ListFactors, DeleteFactor, ClearCodes, WriteAudit
  <2>3. <<call[c].code, call[c].session>> \in spent'
    BY <2>1, <2>2 DEF RedeemRecoveryCode, Spend
  <2>4. QED
    BY <2>3
<1>6. ASSUME NEW b \in Browsers, cookie'[b] # None PROVE \E x \in spent' : x[2] = cookie'[b]
  <2>1. CASE cookie'[b] = cookie[b]
    BY <1>4, <1>6, <2>1 DEF CookiesEarned
  <2>2. CASE Elevate(c)
    BY <1>4, <1>6, <2>2 DEF Elevate, CookiesEarned, WellFormed, TypeOK
  <2>3. QED
    BY <2>1, <2>2 DEF browser, RequestStep, EnrollSteps, ChallengeSteps, RedeemSteps, ResetSteps,
       Die, ListUnverified, Unenroll, Enroll, GetUser, StoreRecoveryCodes, FindFactor, Challenge,
       RedeemRecoveryCode, ListFactors, DeleteFactor, ClearCodes, WriteAudit
<1>7. ASSUME NEW d \in Calls, call'[d].pc = "elevate"
      PROVE  \E x \in spent' : x[2] = call'[d].session
  BY <1>2, <1>3, <1>4, <1>5, <1>7 DEF CookiesEarned
<1>8. QED
  BY <1>6, <1>7 DEF CookiesEarned

LEMMA NextCookies == WellFormed /\ CookiesEarned /\ [Next]_vars => CookiesEarned'
<1> SUFFICES ASSUME WellFormed, CookiesEarned, [Next]_vars PROVE CookiesEarned'
  OBVIOUS
<1>1. ASSUME NEW c \in Calls, BeginSome(c) PROVE CookiesEarned'
  <2>1. PICK k \in Call : Continue(c, k) /\ k.pc # "elevate"
    BY <1>1, BeginStart
  <2>2. call'[c] = k /\ \A d \in Calls \ {c} : call'[d] = call[d]
    BY <2>1, ContinueDoes
  <2>3. UNCHANGED <<cookie, spent>>
    BY <1>1, BeginStart DEF browser, ghosts
  <2>4. QED
    BY <2>1, <2>2, <2>3 DEF CookiesEarned
<1>2. ASSUME UNCHANGED <<call, spent>>,
             \A b \in Browsers : cookie'[b] \in {cookie[b], None}
      PROVE  CookiesEarned'
  BY <1>2 DEF CookiesEarned
<1>3. CASE \/ \E b \in Browsers : SignIn(b) \/ DropCookie(b)
           \/ \E s \in Session : EndSession(s)
  BY <1>2, <1>3 DEF SignIn, DropCookie, EndSession, browser, ghosts, WellFormed, TypeOK
<1>4. CASE UNCHANGED vars
  BY <1>2, <1>4 DEF vars, browser, ghosts
<1>5. QED
  BY <1>1, <1>3, <1>4, StepCookies, NextCases

\* Whoever is past the gate at aal1 redeemed a recovery code in the session he
\* is in: the cookie of one session is worth nothing in another.
THEOREM ElevationsAreEarned == Spec => []ElevationIsEarned
<1>1. Init => CookiesEarned
  BY DEF Init, CookiesEarned, Idle
<1>2. CookiesEarned => ElevationIsEarned
  BY DEF CookiesEarned, ElevationIsEarned, InByCode, Gate, Elevated
<1>3. QED
  BY <1>1, <1>2, InitWellFormed, NextWellFormed, NextCookies, PTL DEF Spec

-----------------------------------------------------------------------------
(* Codes and elevations after a reset.                                      *)

\* What is observed is never forgotten.
LEMMA GhostsGrow ==
    ASSUME NEW c \in Calls, RequestStep(c) \/ Die(c)
    PROVE  /\ unenrolled \subseteq unenrolled' /\ bare \subseteq bare'
           /\ late \subseteq late' /\ torn \subseteq torn'
BY DEF ghosts, RequestStep, EnrollSteps, ChallengeSteps, RedeemSteps, ResetSteps, Die,
   ListUnverified, Unenroll, Enroll, GetUser, StoreRecoveryCodes, FindFactor, Challenge,
   RedeemRecoveryCode, Spend, Elevate, ListFactors, DeleteFactor, ServiceDeletes, ClearCodes,
   WriteAudit

\* Who deleted a factor is settled: it is deleted once.
LEMMA DeletionSettled ==
    ASSUME WellFormed, NumbersInv, NEW c \in Calls, RequestStep(c) \/ Die(c),
           NEW f \in Number, deletedBy[f] # None
    PROVE  deletedBy'[f] = deletedBy[f]
<1>1. factor[f] = "deleted"
  BY DEF NumbersInv, DeletionsKnown
<1>2. FactorStep(c, f)
  BY FactorSteps
<1>3. QED
  BY <1>1, <1>2 DEF FactorStep, Exists

\* A reset that has deleted a factor goes on with the rest of its work.
LEMMA DeletionGoesOn ==
    ASSUME WellFormed, NEW c \in Calls, DeleteFactor(c)
    PROVE  \/ call'[c].pc \in {"delete", "clear"} /\ call'[c].number = call[c].number
           \/ call[c].number \in torn' /\ UNCHANGED <<factor, deletedBy>>
<1>1. call[c] \in Call /\ \A f \in call[c].todo : f \in Number
  BY DEF WellFormed, TypeOK, Call
<1>2. CASE \E f \in call[c].todo : ServiceDeletes(c, f)
  <2>1. PICK f \in Number : Loop(c, call[c], call[c].todo \ {f}, "delete", "clear")
    BY <1>1, <1>2 DEF ServiceDeletes
  <2>2. call[c].todo \ {f} \in SUBSET Number /\ call[c].pc = "delete"
    BY <1>1 DEF DeleteFactor
  <2>3. PICK l \in Call : /\ Continue(c, l) /\ l.number = call[c].number
                          /\ l.pc \in {"delete", "clear"}
    BY <1>1, <2>1, <2>2, LoopDoes DEF Follows
  <2>4. QED
    BY <2>3, ContinueDoes
<1>3. CASE ~\E f \in call[c].todo : ServiceDeletes(c, f)
  BY <1>3 DEF DeleteFactor, auth
<1>4. QED
  BY <1>2, <1>3

\* Where a request at the end of a reset goes, if the codes stay.
LEMMA ResetGoesOn ==
    ASSUME WellFormed, NEW c \in Calls, RequestStep(c) \/ Die(c),
           call[c].pc \in {"delete", "clear"}, codes' # {}
    PROVE  \/ call'[c].pc \in {"delete", "clear"} /\ call'[c].number = call[c].number
           \/ call[c].number \in torn'
<1>1. CASE Die(c)
  BY <1>1 DEF Die
<1>2. CASE DeleteFactor(c)
  BY <1>2, DeletionGoesOn
<1>3. CASE ClearCodes(c)
  BY <1>3 DEF ClearCodes
<1>4. QED
  BY <1>1, <1>2, <1>3 DEF RequestStep, EnrollSteps, ChallengeSteps, RedeemSteps, ResetSteps,
     ListUnverified, Unenroll, Enroll, GetUser, StoreRecoveryCodes, FindFactor, Challenge,
     RedeemRecoveryCode, Elevate, ListFactors, WriteAudit

\* Why code k is live though its factor is not verified.
Explained(k) ==
    \/ deletedBy[k.factor] \in torn
    \/ k.factor \in unenrolled
    \/ k \in late
    \/ \E c \in Calls : call[c].number = deletedBy[k.factor] /\ call[c].pc \in {"delete", "clear"}

LEMMA ExplanationHolds ==
    ASSUME WellFormed, NumbersInv, NEW c \in Calls, RequestStep(c) \/ Die(c),
           codes' # {}, NEW k \in Code, Explained(k)
    PROVE  Explained(k)'
<1>1. k.factor \in Number
  BY DEF Code
<1>2. CASE k.factor \in unenrolled \/ k \in late
  BY <1>2, GhostsGrow DEF Explained
<1>3. CASE deletedBy[k.factor] \in torn
  <2>1. deletedBy[k.factor] # None
    BY <1>3, NumberType DEF WellFormed, TypeOK
  <2>2. deletedBy'[k.factor] = deletedBy[k.factor]
    BY <1>1, <2>1, DeletionSettled
  <2>3. QED
    BY <1>3, <2>2, GhostsGrow DEF Explained
<1>4. ASSUME NEW d \in Calls, call[d].number = deletedBy[k.factor],
             call[d].pc \in {"delete", "clear"}
      PROVE  Explained(k)'
  <2>1. deletedBy[k.factor] # None
    BY <1>4, NumberType DEF WellFormed, RequestLocals, LocalsFit
  <2>2. deletedBy'[k.factor] = deletedBy[k.factor]
    BY <1>1, <2>1, DeletionSettled
  <2>3. CASE d = c
    BY <1>4, <2>2, <2>3, ResetGoesOn DEF Explained
  <2>4. CASE d # c
    <3>1. PICK l \in Call : Continue(c, l)
      BY StepGoesOn
    <3>2. call'[d] = call[d]
      BY <2>4, <3>1, ContinueDoes
    <3>3. QED
      BY <1>4, <2>2, <3>2 DEF Explained
  <2>5. QED
    BY <2>3, <2>4
<1>5. QED
  BY <1>2, <1>3, <1>4 DEF Explained

LEMMA StepStale ==
    ASSUME WellFormed, NumbersInv, StaleCodesAreExplained,
           NEW c \in Calls, RequestStep(c) \/ Die(c)
    PROVE  StaleCodesAreExplained'
<1>1. ASSUME NEW k \in codes', factor'[k.factor] # "verified" PROVE Explained(k)'
  <2>1. k \in Code /\ k.factor \in Number
    BY <1>1, StepTypes DEF Code
  <2>2. FactorStep(c, k.factor)
    BY <2>1, FactorSteps
  <2>3. CASE k \in codes /\ factor[k.factor] # "verified"
    BY <1>1, <2>1, <2>3, ExplanationHolds DEF StaleCodesAreExplained, Explained
  <2>4. CASE k \in codes /\ factor[k.factor] = "verified"
    <3>1. CASE k.factor \in unenrolled'
      BY <3>1 DEF Explained
    <3>2. CASE call[c].pc = "delete" /\ factor'[k.factor] = "deleted"
               /\ deletedBy'[k.factor] = call[c].number
      <4>1. DeleteFactor(c)
        BY <2>4, <3>2 DEF RequestStep, EnrollSteps, ChallengeSteps, RedeemSteps, ResetSteps, Die,
           ListUnverified, Unenroll, Enroll, GetUser, StoreRecoveryCodes, FindFactor, Challenge,
           RedeemRecoveryCode, Elevate, ListFactors, ClearCodes, WriteAudit, auth
      <4>2. QED
        BY <3>2, <4>1, DeletionGoesOn DEF Explained
    <3>3. ~(call[c].pc = "enroll" /\ k.factor = call[c].number)
      BY <2>4 DEF NumbersInv, FreshEnrolments, Enrolling
    <3>4. QED
      BY <1>1, <2>2, <2>4, <3>1, <3>2, <3>3 DEF FactorStep
  <2>5. CASE k \notin codes
    <3>1. StoreRecoveryCodes(c)
      BY <1>1, <2>5, IssuedSteps
    <3>2. k \in CodesOf(call[c].factor, call[c].number) /\ factor' = factor
      BY <1>1, <3>1 DEF StoreRecoveryCodes, auth
    <3>3. k.factor = call[c].factor
      BY <3>2 DEF CodesOf
    <3>4. k \in late'
      BY <1>1, <3>1, <3>2, <3>3 DEF StoreRecoveryCodes
    <3>5. QED
      BY <3>4 DEF Explained
  <2>6. QED
    BY <2>3, <2>4, <2>5
<1>2. QED
  BY <1>1 DEF StaleCodesAreExplained, Explained

\* A begin verifies factors at most, and its request was idle.
LEMMA BeginDoes ==
    ASSUME WellFormed, NEW c \in Calls, BeginSome(c)
    PROVE  /\ UNCHANGED <<cookie, holds, codes, issued, audit, nextSession, ghosts>>
           /\ \A f \in Number : factor'[f] = factor[f] \/ factor'[f] = "verified"
           /\ \A d \in Calls : call[d].pc # "idle" => call'[d] = call[d]
           /\ \A s \in Session : level'[s] # "none" => level[s] # "none"
<1>1. PICK k \in Call : Continue(c, k)
  BY BeginStart
<1>2. call[c].pc = "idle" /\ UNCHANGED <<browser, tables, nextSession, ghosts>>
  BY BeginStart
<1>3. \A d \in Calls : call[d].pc # "idle" => call'[d] = call[d]
  BY <1>1, <1>2, ContinueDoes
<1>4. CASE UNCHANGED auth
  BY <1>2, <1>3, <1>4 DEF auth, browser, tables
<1>5. ASSUME NEW j \in Call, factor' = [factor EXCEPT ![j.factor] = "verified"],
             level' = [level EXCEPT ![j.session] = "aal2"], Live(j.session)
      PROVE  /\ \A f \in Number : factor'[f] = factor[f] \/ factor'[f] = "verified"
             /\ \A s \in Session : level'[s] # "none" => level[s] # "none"
  BY <1>5 DEF WellFormed, TypeOK, Live
<1>6. QED
  BY <1>2, <1>3, <1>4, <1>5, BeginStart DEF browser, tables

LEMMA NextStale ==
    WellFormed /\ NumbersInv /\ StaleCodesAreExplained /\ [Next]_vars => StaleCodesAreExplained'
<1> SUFFICES ASSUME WellFormed, NumbersInv, StaleCodesAreExplained, [Next]_vars
             PROVE  StaleCodesAreExplained'
  OBVIOUS
<1>1. ASSUME NEW c \in Calls, BeginSome(c) PROVE StaleCodesAreExplained'
  <2>1. \A k \in codes : k.factor \in Number
    BY DEF WellFormed, TypeOK, Code
  <2>2. UNCHANGED <<codes, deletedBy, unenrolled, late, torn>>
    BY <1>1, BeginDoes DEF ghosts
  <2>3. \A k \in codes : factor'[k.factor] # "verified" => factor[k.factor] # "verified"
    BY <1>1, <2>1, BeginDoes
  <2>4. \A d \in Calls : call[d].pc # "idle" => call'[d] = call[d]
    BY <1>1, BeginDoes
  <2>5. QED
    BY <2>2, <2>3, <2>4 DEF StaleCodesAreExplained
<1>2. CASE UNCHANGED <<factor, codes, call, deletedBy, unenrolled, late, torn>>
  BY <1>2 DEF StaleCodesAreExplained
<1>3. QED
  BY <1>1, <1>2, StepStale, EnvironmentWellFormed, NextCases DEF vars, auth, tables, ghosts

\* A recovery code is live without its factor only while the reset that
\* deleted the factor is on its way to the codes, or after one of three things
\* went wrong: that reset failed, the enrolment page deleted a factor verified
\* since it was listed, or codes were stored after their factor was deleted.
THEOREM StaleCodesExplained == Spec => []StaleCodesAreExplained
<1>1. Init => StaleCodesAreExplained
  <2> SUFFICES ASSUME Init, NEW k \in codes PROVE factor[k.factor] = "verified"
    BY DEF StaleCodesAreExplained
  <2>1. k.factor = 1 /\ factor = [f \in Number |-> IF f = 1 THEN "verified" ELSE "none"]
    BY DEF Init, CodesOf
  <2>2. 1 \in Number
    BY AdminMfaAssumption DEF Number
  <2>3. QED
    BY <2>1, <2>2
<1>2. QED
  BY <1>1, InitWellFormed, NextWellFormed, InitNumbers, NextNumbers, NextStale, PTL DEF Spec

\* A redemption in a session still live: its code's factor is still verified,
\* or the factor was gone already or deleted by an enrolment page.
OpenSessions ==
    \A x \in spent : /\ x[2] < nextSession
                     /\ level[x[2]] # "none" => \/ factor[x[1].factor] = "verified"
                                                \/ x[1].factor \in unenrolled
                                                \/ x[1] \in late

\* A request never brings a session back to life.
LEMMA SessionsStayEnded ==
    ASSUME WellFormed, NEW c \in Calls, RequestStep(c) \/ Die(c),
           NEW s \in Session, level'[s] # "none"
    PROVE  level[s] # "none"
<1>1. level \in [Session -> {"none", "aal1", "aal2"}]
  BY DEF WellFormed, TypeOK
<1>2. CASE Unenroll(c)
  BY <1>1, <1>2 DEF Unenroll, auth
<1>3. CASE Challenge(c)
  BY <1>1, <1>3 DEF Challenge, Verify, Live, auth
<1>4. CASE DeleteFactor(c)
  BY <1>1, <1>4 DEF DeleteFactor, ServiceDeletes, auth
<1>5. CASE UNCHANGED level
  BY <1>5
<1>6. QED
  BY <1>2, <1>3, <1>4, <1>5
     DEF auth, RequestStep, EnrollSteps, ChallengeSteps, RedeemSteps, ResetSteps, Die,
     ListUnverified, Enroll, GetUser, StoreRecoveryCodes, FindFactor, RedeemRecoveryCode, Elevate,
     ListFactors, ClearCodes, WriteAudit

LEMMA StepOpenSessions ==
    ASSUME WellFormed, NumbersInv, OpenSessions, NEW c \in Calls, RequestStep(c) \/ Die(c)
    PROVE  OpenSessions'
<1>1. \A x \in spent' : x[1] \in Code /\ x[1].factor \in Number /\ x[2] \in Session
  BY StepTypes DEF Code
<1>2. nextSession' = nextSession
  BY StepTypes
<1>3. ASSUME NEW x \in spent, level'[x[2]] # "none", x \in spent'
      PROVE  factor'[x[1].factor] = "verified" \/ x[1].factor \in unenrolled' \/ x[1] \in late'
  <2>1. level[x[2]] # "none"
    BY <1>1, <1>3, SessionsStayEnded
  <2>2. CASE x[1].factor \in unenrolled \/ x[1] \in late
    BY <2>2, GhostsGrow
  <2>3. CASE factor[x[1].factor] = "verified"
    <3>1. FactorStep(c, x[1].factor)
      BY <1>1, <1>3, FactorSteps
    <3>2. ~(call[c].pc = "enroll" /\ x[1].factor = call[c].number)
      BY <2>3 DEF NumbersInv, FreshEnrolments, Enrolling
    <3>3. level' # [s \in Session |-> "none"]
      BY <1>1, <1>3
    <3>4. QED
      BY <2>3, <3>1, <3>2, <3>3 DEF FactorStep
  <2>4. QED
    BY <2>1, <2>2, <2>3 DEF OpenSessions
<1>4. CASE spent' = spent
  BY <1>2, <1>3, <1>4 DEF OpenSessions
<1>5. CASE spent' # spent
  <2>1. RedeemRecoveryCode(c) /\ Spend(c)
    BY <1>5 DEF ghosts, RequestStep, EnrollSteps, ChallengeSteps, RedeemSteps, ResetSteps, Die,
       ListUnverified, Unenroll, Enroll, GetUser, StoreRecoveryCodes, FindFactor, Challenge,
       RedeemRecoveryCode, Elevate, ListFactors, DeleteFactor, ClearCodes, WriteAudit
  <2> DEFINE y == <<call[c].code, call[c].session>>
  <2>2. spent' = spent \cup {y} /\ factor' = factor
    BY <2>1 DEF Spend, RedeemRecoveryCode, auth
  <2>3. y[2] < nextSession
    BY <2>1 DEF RedeemRecoveryCode, WellFormed, RequestLocals, LocalsFit, FromBrowser, Redeeming
  <2>4. factor'[y[1].factor] = "verified" \/ y[1] \in late'
    BY <2>1, <2>2 DEF Spend
  <2>5. QED
    BY <1>2, <1>3, <2>2, <2>3, <2>4 DEF OpenSessions
<1>6. QED
  BY <1>4, <1>5

LEMMA NextOpenSessions == WellFormed /\ NumbersInv /\ OpenSessions /\ [Next]_vars => OpenSessions'
<1> SUFFICES ASSUME WellFormed, NumbersInv, OpenSessions, [Next]_vars PROVE OpenSessions'
  OBVIOUS
<1>1. \A x \in spent : x[1].factor \in Number /\ x[2] \in Session /\ x[2] \in Nat
  BY NumberType DEF WellFormed, TypeOK, Code
<1>2. nextSession \in Nat
  BY AdminMfaAssumption DEF WellFormed, TypeOK
<1>3. ASSUME NEW c \in Calls, BeginSome(c) PROVE OpenSessions'
  <2>1. UNCHANGED <<nextSession, spent, unenrolled, late>>
    BY <1>3, BeginDoes DEF ghosts
  <2>2. \A x \in spent : /\ level'[x[2]] # "none" => level[x[2]] # "none"
                         /\ factor[x[1].factor] = "verified" => factor'[x[1].factor] = "verified"
    BY <1>1, <1>3, BeginDoes
  <2>3. QED
    BY <2>1, <2>2 DEF OpenSessions
<1>4. ASSUME NEW b \in Browsers, SignIn(b) PROVE OpenSessions'
  <2>1. /\ nextSession' = nextSession + 1 /\ UNCHANGED <<factor, spent, unenrolled, late>>
        /\ \A s \in Session : s # nextSession => level'[s] = level[s]
    BY <1>4 DEF SignIn, ghosts, WellFormed, TypeOK
  <2>2. \A x \in spent : x[2] < nextSession + 1 /\ level'[x[2]] = level[x[2]]
    BY <1>1, <1>2, <2>1 DEF OpenSessions
  <2>3. QED
    BY <2>1, <2>2 DEF OpenSessions
<1>5. ASSUME NEW s \in Session, EndSession(s) PROVE OpenSessions'
  BY <1>1, <1>5 DEF EndSession, ghosts, OpenSessions, WellFormed, TypeOK
<1>6. CASE UNCHANGED <<factor, level, nextSession, spent, unenrolled, late>>
  BY <1>6 DEF OpenSessions
<1>7. QED
  BY <1>3, <1>4, <1>5, <1>6, StepOpenSessions, NextCases DEF vars, auth, ghosts, DropCookie

\* A reset ends the elevations of whom it is meant to throw out: nobody is in
\* by a code of a deleted factor unless he redeemed it after the deletion, or
\* an enrolment page deleted the factor.
THEOREM ResetsEndElevations == Spec => []ResetEndsElevations
<1>1. Init => OpenSessions
  BY DEF Init, OpenSessions
<1>2. OpenSessions => ResetEndsElevations
  <2> SUFFICES ASSUME OpenSessions, NEW b \in Browsers, NEW x \in spent,
                      InByCode(b), x[2] = cookie[b]
               PROVE  factor[x[1].factor] = "verified" \/ x[1].factor \in unenrolled \/ x[1] \in late
    BY DEF ResetEndsElevations
  <2>1. cookie[b] = holds[b] /\ level[holds[b]] = "aal1"
    BY DEF InByCode, Gate, Elevated
  <2>2. QED
    BY <2>1 DEF OpenSessions
<1>3. QED
  BY <1>1, <1>2, InitWellFormed, NextWellFormed, InitNumbers, NextNumbers, NextOpenSessions,
     PTL DEF Spec

-----------------------------------------------------------------------------
(* Factors and their codes.                                                 *)

\* Factor f has codes, will have them, or is known to have none.
Provided(f) == \/ \E k \in issued : k.factor = f
               \/ f \in bare
               \/ \E c \in Calls : call[c].factor = f /\ call[c].pc \in Confirming

LEMMA StoredHasCodes ==
    ASSUME WellFormed, NEW c \in Calls, StoreRecoveryCodes(c)
    PROVE  \E k \in issued' : k.factor = call[c].factor
<1> DEFINE k == [factor |-> call[c].factor, batch |-> call[c].number, index |-> 1]
<1>1. 1 \in 1 .. CodeCount
  BY AdminMfaAssumption
<1>2. k \in CodesOf(call[c].factor, call[c].number)
  BY <1>1 DEF CodesOf
<1>3. k \in issued'
  BY <1>2 DEF StoreRecoveryCodes
<1>4. QED
  BY <1>3

\* A confirmation that ends stored its codes, or left the factor bare.
LEMMA ConfirmationEnds ==
    ASSUME WellFormed, NEW c \in Calls, RequestStep(c) \/ Die(c), call[c].pc \in Confirming
    PROVE  \/ call'[c].pc \in Confirming /\ call'[c].factor = call[c].factor
           \/ call[c].factor \in bare'
           \/ \E k \in issued' : k.factor = call[c].factor
<1>1. CASE GetUser(c)
  <2>1. CASE GoTo(c, "store")
    <3>1. PICK l \in Call : Continue(c, l) /\ GoesOn(call[c], l) /\ l.pc = "store"
      BY <1>1, <2>1, GoToDoes DEF GetUser, Step, Follows
    <3>2. l.factor = call[c].factor
      BY <1>1, <3>1, IdleType DEF GetUser, GoesOn
    <3>3. QED
      BY <3>1, <3>2, ContinueDoes DEF Confirming
  <2>2. QED
    BY <1>1, <2>1 DEF GetUser
<1>2. CASE StoreRecoveryCodes(c)
  BY <1>2, StoredHasCodes
<1>3. CASE Die(c)
  BY <1>3 DEF Die, Confirming
<1>4. QED
  BY <1>1, <1>2, <1>3 DEF Confirming, RequestStep, EnrollSteps, ChallengeSteps, RedeemSteps,
     ResetSteps, ListUnverified, Unenroll, Enroll, FindFactor, Challenge, RedeemRecoveryCode,
     Elevate, ListFactors, DeleteFactor, ClearCodes, WriteAudit

LEMMA StepProvided ==
    ASSUME WellFormed, FactorCameWithCodes, NEW c \in Calls, RequestStep(c) \/ Die(c)
    PROVE  FactorCameWithCodes'
<1>1. ASSUME NEW f \in Number, factor'[f] = "verified" PROVE Provided(f)'
  <2>1. CASE factor[f] = "verified"
    <3>1. Provided(f)
      BY <2>1 DEF FactorCameWithCodes, Provided, Confirming
    <3>2. CASE (\E k \in issued : k.factor = f) \/ f \in bare
      BY <3>2, StepTypes, GhostsGrow DEF Provided
    <3>3. ASSUME NEW d \in Calls, call[d].factor = f, call[d].pc \in Confirming
          PROVE  Provided(f)'
      <4>1. CASE d = c
        BY <3>3, <4>1, ConfirmationEnds DEF Provided
      <4>2. CASE d # c
        <5>1. PICK l \in Call : Continue(c, l)
          BY StepGoesOn
        <5>2. call'[d] = call[d]
          BY <4>2, <5>1, ContinueDoes
        <5>3. QED
          BY <3>3, <5>2 DEF Provided
      <4>3. QED
        BY <4>1, <4>2
    <3>4. QED
      BY <3>1, <3>2, <3>3 DEF Provided
  <2>2. CASE factor[f] # "verified"
    <3>1. call[c].pc = "form" /\ f = call[c].factor
      BY <1>1, <2>2, FactorSteps DEF FactorStep
    <3>2. Challenge(c)
      BY <1>1, <2>2, <3>1 DEF auth, RequestStep, EnrollSteps, ChallengeSteps, RedeemSteps,
         ResetSteps, Die, ListUnverified, Unenroll, Enroll, GetUser, StoreRecoveryCodes, FindFactor,
         RedeemRecoveryCode, Elevate, ListFactors, DeleteFactor, ClearCodes, WriteAudit
    <3>3. f \in bare'
      BY <1>1, <2>2, <3>1, <3>2 DEF Challenge, auth
    <3>4. QED
      BY <3>3 DEF Provided
  <2>3. QED
    BY <2>1, <2>2
<1>2. QED
  BY <1>1 DEF FactorCameWithCodes, Provided, Confirming

LEMMA NextProvided == WellFormed /\ FactorCameWithCodes /\ [Next]_vars => FactorCameWithCodes'
<1> SUFFICES ASSUME WellFormed, FactorCameWithCodes, [Next]_vars PROVE FactorCameWithCodes'
  OBVIOUS
<1>1. ASSUME NEW c \in Calls, BeginSome(c) PROVE FactorCameWithCodes'
  <2>1. ASSUME NEW f \in Number, factor'[f] = "verified" PROVE Provided(f)'
    <3>1. CASE factor[f] = "verified"
      <4>1. Provided(f)
        BY <3>1 DEF FactorCameWithCodes, Provided, Confirming
      <4>2. UNCHANGED <<issued, bare>>
        BY <1>1, BeginDoes DEF ghosts
      <4>3. \A d \in Calls : call[d].pc \in Confirming => call'[d] = call[d]
        BY <1>1, BeginDoes DEF Confirming
      <4>4. QED
        BY <4>1, <4>2, <4>3 DEF Provided
    <3>2. CASE factor[f] # "verified"
      <4>1. ~UNCHANGED auth
        BY <2>1, <3>2 DEF auth
      <4>2. PICK k \in Call : /\ Continue(c, k) /\ k.pc = "getUser"
                              /\ factor' = [factor EXCEPT ![k.factor] = "verified"]
        BY <1>1, <4>1, BeginStart
      <4>3. k.factor = f
        BY <2>1, <3>2, <4>2 DEF WellFormed, TypeOK
      <4>4. call'[c] = k
        BY <4>2, ContinueDoes
      <4>5. QED
        BY <4>2, <4>3, <4>4 DEF Provided, Confirming
    <3>3. QED
      BY <3>1, <3>2
  <2>2. QED
    BY <2>1 DEF FactorCameWithCodes, Provided, Confirming
<1>2. CASE UNCHANGED <<factor, issued, bare, call>>
  BY <1>2 DEF FactorCameWithCodes
<1>3. QED
  BY <1>1, <1>2, StepProvided, EnvironmentWellFormed, NextCases DEF vars, auth, tables, ghosts

\* A verified factor came with recovery codes, unless its confirmation is
\* about to store them or ended early, or the challenge form verified it.
THEOREM FactorsCameWithCodes == Spec => []FactorCameWithCodes
<1>1. Init => FactorCameWithCodes
  <2> SUFFICES ASSUME Init, NEW f \in Number, factor[f] = "verified"
               PROVE  \E k \in issued : k.factor = f
    BY DEF FactorCameWithCodes
  <2>1. f = 1 /\ issued = CodesOf(1, 1)
    BY DEF Init
  <2>2. [factor |-> 1, batch |-> 1, index |-> 1] \in CodesOf(1, 1)
    BY AdminMfaAssumption DEF CodesOf
  <2>3. QED
    BY <2>1, <2>2
<1>2. QED
  BY <1>1, InitWellFormed, NextWellFormed, NextProvided, PTL DEF Spec

-----------------------------------------------------------------------------
(* What a reset logs.                                                       *)

DeletedBy(n, by) == {f \in Number : by[f] = n}

\* A reset will have deleted what it counted.
CountFits(k, by) ==
    /\ k.pc = "listAll" => DeletedBy(k.number, by) = {}
    /\ k.pc \in {"delete", "clear", "audit"} =>
         k.count = Cardinality(k.todo) + Cardinality(DeletedBy(k.number, by))
    /\ k.pc \in {"clear", "audit"} => k.todo = {}

CountsFit == \A c \in Calls : CountFits(call[c], deletedBy)

\* A logged request is over.
LoggedAreOver == \A e \in audit : /\ e.number < nextCall
                                  /\ \A c \in Calls : call[c].pc # "idle" => call[c].number # e.number

CountsInv == CountsFit /\ LoggedAreOver /\ ResetCountsAreTrue

\* Other requests do not delete in the name of this one.
LEMMA DeletedByOthers ==
    ASSUME WellFormed, NumbersInv, NEW c \in Calls, RequestStep(c) \/ Die(c),
           NEW n \in Number, call[c].pc = "idle" \/ n # call[c].number
    PROVE  DeletedBy(n, deletedBy') = DeletedBy(n, deletedBy)
<1>1. ASSUME NEW f \in Number PROVE deletedBy'[f] = n <=> deletedBy[f] = n
  <2>1. CASE deletedBy'[f] = deletedBy[f]
    BY <2>1
  <2>2. CASE deletedBy'[f] # deletedBy[f]
    <3>1. deletedBy'[f] = call[c].number /\ call[c].pc # "idle"
      BY <2>2, FactorSteps DEF FactorStep
    <3>2. deletedBy[f] = None
      BY <2>2, DeletionSettled
    <3>3. QED
      BY <3>1, <3>2, NumberType
  <2>3. QED
    BY <2>1, <2>2
<1>2. QED
  BY <1>1 DEF DeletedBy

\* Deleting one more factor moves it from those to do to those done.
LEMMA DeletionCounts ==
    ASSUME WellFormed, NumbersInv, NEW c \in Calls, CountFits(call[c], deletedBy),
           NEW f \in call[c].todo, call[c].pc = "delete", ServiceDeletes(c, f)
    PROVE  CountFits(call'[c], deletedBy')
<1>1. /\ call[c] \in Call /\ f \in Number /\ call[c].todo \in SUBSET Number
      /\ call[c].todo \ {f} \in SUBSET Number /\ call[c].number \in Number
  BY DEF WellFormed, TypeOK, RequestLocals, LocalsFit, Call
<1>2. PICK l \in Call : /\ Continue(c, l)
                        /\ l.pc = IF call[c].todo \ {f} = {} THEN "clear" ELSE "delete"
                        /\ l.todo = call[c].todo \ {f}
                        /\ l.count = call[c].count /\ l.number = call[c].number
  BY <1>1, LoopDoes DEF ServiceDeletes, Follows
<1>3. call'[c] = l
  BY <1>2, ContinueDoes
<1>4. deletedBy[f] = None /\ deletedBy' = [deletedBy EXCEPT ![f] = call[c].number]
  BY <1>1 DEF ServiceDeletes, Exists, NumbersInv, DeletionsKnown
<1>5. /\ f \notin DeletedBy(call[c].number, deletedBy)
      /\ DeletedBy(call[c].number, deletedBy') = DeletedBy(call[c].number, deletedBy) \cup {f}
  BY <1>1, <1>4, NumberType DEF DeletedBy, WellFormed, TypeOK
<1>6. IsFiniteSet(DeletedBy(call[c].number, deletedBy)) /\ IsFiniteSet(call[c].todo)
  BY <1>1, FactorCount DEF DeletedBy
<1>7. Cardinality(DeletedBy(call[c].number, deletedBy')) = Cardinality(DeletedBy(call[c].number, deletedBy)) + 1
  BY <1>5, <1>6, FS_AddElement
<1>8. Cardinality(call[c].todo \ {f}) = Cardinality(call[c].todo) - 1
  BY <1>6, FS_RemoveElement
<1>9. /\ Cardinality(call[c].todo) \in Nat
      /\ Cardinality(DeletedBy(call[c].number, deletedBy)) \in Nat
  BY <1>6, FS_CardinalityType
<1>10. call[c].count = Cardinality(call[c].todo) + Cardinality(DeletedBy(call[c].number, deletedBy))
  BY DEF CountFits
<1>11. l.count = Cardinality(l.todo) + Cardinality(DeletedBy(l.number, deletedBy'))
  BY <1>2, <1>7, <1>8, <1>9, <1>10
<1>12. l.pc \in {"clear", "delete"} /\ (l.pc = "clear" => l.todo = {})
  BY <1>2
<1>13. CountFits(l, deletedBy')
  BY <1>11, <1>12 DEF CountFits
<1>14. QED
  BY <1>3, <1>13

LEMMA StepCountFits ==
    ASSUME WellFormed, NumbersInv, NEW c \in Calls, RequestStep(c) \/ Die(c), CountFits(call[c], deletedBy)
    PROVE  CountFits(call'[c], deletedBy')
<1>0. call[c] \in Call /\ (call[c].pc # "idle" => call[c].number \in Number)
  BY DEF WellFormed, TypeOK, RequestLocals, LocalsFit
<1>1. PICK l \in Call : Continue(c, l) /\ GoesOn(call[c], l)
  BY StepGoesOn
<1>2. call'[c] = l
  BY <1>1, ContinueDoes
<1>3. CASE l.pc \notin {"listAll", "delete", "clear", "audit"}
  BY <1>2, <1>3 DEF CountFits
<1>4. CASE call[c].pc = "delete" /\ l.pc \in {"listAll", "delete", "clear", "audit"}
  <2>1. DeleteFactor(c)
    BY <1>2, <1>4, <1>1, ContinueDoes, IdleType DEF RequestStep, EnrollSteps, ChallengeSteps,
       RedeemSteps, ResetSteps, ListUnverified, Unenroll, Enroll, GetUser, StoreRecoveryCodes,
       FindFactor, Challenge, RedeemRecoveryCode, Elevate, ListFactors, ClearCodes, WriteAudit,
       Die, Finish
  <2>2. PICK f \in call[c].todo : ServiceDeletes(c, f) \/ Finish(c)
    BY <2>1 DEF DeleteFactor
  <2>3. ~Finish(c)
    BY <1>2, <1>4, ContinueDoes, IdleType DEF Finish
  <2>4. QED
    BY <1>4, <2>2, <2>3, DeletionCounts
<1>5. CASE call[c].pc = "listAll" /\ l.pc \in {"delete", "clear"}
  <2>1. ListFactors(c)
    BY <1>2, <1>5, <1>1, ContinueDoes, IdleType DEF RequestStep, EnrollSteps, ChallengeSteps,
       RedeemSteps, ResetSteps, ListUnverified, Unenroll, Enroll, GetUser, StoreRecoveryCodes,
       FindFactor, Challenge, RedeemRecoveryCode, Elevate, DeleteFactor, ClearCodes, WriteAudit,
       Die, Finish
  <2> DEFINE all == {f \in Number : Exists(f)}
             k == [call[c] EXCEPT !.count = Cardinality(all)]
  <2>2. Cardinality(all) \in Nat /\ all \in SUBSET Number
    BY FactorCount
  <2>3. k \in Call /\ k.pc = "listAll" /\ k.count = Cardinality(all) /\ k.number = call[c].number
    BY <1>0, <1>5, <2>2 DEF Call
  <2>4. Loop(c, k, all, "delete", "clear") /\ deletedBy' = deletedBy
    BY <2>1 DEF ListFactors, ghosts
  <2> HIDE DEF k, all
  <2>5. PICK m \in Call : /\ Continue(c, m) /\ m.todo = all /\ m.count = Cardinality(all)
                          /\ m.number = call[c].number
                          /\ m.pc = IF all = {} THEN "clear" ELSE "delete"
    BY <2>2, <2>3, <2>4, LoopDoes DEF Follows
  <2>6. call'[c] = m
    BY <2>5, ContinueDoes
  <2>7. DeletedBy(m.number, deletedBy') = {}
    <3>1. DeletedBy(call[c].number, deletedBy) = {}
      BY <1>5 DEF CountFits
    <3>2. QED
      BY <2>4, <2>5, <3>1 DEF DeletedBy
  <2>8. m.count = Cardinality(m.todo) + Cardinality(DeletedBy(m.number, deletedBy'))
    BY <2>2, <2>5, <2>7, FS_EmptySet
  <2>9. QED
    BY <2>5, <2>6, <2>8 DEF CountFits
<1>6. CASE call[c].pc = "clear" /\ l.pc = "audit"
  <2>1. ClearCodes(c)
    BY <1>2, <1>6, <1>1, ContinueDoes, IdleType DEF RequestStep, EnrollSteps, ChallengeSteps,
       RedeemSteps, ResetSteps, ListUnverified, Unenroll, Enroll, GetUser, StoreRecoveryCodes,
       FindFactor, Challenge, RedeemRecoveryCode, Elevate, ListFactors, DeleteFactor, WriteAudit,
       Die, Finish
  <2>2. PICK m \in Call : /\ Continue(c, m) /\ GoesOn(call[c], m) /\ m.pc = "audit"
                          /\ m.todo = call[c].todo /\ m.count = call[c].count
    BY <2>1, GoToDoes DEF ClearCodes, Step, Follows
  <2>3. call'[c] = m /\ m.number = call[c].number
    BY <2>2, ContinueDoes, IdleType DEF GoesOn
  <2>4. DeletedBy(m.number, deletedBy') = DeletedBy(call[c].number, deletedBy)
    BY <2>1, <2>3 DEF ClearCodes, ghosts, DeletedBy
  <2>5. QED
    BY <1>6, <2>2, <2>3, <2>4 DEF CountFits
<1>7. QED
  BY <1>1, <1>3, <1>4, <1>5, <1>6, IdleType DEF GoesOn, Follows

LEMMA StepCounts ==
    ASSUME WellFormed, NumbersInv, CountsInv, NEW c \in Calls, RequestStep(c) \/ Die(c)
    PROVE  CountsInv'
<1>1. PICK l \in Call : Continue(c, l) /\ GoesOn(call[c], l)
  BY StepGoesOn
<1>2. call'[c] = l /\ \A d \in Calls \ {c} : call'[d] = call[d]
  BY <1>1, ContinueDoes
<1>3. l.pc # "idle" => call[c].pc # "idle" /\ l.number = call[c].number
  BY <1>1, IdleType DEF GoesOn, Follows
<1>4. /\ nextCall' = nextCall /\ nextCall \in Nat
      /\ \A d \in Calls : call[d].pc # "idle" => call[d].number \in Number /\ call[d].number < nextCall
  BY StepTypes, AdminMfaAssumption DEF WellFormed, TypeOK, RequestLocals, LocalsFit
<1>5. CountsFit'
  <2>1. ASSUME NEW d \in Calls, d # c PROVE CountFits(call'[d], deletedBy')
    <3>1. CASE call[d].pc = "idle"
      BY <1>2, <2>1, <3>1 DEF CountFits
    <3>2. CASE call[d].pc # "idle"
      <4>1. DeletedBy(call[d].number, deletedBy') = DeletedBy(call[d].number, deletedBy)
        BY <1>4, <2>1, <3>2, DeletedByOthers DEF NumbersInv, OwnNumbers
      <4>2. CountFits(call[d], deletedBy)
        BY DEF CountsInv, CountsFit
      <4>3. QED
        BY <1>2, <2>1, <4>1, <4>2 DEF CountFits, DeletedBy
    <3>3. QED
      BY <3>1, <3>2
  <2>2. CountFits(call'[c], deletedBy')
    BY StepCountFits DEF CountsInv, CountsFit
  <2>3. QED
    BY <2>1, <2>2 DEF CountsFit
<1>6. CASE ~WriteAudit(c)
  <2>1. audit' = audit
    BY <1>6 DEF tables, RequestStep, EnrollSteps, ChallengeSteps, RedeemSteps, ResetSteps, Die,
       ListUnverified, Unenroll, Enroll, GetUser, StoreRecoveryCodes, FindFactor, Challenge,
       RedeemRecoveryCode, Elevate, ListFactors, DeleteFactor, ClearCodes
  <2>2. LoggedAreOver'
    BY <1>2, <1>3, <1>4, <2>1 DEF CountsInv, LoggedAreOver
  <2>3. ASSUME NEW e \in audit PROVE e.count = Cardinality(DeletedBy(e.number, deletedBy'))
    <3>1. e.number \in Number
      BY DEF WellFormed, TypeOK, Entry
    <3>2. DeletedBy(e.number, deletedBy') = DeletedBy(e.number, deletedBy)
      BY <3>1, DeletedByOthers DEF CountsInv, LoggedAreOver
    <3>3. e.count = Cardinality(DeletedBy(e.number, deletedBy))
      BY DEF CountsInv, ResetCountsAreTrue, DeletedBy
    <3>4. QED
      BY <3>2, <3>3
  <2>4. ResetCountsAreTrue'
    BY <2>1, <2>3 DEF ResetCountsAreTrue, DeletedBy
  <2>5. QED
    BY <1>5, <2>2, <2>4 DEF CountsInv
<1>7. CASE WriteAudit(c)
  <2> DEFINE n == [number |-> call[c].number, count |-> call[c].count]
  <2>1. /\ audit' = audit \cup {n} /\ call[c].pc = "audit" /\ deletedBy' = deletedBy
    BY <1>7 DEF WriteAudit, ghosts
  <2>2. l.pc = "idle"
    BY <1>1, <1>2, <1>7, IdleType, ContinueDoes DEF WriteAudit, Finish
  <2>3. \A d \in Calls : call'[d].pc # "idle" => d # c /\ call'[d] = call[d]
                                                /\ call[d].number # call[c].number
    BY <1>2, <2>1, <2>2 DEF NumbersInv, OwnNumbers
  <2>4. LoggedAreOver'
    BY <1>4, <2>1, <2>3 DEF CountsInv, LoggedAreOver
  <2>5. call[c].count = Cardinality(DeletedBy(call[c].number, deletedBy))
    <3>1. Cardinality(DeletedBy(call[c].number, deletedBy)) \in Nat
      BY FactorCount DEF DeletedBy
    <3>2. call[c].todo = {} /\ call[c].count = Cardinality({}) + Cardinality(DeletedBy(call[c].number, deletedBy))
      BY <2>1 DEF CountsInv, CountsFit, CountFits
    <3>3. QED
      BY <3>1, <3>2, FS_EmptySet
  <2>6. ResetCountsAreTrue'
    BY <2>1, <2>5 DEF CountsInv, ResetCountsAreTrue, DeletedBy
  <2>7. QED
    BY <1>5, <2>4, <2>6 DEF CountsInv
<1>8. QED
  BY <1>6, <1>7

LEMMA NextCounts == WellFormed /\ NumbersInv /\ CountsInv /\ [Next]_vars => CountsInv'
<1> SUFFICES ASSUME WellFormed, NumbersInv, CountsInv, [Next]_vars PROVE CountsInv'
  OBVIOUS
<1>1. ASSUME NEW c \in Calls, BeginSome(c) PROVE CountsInv'
  <2>1. /\ nextCall \in Number /\ nextCall \in Nat /\ nextCall' = nextCall + 1
        /\ UNCHANGED <<audit, deletedBy>>
    BY <1>1, BeginStart, NumberType DEF tables, ghosts
  <2>2. PICK k \in Call : /\ Continue(c, k) /\ k.number = nextCall
                          /\ k.pc \notin {"delete", "clear", "audit"}
    BY <1>1, BeginStart
  <2>3. call'[c] = k /\ \A d \in Calls \ {c} : call'[d] = call[d]
    BY <2>2, ContinueDoes
  <2>4. DeletedBy(nextCall, deletedBy) = {}
    <3>1. \A f \in Number : deletedBy[f] # nextCall
      BY <2>1, NumberType DEF NumbersInv, DeletionsKnown
    <3>2. QED
      BY <3>1 DEF DeletedBy
  <2>5. CountsFit'
    BY <2>1, <2>2, <2>3, <2>4 DEF CountsInv, CountsFit, CountFits, DeletedBy
  <2>6. LoggedAreOver'
    <3>1. \A e \in audit : e.number \in Nat /\ e.number < nextCall
      BY NumberType DEF CountsInv, LoggedAreOver, WellFormed, TypeOK, Entry
    <3>2. QED
      BY <2>1, <2>2, <2>3, <3>1 DEF CountsInv, LoggedAreOver
  <2>7. ResetCountsAreTrue'
    BY <2>1 DEF CountsInv, ResetCountsAreTrue
  <2>8. QED
    BY <2>5, <2>6, <2>7 DEF CountsInv
<1>2. CASE UNCHANGED <<audit, call, nextCall, deletedBy>>
  BY <1>2 DEF CountsInv, CountsFit, CountFits, LoggedAreOver, ResetCountsAreTrue, DeletedBy
<1>3. QED
  BY <1>1, <1>2, StepCounts, EnvironmentWellFormed, NextCases DEF vars, tables, ghosts

\* An operator.mfa_reset entry tells how many factors its own request deleted,
\* also when peers reset the operator, or he enrols again, at the same time.
THEOREM ResetsLogTrueCounts == Spec => []ResetCountsAreTrue
<1>1. Init => CountsInv
  BY DEF Init, CountsInv, CountsFit, CountFits, LoggedAreOver, ResetCountsAreTrue, Idle
<1>2. CountsInv => ResetCountsAreTrue
  BY DEF CountsInv
<1>3. QED
  BY <1>1, <1>2, InitWellFormed, NextWellFormed, InitNumbers, NextNumbers, NextCounts, PTL DEF Spec

=============================================================================
