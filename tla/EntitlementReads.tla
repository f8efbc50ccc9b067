-------------------------- MODULE EntitlementReads --------------------------
(***************************************************************************)
(* What the application and the operator are shown of the ledger:           *)
(* entitlements.list(), listActiveComps() and the entitlements on the page  *)
(* of an organization, over every ledger that the writers of Entitlements   *)
(* can leave behind.                                                        *)
(***************************************************************************)
EXTENDS Entitlements, SequencesExt

NoPeriod == [key |-> "none"]

\* list() asks for the active rows in no order.  The pass below treats every
\* key by itself, so the orders of the rows of one key are all that matters.
listActiveEntitlementPeriods == {r \in ledger : Covers(r, clock)}
ActiveRows == listActiveEntitlementPeriods
Answers(k) == SetToSeqs({r \in ActiveRows : r.key = k})

\* Deviation: the later one wins.
KeepLast(current, p) == p

\* The period to keep of two for one key: a grant wins over another source.
Keep(current, p) ==
    IF p.source = "grant" /\ current.source # "grant" THEN p ELSE current

\* resolveActiveEntitlements: one period per key, in one pass over the rows.
Take(byKey, p) ==
    [byKey EXCEPT ![p.key] = IF @ = NoPeriod THEN p ELSE Keep(@, p)]

Resolve(periods) ==
    LET byKey[i \in 0 .. Len(periods)] ==
            IF i = 0 THEN [k \in Keys |-> NoPeriod]
            ELSE Take(byKey[i - 1], periods[i])
    IN  byKey[Len(periods)]

\* listActiveComps: the active granted rows of a plan as one Comp, from the
\* first start to the last expiry.
ActiveGrants(p) == {r \in ActiveRows : r.source = "grant" /\ r.plan = p}
Comp(p) ==
    [plan |-> p, keys |-> {r.key : r \in ActiveGrants(p)},
     starts |-> Min({r.starts : r \in ActiveGrants(p)}),
     expires |-> Max({r.expires : r \in ActiveGrants(p)})]
ActiveComps == {Comp(p) : p \in {q \in Plans : ActiveGrants(q) # {}}}

\* The page of an organization shows every active period, with where it is from.
entitlementSourceLabel(source) ==
    CASE source = "grant" -> "Comp" [] source = "billing" -> "Billing" [] OTHER -> "Other"
OrganizationEntitlements ==
    {[key |-> r.key, sourceLabel |-> entitlementSourceLabel(r.source)] :
        r \in listActiveEntitlementPeriods}

-----------------------------------------------------------------------------

\* Whatever order the rows come in, list() has one entry for exactly the keys
\* has() affirms, taken from an active period, and from a granted one exactly
\* when the page of the organization shows the key as a Comp (ADR 0007: the
\* Comp wins).
ListAnswersHas ==
    \A k \in Keys : \A s \in Answers(k) :
        LET entry == Resolve(s)[k]
        IN /\ entry # NoPeriod <=> Held(ledger, k, clock)
           /\ entry # NoPeriod => entry \in ActiveRows /\ entry.key = k
           /\ entry # NoPeriod =>
                  (entry.source = "grant" <=>
                   [key |-> k, sourceLabel |-> "Comp"] \in OrganizationEntitlements)

\* A Comp of a plan that no release has changed shows all of the plan's keys,
\* and every one of them is granted until the shown expiry if nobody revokes
\* it: grants and revocations, however they overlap, are all or nothing.
CompsAreWhole ==
    \A m \in ActiveComps : m.plan \notin edited =>
        /\ m.keys = contents[m.plan]
        /\ \A k \in m.keys : \A t \in clock .. m.expires - 1 :
               \E r \in ActiveGrants(m.plan) : r.key = k /\ Covers(r, t)
=============================================================================
