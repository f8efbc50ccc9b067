--------------------------- MODULE MCEntitlements ---------------------------
(* One organization that pays for one key of two, two plans that share it.  *)
EXTENDS EntitlementReads

CONSTANTS pro, team, seats, logs, c1, c2

MCPlans == {pro, team}
MCKeys == {seats, logs}
MCCalls == {c1, c2}
MCCatalog == (pro :> {seats, logs}) @@ (team :> {seats})

\* A release takes one key from pro and leaves team with none.
MCReleases == {(pro :> {seats}) @@ (team :> {})}

\* Days end at 1 and at 3.
MCDayEnds == {1, 3}

\* A paid period that ends during the second day and a seed row without an end,
\* both bought through the plan pro.
MCOpening ==
    {[batch |-> None, plan |-> pro, key |-> seats, source |-> "billing",
      starts |-> 0, expires |-> 2, promised |-> 2],
     [batch |-> None, plan |-> pro, key |-> logs, source |-> "seed",
      starts |-> 1, expires |-> Never, promised |-> Never]}

\* Requests are alike; every property is a safety one.
MCSymmetry == Permutations(MCCalls)
=============================================================================
