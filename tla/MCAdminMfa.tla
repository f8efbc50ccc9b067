------------------------------ MODULE MCAdminMfa ------------------------------
(* An operator with two browsers, and peers who reset the second factor.    *)
EXTENDS AdminMfa, TLC

CONSTANTS b1, b2, c1, c2

MCBrowsers == {b1, b2}
MCCalls == {c1, c2}

\* Browsers are alike and so are requests; every property is a safety one.
MCSymmetry == Permutations(MCCalls) \cup Permutations(MCBrowsers)
=============================================================================
