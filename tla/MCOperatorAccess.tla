-------------------------- MODULE MCOperatorAccess --------------------------
(* A small backoffice: two founders and one person without access.          *)
EXTENDS OperatorAccess, TLC

CONSTANTS ann, bob, cyd, c1, c2

MCPeople == {ann, bob, cyd}
MCFounders == {ann, bob}
MCCalls == {c1, c2}

\* Requests are alike and so are the founders; every property is a safety one.
MCSymmetry == Permutations(MCCalls) \cup Permutations(MCFounders)
=============================================================================
