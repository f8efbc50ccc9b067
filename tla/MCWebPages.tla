----------------------------- MODULE MCWebPages ------------------------------
(***************************************************************************)
(* Small instances of WebPages.                                             *)
(***************************************************************************)
EXTENDS WebPages, TLC

CONSTANTS t1, t2, ann, bob

MCTabs == {t1, t2}
MCPeople == {ann, bob}
MCNext == {"", "/orgs/new", "//elsewhere", "/\\elsewhere"}
MCSymmetry == Permutations(MCTabs) \cup Permutations(MCPeople)
=============================================================================
