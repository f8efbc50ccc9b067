----------------------------- MODULE MCAdminPages -----------------------------
(***************************************************************************)
(* Small instances of AdminPages.  The names and slugs have the characters  *)
(* that a pattern would take for something else, and a change of name can   *)
(* take the first two out of the search for one of them.                    *)
(***************************************************************************)
EXTENDS AdminPages

CONSTANTS t1, t2

MCTabs == {t1, t2}
MCSymmetry == Permutations(MCTabs)
MCText(name, slug) == [name |-> name, slug |-> slug]
MCFirst == MCText(<<"a", "\\">>, <<"a">>)
MCSecond == MCText(<<"b", "\\">>, <<"b">>)
MCNew == MCText(<<"a", "_">>, <<"c">>)
MCTexts == {MCFirst, MCSecond, MCNew}
MCAtFirst == <<MCFirst, MCSecond>>
MCSearches == { <<>>, <<"\\">> }
=============================================================================
