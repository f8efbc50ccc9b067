----------------------------- MODULE MCAccounts ------------------------------
(***************************************************************************)
(* A small instance of Accounts: one account of the seed and one to come,   *)
(* two addresses of which one is free, two browsers.                        *)
(***************************************************************************)
EXTENDS Accounts, TLC

CONSTANTS a1, a2, x, y, b1, b2

MCIds == {a1, a2}
MCAddresses == {x, y}
MCBrowsers == {b1, b2}
MCSeed == a1 :> x @@ a2 :> NoAddress
MCHookKeys == {"current", "stale", "NoKey", "Unset"}
MCSymmetry == Permutations(MCBrowsers)
=============================================================================
