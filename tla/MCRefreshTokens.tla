-------------------------- MODULE MCRefreshTokens --------------------------
(* RefreshTokens on a small instance: an account that is used in two       *)
(* browsers, with two requests in progress, of one browser or of each.     *)
EXTENDS RefreshTokens, TLC

CONSTANTS b1, b2, c1, c2

MCBrowsers == {b1, b2}
MCCallers  == {c1, c2}
MCSymmetry == Permutations(MCBrowsers) \cup Permutations(MCCallers)
=============================================================================
