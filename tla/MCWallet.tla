------------------------------ MODULE MCWallet ------------------------------
(* Wallet on a small instance: two transactions on one tenant's wallet (the *)
(* contended case) beside a tenant that has no wallets row.                *)
EXTENDS Wallet, TLC

CONSTANTS t1, t2, s1, s2

MCTenants  == {t1, t2}
MCRows     == {t1}
MCSessions == {s1, s2}
MCAmounts  == {0, 1, 2}
=============================================================================
