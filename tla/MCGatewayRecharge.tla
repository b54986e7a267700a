------------------------- MODULE MCGatewayRecharge -------------------------
(* GatewayRecharge with one recharge, two confirmations in progress and one *)
(* session of wallet.service.js, all on the wallet of one tenant.           *)
EXTENDS GatewayRecharge, TLC

CONSTANTS t1, s1, c1, c2, x1

MCTenants    == {t1}
MCSessions   == {s1}
MCNoSessions == {}
MCConfirmers == {c1, c2}
MCRecharges  == {x1}
MCTenantOf   == (x1 :> t1)
MCAmountOf   == (x1 :> 1)
MCAmounts    == {1, 2}
Symmetry     == Permutations(MCConfirmers)
=============================================================================
