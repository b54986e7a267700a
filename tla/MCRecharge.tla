----------------------------- MODULE MCRecharge -----------------------------
(* Recharge with two orders and two handlers: a verify call, a webhook       *)
(* delivery and a second initiation overlap in pairs.                      *)
EXTENDS Recharge, TLC

CONSTANTS o1, o2, h1, h2

MCOrders   == {o1, o2}
MCOneOrder == {o1}
MCHandlers == {h1, h2}
=============================================================================
