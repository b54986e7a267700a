----------------------------- MODULE MCBilling -----------------------------
(* Billing on a small instance: two shipments of two tenants, one of which   *)
(* the courier scans or returns, a support ticket, two transactions and the  *)
(* turn of a financial year.                                                *)
EXTENDS Billing, TLC

CONSTANTS x1, x2, s1, s2, t1

MCTxns      == {x1, x2}
MCShipments == {s1, s2}
MCScanned   == {s1}
MCTickets   == {t1}
=============================================================================
