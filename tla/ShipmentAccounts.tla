--------------------------- MODULE ShipmentAccounts ---------------------------
(***************************************************************************)
(* What booking and cancelling promise a tenant and its plan: a booking is  *)
(* charged, counted and handed to the courier as one step, which funds, plan *)
(* and order allow at that moment; money is given back only for a booking   *)
(* that was paid and that the courier has given up.  Booking shows that     *)
(* createShipment and cancelShipment keep this promise, although they make  *)
(* their checks one by one and two of them without a lock.                  *)
(***************************************************************************)
EXTENDS Integers

CONSTANTS Orders, Rate, Funds, Limit

VARIABLES
  balance,   \* the wallet
  usage,     \* shipments counted against the plan
  debits,    \* debits[o], refunds[o]: ledger rows of o's shipment
  refunds,
  held       \* orders whose shipment the courier holds

Init ==
  /\ balance = Funds
  /\ usage = 0
  /\ debits = [o \in Orders |-> 0]
  /\ refunds = [o \in Orders |-> 0]
  /\ held = {}

Book(o) ==
  /\ debits[o] = 0 /\ balance >= Rate[o] /\ usage < Limit
  /\ balance' = balance - Rate[o]
  /\ usage' = usage + 1
  /\ debits' = [debits EXCEPT ![o] = 1]
  /\ held' = held \cup {o}
  /\ UNCHANGED refunds

(* The courier gives up a booking, asked or not. *)
Drop(o) ==
  /\ o \in held
  /\ held' = held \ {o}
  /\ UNCHANGED <<balance, usage, debits, refunds>>

Refund(o) ==
  /\ debits[o] = 1 /\ o \notin held
  /\ balance' = balance + Rate[o]
  /\ refunds' = [refunds EXCEPT ![o] = @ + 1]
  /\ UNCHANGED <<usage, debits, held>>

Next == \E o \in Orders : Book(o) \/ Drop(o) \/ Refund(o)

Spec == Init /\ [][Next]_<<balance, usage, debits, refunds, held>>
=============================================================================
