------------------------------ MODULE MCBooking ------------------------------
(* Booking with small sets: two orders of which the funds cover either, and    *)
(* a plan for one of them; or one order with funds and plan for two bookings. *)
EXTENDS Booking, TLC

CONSTANTS o1, o2, r1, r2

MCOrders     == {o1, o2}
MCOneOrder   == {o1}
MCRequests   == {r1, r2}
MCRate       == (o1 :> 1 @@ o2 :> 2)
MCOneRate    == (o1 :> 1)
MCSymmetry   == Permutations(MCRequests)
=============================================================================
