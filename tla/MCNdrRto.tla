------------------------------ MODULE MCNdrRto ------------------------------
(* NdrRto on a small instance: two webhook calls that carry one scan twice,  *)
(* or two scans in each of the ways they can interfere, and one seller.      *)
EXTENDS NdrRto, TLC

CONSTANTS n1, n2, del, ret, d1, d2, u1

MCEvents     == {n1, n2, del, ret}
MCStatusOf   == [e \in MCEvents |-> IF e = del THEN "delivered" ELSE "failed"]
MCKindOf     == (n1 :> "ndr") @@ (n2 :> "ndr") @@ (del :> "delivered") @@ (ret :> "rto_delivered")
MCDeliveries == {d1, d2}
MCStories    == {(d1 :> n1) @@ (d2 :> e) : e \in MCEvents}
MCUpdates    == {"rto_delivered"}
MCUsers      == {u1}
=============================================================================
