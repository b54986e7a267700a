-------------------------- MODULE DocumentNumbering --------------------------
(***************************************************************************)
(* What a numbered series promises the accounts: a document gets the next   *)
(* number of its series in the same step in which it comes into being, and  *)
(* no document is ever changed or removed.  Billing shows that              *)
(* invoiceNumbering.service and sequentialNumber.util keep this promise     *)
(* with a counter row that a transaction reads, raises and commits.         *)
(***************************************************************************)
EXTENDS Naturals

CONSTANTS
  Keys,      \* numbered series
  Subjects   \* what documents are about

VARIABLES
  last,      \* last[k]: the last number given in series k
  docs       \* the documents

(* A series may have been in use before. *)
Init ==
  /\ last \in [Keys -> Nat]
  /\ docs = {}

Issue(k, s) ==
  /\ last' = [last EXCEPT ![k] = @ + 1]
  /\ docs' = docs \cup {[key |-> k, number |-> last[k] + 1, of |-> s]}

Next == \E k \in Keys, s \in Subjects : Issue(k, s)

Spec == Init /\ [][Next]_<<last, docs>>
=============================================================================
