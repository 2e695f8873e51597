------------------------------- MODULE MCPhone -------------------------------
(* Instances of Phone: which computer makes which request. *)
EXTENDS Phone, TLC

CONSTANTS r1, r2, a, b

TwoComputers == r1 :> a @@ r2 :> b
OneComputer == [r \in Requests |-> a]
=============================================================================
