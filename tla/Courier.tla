------------------------------- MODULE Courier -------------------------------
(***************************************************************************)
(* What the callers of a transport rely on, whichever of them carries the  *)
(* messages of a request: a message is never handed over twice, the phone  *)
(* is given the request before anything that refers to it, and a caller is *)
(* told that a message was handed over only when it was.                   *)
(***************************************************************************)
EXTENDS Sequences

VARIABLES
  posted,   \* the messages handed over for one request, in order
  told      \* those whose delivery returned to the caller

Carried == {posted[i] : i \in DOMAIN posted}

CourierInit == posted = <<>> /\ told = {}

Hand(name) ==
  /\ name \notin Carried
  /\ name = "request" <=> posted = <<>>
  /\ posted' = Append(posted, name)
  /\ told' \in {told, told \cup {name}}

Tell(name) ==
  /\ name \in Carried
  /\ told' = told \cup {name}
  /\ UNCHANGED posted

CourierNext == \E name \in {"request", "receipt", "cancel"} : Hand(name) \/ Tell(name)

CourierSpec == CourierInit /\ [][CourierNext]_<<posted, told>>
=============================================================================
