---------------------------- MODULE PhonePromise ----------------------------
(***************************************************************************)
(* What the phone promises a computer about each request: the user is      *)
(* asked only after the request arrived, and answers it at most once for   *)
(* every time it comes into the slot.  Only a request that is received     *)
(* again comes twice, and never while it still has the slot.               *)
(* The helper's phone in Authority (PhoneStep) relies on no more.          *)
(***************************************************************************)
CONSTANTS
  Requests,
  Repeats   \* requests that may be received again

VARIABLES
  told,   \* what became of each request
  slot    \* the request the phone holds

Becomes(r, from, to) == told[r] \in from /\ told' = [told EXCEPT ![r] = to]

Offer(r)   == Becomes(r, {"unseen"}, "asked")
Approve(r) == Becomes(r, {"asked", "again"}, "signed")
Decline(r) == Becomes(r, {"asked", "again"}, "declined")

\* It was answered, lost the slot, and is received once more.
OfferAgain(r) ==
  /\ r \in Repeats /\ slot # r /\ slot' = r
  /\ Becomes(r, {"signed", "declined"}, "again")

PromiseInit == told = [r \in Requests |-> "unseen"]
PromiseNext == \E r \in Requests : Offer(r) \/ Approve(r) \/ Decline(r) \/ OfferAgain(r)
PromiseSpec == PromiseInit /\ [][PromiseNext]_told
=============================================================================
