------------------------------ MODULE ExecOwner ------------------------------
(***************************************************************************)
(* What kdesu promises about running one command ("One execution owner" in *)
(* AUTHENTICATION.md): at any time at most one of the phone, su and the    *)
(* invoking user owns the execution.  Choosing the phone is final, and it  *)
(* alone lets a helper start the command, once for all attempts together.  *)
(* A password check is given up only by failing.                           *)
(***************************************************************************)
EXTENDS Naturals

CONSTANT Requests   \* the requests one dialog may put to helpers

VARIABLES owner, runs

Owners == {"undecided", "phone", "password", "su", "user", "closed"}

OwnerInit == owner = "undecided" /\ runs = [h \in Requests |-> 0]

Decide(from, to) == owner \in from /\ owner' = to /\ UNCHANGED runs

CommitToPhone  == Decide({"undecided"}, "phone")
TryPassword    == Decide({"undecided"}, "password")
PasswordFails  == Decide({"password"}, "undecided")
PasswordServes == Decide({"password"}, "su")
ContinueAsUser == Decide({"undecided"}, "user")
CloseDialog    == Decide({"undecided", "password"}, "closed")

PhoneRuns(h) ==
  /\ owner = "phone"
  /\ \A g \in Requests : runs[g] = 0
  /\ runs' = [runs EXCEPT ![h] = 1]
  /\ UNCHANGED owner

OwnerNext == \/ CommitToPhone \/ TryPassword \/ PasswordFails \/ PasswordServes
             \/ ContinueAsUser \/ CloseDialog \/ \E h \in Requests : PhoneRuns(h)

OwnerSpec == OwnerInit /\ [][OwnerNext]_<<owner, runs>>
=============================================================================
