------------------------------ MODULE KdesuExec ------------------------------
(***************************************************************************)
(* One kdesu dialog and the protected helpers it starts, one per attempt,  *)
(* joined by their pipes.  A helper that was released keeps running beside *)
(* the next attempt until its cleanup ends, and they share one lock.       *)
(***************************************************************************)
EXTENDS Desktop, Authority

vars == <<desktopVars, wireVars, authorityVars>>

Init == DesktopInit /\ WireInit /\ AuthorityInit

Next == \/ DesktopNext /\ UNCHANGED authorityVars
        \/ HelperNext /\ UNCHANGED desktopVars

\* The GUI event loop and asyncio run what is posted, armed timers fire and the
\* network calls of the worker threads time out.  The user, the phone, the
\* administrator and signals owe nothing, and alarm(180) is not needed.
Fairness ==
  /\ WF_vars(ClientStep /\ UNCHANGED authorityVars)
  /\ WF_vars(CheckPassword /\ UNCHANGED authorityVars)
  /\ WF_vars(OnTimeout /\ UNCHANGED authorityVars)
  /\ \A h \in Attempts :
       /\ WF_vars(HandleStep(h) /\ UNCHANGED desktopVars)
       /\ WF_vars(TaskStep(h) /\ UNCHANGED desktopVars)

Spec == Init /\ [][Next]_vars /\ Fairness

-----------------------------------------------------------------------------
(* Refinement of the promise in ExecOwner.                                 *)

\* Whoever may run the command: an alternative the dialog took counts first,
\* so that it is seen even if a commit was sent as well.
Owner ==
  IF outcome = "Accepted" THEN "su"
  ELSE IF outcome = "AsUser" THEN "user"
  ELSE IF outcome = "open" /\ authenticating THEN "password"
  ELSE IF committed THEN "phone"
  ELSE IF outcome = "Rejected" THEN "closed"
  ELSE "undecided"

Promise == INSTANCE ExecOwner WITH Requests <- Attempts, owner <- Owner, runs <- launched

(* The dialog, the client and every helper it ever started keep the one    *)
(* owner promise together: a helper starts the command only while the      *)
(* phone owns it, once over all retries, and never after su or the user.   *)
OneExecutionOwner == Promise!OwnerSpec

(* Success is never claimed for a command that did not start: PhoneExecuted*)
(* means that the current attempt's helper started it and used its row up. *)
SuccessIsTrue ==
  outcome = "PhoneExecuted" => launched[attempt] = 1 /\ row[attempt] = "consumed"

(* A released attempt is harmless: only the current attempt can hold a     *)
(* ready or used-up approval once the next one has been started.           *)
OldAttemptsSpent ==
  \A h \in Attempts : h < attempt =>
    /\ launched[h] = 0 /\ row[h] # "consumed"
    /\ pc[h] \notin {"consume", "launch", "record", "receipt"}

(* "It starts a fresh request after a terminal precommit failure"          *)
(* (VERIFICATION.md on Retry): a helper that Retry starts is not turned    *)
(* away by the helper of the attempt it replaces.                          *)
RetryIsServed == \A h \in Attempts : refusedBy[h] = 0

(* A commit is always answered in the end: executed, uncertain or closed.  *)
CommitResolves ==
  (state = "Committed" /\ outcome = "open") ~> (state = "Finished" \/ outcome # "open")

(* A pending choice of password or Run-as-me is carried out although the   *)
(* helper may hang, be killed, or be gone before it read the cancel.       *)
FallbackReleased ==
  (fallback # "None" /\ outcome = "open") ~> (authenticating \/ outcome # "open")

(* Once kdesu is gone no helper stays behind with the lock.                *)
HelpersEnd == fromClosed ~> (lock = 0 /\ \A h \in Attempts : proc[h] # "running")
=============================================================================
