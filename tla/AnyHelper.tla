----------------------------- MODULE AnyHelper -----------------------------
(***************************************************************************)
(* The desktop alone, against a helper that may print any line and die at  *)
(* any time: what the dialog and its client guarantee by themselves.  The  *)
(* helper never reads, so toHelper[h] is all that attempt h was ever sent. *)
(* A released helper is left out: nobody reads what it prints.             *)
(***************************************************************************)
EXTENDS Desktop

CONSTANT MaxReplies   \* lines the arbitrary helper leaves unread at a time

VARIABLE rang   \* history: the last step of the desktop was one of its timers

seen == <<desktopVars, wireVars>>
vars == <<seen, rang>>

HelperSpeaks(h) ==
  /\ h = attempt /\ process = "running"
  /\ proc[h] = "running" /\ Len(fromHelper[h]) < MaxReplies
  /\ \E r \in Replies : fromHelper' = [fromHelper EXCEPT ![h] = Append(@, r)]
  /\ UNCHANGED <<desktopVars, toHelper, toClosed, fromClosed, proc, signalled, rang>>

HelperMoves(h) ==
  /\ \/ proc[h] = "forked" /\ proc' = [proc EXCEPT ![h] = "running"]
     \/ proc[h] = "forked" /\ proc' = [proc EXCEPT ![h] = "failed"]
     \/ proc[h] = "running" /\ proc' = [proc EXCEPT ![h] = "exited"]
  /\ UNCHANGED <<desktopVars, toHelper, toClosed, fromHelper, fromClosed, signalled, rang>>

Init == DesktopInit /\ WireInit /\ rang = FALSE
Next == \/ DesktopStep /\ rang' = FALSE
        \/ OnTimeout /\ rang' = TRUE
        \/ \E h \in Attempts : HelperSpeaks(h) \/ HelperMoves(h)

\* The event loop runs every posted event, an armed timer fires, and the
\* kernel starts a forked helper and ends it (alarm(180) in authorize.c).
Fairness ==
  /\ WF_seen(ClientStep /\ rang' = FALSE) /\ WF_seen(CheckPassword /\ rang' = FALSE)
  /\ \A h \in Attempts : WF_vars(HelperMoves(h))

Spec == Init /\ [][Next]_vars /\ Fairness

-----------------------------------------------------------------------------
Sent(h, e) == \E i \in DOMAIN toHelper[h] : toHelper[h][i] = e

(* One execution owner, seen from the desktop alone: once any attempt was  *)
(* sent commit, no password check is queued and the dialog never ends as   *)
(* Accepted or AsUser, whatever the helper answers, however it dies, and   *)
(* in whatever order timers, clicks and retries come.                      *)
CommitExcludesAlternatives ==
  (\E h \in Attempts : Sent(h, "commit")) =>
    /\ ~authenticating
    /\ outcome \notin {"Accepted", "AsUser"}

(* A helper is never told both to run and to withdraw: an attempt that was *)
(* sent cancel is not sent commit, nor the reverse, and nothing is written *)
(* after either (withdraw, commit and the reset in start() together).      *)
OneVerdict ==
  \A h \in Attempts :
    /\ ~(Sent(h, "commit") /\ Sent(h, "cancel"))
    /\ \A i \in DOMAIN toHelper[h] :
         /\ toHelper[h][i] = "start" <=> i = 1
         /\ i <= 2

(* While a password check is queued, or once an alternative was chosen, no *)
(* helper that was sent a request still has its pipe open: the withdrawal  *)
(* the dialog promised came first.                                         *)
AlternativeOnlyAfterWithdrawal ==
  (authenticating \/ outcome \in {"Accepted", "AsUser"}) =>
    \A h \in Attempts : Sent(h, "start") => toClosed[h]

(* After the commit the phone branch is final: it never returns to a state *)
(* from which Retry could start another helper.                            *)
CommitIsFinal ==
  [][committed => committed' /\ attempt' = attempt /\ state' \in {"Committed", "Finished"}]_vars

\* A committed client of an open dialog has an executed line to read.
ExecutedWaits ==
  /\ state = "Committed" /\ outcome = "open"
  /\ fromHelper[attempt] # <<>> /\ Head(fromHelper[attempt]) = "executed"

(* "A final executed line may arrive together with process exit": a        *)
(* committed client that has an executed line to read gives the helper up  *)
(* as failed only when its timer rang (the finished and errorOccurred      *)
(* slots, which read before they fail).                                    *)
LastLineIsRead ==
  [][(ExecutedWaits /\ state' = "Finished") => (outcome' = "PhoneExecuted" \/ rang')]_vars

(* The user is never left waiting: a password or Run-as-me choice that had *)
(* to withdraw the phone first is eventually carried out, unless the user  *)
(* closes the dialog.                                                      *)
FallbackReleased ==
  (fallback # "None" /\ outcome = "open") ~> (authenticating \/ outcome # "open")
=============================================================================
