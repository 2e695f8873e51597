------------------------------- MODULE Desktop -------------------------------
(***************************************************************************)
(* The desktop half of one kdesu run: KDEsuDialog (sudlg.cpp) and the      *)
(* PhoneAuthClient it owns, with the Retry button of the r3 patch.  Both   *)
(* live on the GUI thread, so one action is one event handler with every   *)
(* signal it emits: a signal is delivered synchronously, before the        *)
(* handler returns.                                                        *)
(***************************************************************************)
EXTENDS ExecWire

VARIABLES
  \* PhoneAuthClient
  state, process, attempt, startSent, ready, committed, cancelRequested,
  failure, withdrawing,
  \* KDEsuDialog
  shown, fallback, phoneCommitted, cancelled, authenticating, fatalError,
  retryVisible, outcome

clientVars == <<state, process, attempt, startSent, ready, committed,
                cancelRequested, failure, withdrawing>>
dialogVars == <<shown, fallback, phoneCommitted, cancelled, authenticating,
                fatalError, retryVisible, outcome>>
desktopVars == <<clientVars, dialogVars>>

ClientStates == {"Idle", "Starting", "Waiting", "Cancelling", "Committed", "Finished"}
Outcomes == {"open", "Accepted", "AsUser", "PhoneExecuted", "Rejected"}

DesktopTypeOK ==
  /\ state \in ClientStates
  /\ process \in {"none", "starting", "running"}
  /\ attempt \in 0..MaxAttempts
  /\ fallback \in {"None", "Password", "AsUser"}
  /\ outcome \in Outcomes
  /\ {startSent, ready, committed, cancelRequested, failure, withdrawing, shown,
      phoneCommitted, cancelled, authenticating, fatalError, retryVisible} \subseteq BOOLEAN

DesktopInit ==
  /\ state = "Idle" /\ process = "none" /\ attempt = 0
  /\ fallback = "None" /\ outcome = "open"
  /\ startSent = FALSE /\ ready = FALSE /\ committed = FALSE
  /\ cancelRequested = FALSE /\ failure = FALSE /\ withdrawing = FALSE
  /\ shown = FALSE /\ phoneCommitted = FALSE /\ cancelled = FALSE
  /\ authenticating = FALSE /\ fatalError = FALSE /\ retryVisible = FALSE

pending == state \in {"Starting", "Waiting", "Cancelling"}

-----------------------------------------------------------------------------
(* Slots of the dialog that the client's signals run.                      *)

\* finishPhoneFallback, with the accept() or runAsUser() it calls: the client
\* is Finished by then, so neither waits for it again.
FinishPhoneFallback ==
  /\ UNCHANGED <<phoneCommitted, cancelled, fatalError>>
  /\ IF phoneCommitted \/ cancelled
     THEN UNCHANGED <<fallback, authenticating, outcome>>
     ELSE /\ fallback' = "None"
          /\ authenticating' = (authenticating \/ (fallback = "Password" /\ ~fatalError))
          /\ outcome' = IF fallback = "AsUser" /\ ~authenticating THEN "AsUser" ELSE outcome

\* Mutant: nobody listens to canceled().
OnCanceledUnheard == UNCHANGED <<fallback, phoneCommitted, cancelled, authenticating,
                                 fatalError, retryVisible, outcome>>

OnCanceled ==
  /\ FinishPhoneFallback
  /\ retryVisible' = (retryVisible /\ cancelled)

OnUnavailable ==
  /\ FinishPhoneFallback
  /\ retryVisible' = IF cancelled THEN retryVisible
                     ELSE fallback = "None" /\ ~phoneCommitted /\ ~fatalError

OnUncertain ==
  /\ phoneCommitted' = TRUE
  /\ fatalError' = TRUE
  /\ UNCHANGED <<fallback, cancelled, authenticating, retryVisible, outcome>>

OnExecuted ==
  /\ outcome' = IF ~cancelled /\ phoneCommitted THEN "PhoneExecuted" ELSE outcome
  /\ UNCHANGED <<fallback, phoneCommitted, cancelled, authenticating,
                 fatalError, retryVisible>>

-----------------------------------------------------------------------------
(* Methods of the client; each says what becomes of the pipes.             *)

\* The first n buffered lines of the current helper are consumed.
Lines(n) == fromHelper' = [fromHelper EXCEPT ![attempt] = SubSeq(@, n + 1, Len(@))]

CloseWriteChannel == toClosed' = [toClosed EXCEPT ![attempt] = TRUE]

\* withdraw(): cancel, if the start line was written, then EOF; once.
Withdraw ==
  IF withdrawing
  THEN UNCHANGED <<withdrawing, toHelper, toClosed>>
  ELSE /\ withdrawing' = TRUE
       /\ toHelper' = IF startSent
                      THEN [toHelper EXCEPT ![attempt] = Append(@, "cancel")]
                      ELSE toHelper
       /\ CloseWriteChannel

\* Mutant: finish() lets go of the helper with its pipe open.
FinishLeavesPipe ==
  /\ state' = "Finished" /\ process' = "none"
  /\ UNCHANGED <<toClosed, fromHelper>>

\* finish() with releaseHelper(): the write channel is closed, what the helper
\* printed is discarded, and the process is left to end by itself.
Finish ==
  /\ state' = "Finished"
  /\ process' = "none"
  /\ IF process = "none"
     THEN UNCHANGED <<toClosed, fromHelper>>
     ELSE CloseWriteChannel /\ fromHelper' = [fromHelper EXCEPT ![attempt] = <<>>]

\* Mutant: cancel() forgets m_committed.
CancelIgnoresCommit ==
  IF state = "Finished" \/ cancelRequested \/ process = "none"
  THEN UNCHANGED <<state, process, cancelRequested, withdrawing, toHelper, toClosed>>
  ELSE cancelRequested' = TRUE /\ state' = "Cancelling" /\ Withdraw /\ UNCHANGED process

\* cancel(), called only where its canceled() signal finds the dialog already
\* cancelled or finds a process to wait for.
Cancel ==
  IF state = "Finished" \/ committed \/ cancelRequested
  THEN UNCHANGED <<state, process, cancelRequested, withdrawing, toHelper, toClosed>>
  ELSE /\ cancelRequested' = TRUE
       /\ IF process = "none"
          THEN state' = "Finished" /\ UNCHANGED <<process, withdrawing, toHelper, toClosed>>
          ELSE state' = "Cancelling" /\ Withdraw /\ UNCHANGED process

\* What fail() and an error line tell the dialog once the client has finished.
Reports ==
  \/ committed /\ OnUncertain
  \/ ~committed /\ cancelRequested /\ OnCanceled
  \/ ~committed /\ ~cancelRequested /\ OnUnavailable

\* fail(): before commit a live helper is withdrawn and waited for, with the n
\* lines in m_input cleared; otherwise the client finishes and reports.
Fail(alive, n) ==
  /\ IF ~committed /\ alive
     THEN /\ state' = "Cancelling"
          /\ failure' = TRUE
          /\ Withdraw
          /\ Lines(n)
          /\ UNCHANGED <<process, dialogVars>>
     ELSE /\ Finish
          /\ Reports
          /\ UNCHANGED <<failure, withdrawing, toHelper>>
  /\ UNCHANGED <<attempt, startSent, ready, committed, cancelRequested, shown>>

\* start(): a finished, uncommitted client is reset for a new request.  The
\* helper is forked, or found unusable before anything runs.
Start ==
  /\ state = "Idle" \/ (state = "Finished" /\ ~committed)
  /\ startSent' = FALSE /\ ready' = FALSE /\ cancelRequested' = FALSE
  /\ failure' = FALSE /\ withdrawing' = FALSE
  /\ \/ /\ attempt < MaxAttempts     \* the model's bound on Retry
        /\ state' = "Starting" /\ process' = "starting"
        /\ attempt' = attempt + 1
        /\ proc' = [proc EXCEPT ![attempt + 1] = "forked"]
        /\ retryVisible' = FALSE
        /\ UNCHANGED <<fallback, authenticating, outcome>>
     \/ /\ state' = "Finished"
        /\ OnUnavailable
        /\ UNCHANGED <<process, attempt, proc>>
  /\ UNCHANGED <<committed, phoneCommitted, cancelled, fatalError,
                 toHelper, toClosed, fromHelper, fromClosed, signalled>>

-----------------------------------------------------------------------------
(* What the user does.                                                     *)

Usable == shown /\ outcome = "open"
\* Mutant: the buttons come back once the phone has been chosen.
BusyOnlyInFallback == fallback # "None"
Busy == fallback # "None" \/ phoneCommitted    \* setPhoneBusy(true): only Close is enabled

\* showEvent; "eligible" is kdesu.cpp's choice to call setPhoneAuthentication.
Show ==
  /\ ~shown /\ outcome = "open"
  /\ shown' = TRUE
  /\ \E eligible \in BOOLEAN :
       IF eligible THEN Start
       ELSE UNCHANGED <<clientVars, wireVars, fallback, phoneCommitted, cancelled,
                        authenticating, fatalError, retryVisible, outcome>>

ClickRetry ==
  /\ Usable /\ retryVisible /\ ~Busy
  /\ ~cancelled /\ ~authenticating /\ ~fatalError /\ ~pending
  /\ Start
  /\ UNCHANGED shown

\* accept(): wait for the phone to be withdrawn, or queue the password check.
PressAuthorize ==
  /\ Usable /\ ~Busy
  /\ ~authenticating /\ ~fatalError /\ ~cancelled
  /\ IF pending
     THEN /\ fallback' = "Password" /\ retryVisible' = FALSE
          /\ Cancel
          /\ UNCHANGED authenticating
     ELSE /\ authenticating' = TRUE
          /\ UNCHANGED <<state, process, cancelRequested, withdrawing, toHelper, toClosed,
                         fallback, retryVisible>>
  /\ UNCHANGED <<attempt, startSent, ready, committed, failure, shown, phoneCommitted,
                 cancelled, fatalError, outcome, fromHelper, fromClosed, proc, signalled>>

\* runAsUser()
PressRunAsUser ==
  /\ Usable /\ ~Busy
  /\ ~cancelled /\ ~authenticating
  /\ IF pending
     THEN /\ fallback' = "AsUser" /\ retryVisible' = FALSE
          /\ Cancel
          /\ UNCHANGED outcome
     ELSE /\ outcome' = "AsUser"
          /\ UNCHANGED <<state, process, cancelRequested, withdrawing, toHelper, toClosed,
                         fallback, retryVisible>>
  /\ UNCHANGED <<attempt, startSent, ready, committed, failure, shown, phoneCommitted,
                 cancelled, authenticating, fatalError, fromHelper, fromClosed, proc, signalled>>

\* reject(): Cancel, Close, Escape or the window's close button.
Reject ==
  /\ Usable
  /\ cancelled' = TRUE /\ outcome' = "Rejected"
  /\ Cancel
  /\ UNCHANGED <<attempt, startSent, ready, committed, failure, shown, fallback,
                 phoneCommitted, authenticating, fatalError, retryVisible,
                 fromHelper, fromClosed, proc, signalled>>

\* Mutant: the queued check does not look whether the dialog was closed meanwhile.
CheckPasswordLate ==
  /\ authenticating /\ ~fromClosed
  /\ authenticating' = FALSE
  /\ \/ outcome' = "Accepted" /\ UNCHANGED fatalError
     \/ fatalError' \in BOOLEAN /\ UNCHANGED outcome
  /\ UNCHANGED <<clientVars, wireVars, shown, fallback, phoneCommitted, cancelled, retryVisible>>

\* The check accept() queued: it looks at m_cancelled only; su accepts, refuses,
\* or fails for good.
CheckPassword ==
  /\ authenticating /\ ~cancelled
  /\ authenticating' = FALSE
  /\ \/ outcome' = "Accepted" /\ UNCHANGED fatalError
     \/ fatalError' \in BOOLEAN /\ UNCHANGED outcome
  /\ UNCHANGED <<clientVars, wireVars, shown, fallback, phoneCommitted, cancelled, retryVisible>>

-----------------------------------------------------------------------------
(* Events of the helper's QProcess.                                        *)

\* Mutant: the QProcess signals are disconnected on commit.
ListeningBeforeCommit == outcome = "open" /\ process # "none" /\ state # "Finished" /\ ~committed

Listening == outcome = "open" /\ process # "none" /\ state # "Finished"

OnStarted ==
  /\ Listening /\ process = "starting"
  /\ proc[attempt] \in {"running", "exited"}
  /\ process' = "running"
  /\ IF state = "Cancelling"
     THEN /\ CloseWriteChannel
          /\ UNCHANGED <<state, startSent, toHelper, retryVisible>>
     ELSE /\ state' = "Waiting" /\ startSent' = TRUE
          /\ toHelper' = [toHelper EXCEPT ![attempt] = Append(@, "start")]
          /\ retryVisible' = FALSE     \* waitingForPhone: setPhoneStatus
          /\ UNCHANGED toClosed
  /\ UNCHANGED <<attempt, ready, committed, cancelRequested, failure, withdrawing, shown,
                 fallback, phoneCommitted, cancelled, authenticating, fatalError, outcome,
                 fromHelper, fromClosed, proc, signalled>>

Reads(r) == Listening /\ process = "running"
            /\ fromHelper[attempt] # <<>> /\ Head(fromHelper[attempt]) = r
NoOtherWire == UNCHANGED <<fromClosed, proc, signalled>>

\* ready: the dialog withdraws, or makes the phone the only owner and commits.
ReadReady ==
  /\ Reads("ready") /\ state = "Waiting" /\ ~ready
  /\ ready' = TRUE
  /\ Lines(1)
  /\ IF fallback # "None" \/ cancelled \/ authenticating
     THEN /\ Cancel
          /\ UNCHANGED <<committed, phoneCommitted, retryVisible>>
     ELSE /\ phoneCommitted' = TRUE /\ retryVisible' = FALSE
          /\ committed' = TRUE /\ state' = "Committed"
          /\ toHelper' = [toHelper EXCEPT ![attempt] = Append(@, "commit")]
          /\ UNCHANGED <<process, cancelRequested, withdrawing, toClosed>>
  /\ NoOtherWire
  /\ UNCHANGED <<attempt, startSent, failure, shown, fallback, cancelled, authenticating,
                 fatalError, outcome>>

ReadLateReady ==
  /\ Reads("ready") /\ state = "Cancelling"
  /\ Lines(1)
  /\ NoOtherWire
  /\ UNCHANGED <<desktopVars, toHelper, toClosed>>

ReadCanceled ==
  /\ Reads("canceled") /\ ~committed /\ pending
  /\ Finish
  /\ IF ~cancelRequested /\ failure THEN OnUnavailable ELSE OnCanceled
  /\ NoOtherWire
  /\ UNCHANGED <<attempt, startSent, ready, committed, cancelRequested, failure,
                 withdrawing, shown, toHelper>>

ReadExecuted ==
  /\ Reads("executed") /\ state = "Committed"
  /\ Finish
  /\ OnExecuted
  /\ NoOtherWire
  /\ UNCHANGED <<attempt, startSent, ready, committed, cancelRequested, failure,
                 withdrawing, shown, toHelper>>

\* error: terminal either way, certain only before the commit.
ReadError ==
  /\ Reads("error")
  /\ Finish
  /\ Reports
  /\ NoOtherWire
  /\ UNCHANGED <<attempt, startSent, ready, committed, cancelRequested, failure,
                 withdrawing, shown, toHelper>>

Expected(r) ==
  \/ r = "ready" /\ (state = "Cancelling" \/ (state = "Waiting" /\ ~ready))
  \/ r = "canceled" /\ ~committed /\ pending
  \/ r = "executed" /\ state = "Committed"
  \/ r = "error"

\* Any other line.  fail() also clears m_input: lines that had arrived with
\* the bad one are lost.  Inside the finished signal the
\* process no longer runs, so there is nothing to withdraw.
ReadUnexpected ==
  /\ \E r \in Replies : Reads(r) /\ ~Expected(r)
  /\ \E n \in 1..Len(fromHelper[attempt]) :
       \/ Fail(TRUE, n)
       \/ proc[attempt] = "exited" /\ Fail(FALSE, n)
  /\ NoOtherWire

\* Mutant: the exit is looked at before the lines that came with it.
OnProcessEndedUnread ==
  /\ Listening
  /\ \/ proc[attempt] = "failed"
     \/ process = "running" /\ proc[attempt] = "exited"
  /\ Fail(FALSE, 0)
  /\ NoOtherWire

\* finished, or errorOccurred(FailedToStart): buffered lines come first.
OnProcessEnded ==
  /\ Listening
  /\ \/ proc[attempt] = "failed"
     \/ process = "running" /\ proc[attempt] = "exited" /\ fromHelper[attempt] = <<>>
  /\ Fail(FALSE, 0)
  /\ NoOtherWire

\* errorOccurred(WriteError): the pipe broke, the exit is not reaped yet.
OnWriteError ==
  /\ Listening /\ process = "running"
  /\ proc[attempt] = "exited" /\ fromHelper[attempt] = <<>>
  /\ Fail(TRUE, 0)
  /\ NoOtherWire

\* m_startTimeout (1.5 s, only while Starting) and m_lifetime (125 s, or 20 s
\* once committed) both fail the request.
OnTimeout ==
  /\ Listening
  /\ Fail(TRUE, 0)
  /\ NoOtherWire

\* m_shutdownGrace: terminate(), which the kernel may refuse.
OnShutdownGrace ==
  /\ Listening /\ withdrawing /\ ~committed
  /\ proc[attempt] = "running" /\ ~signalled[attempt]
  /\ signalled' = [signalled EXCEPT ![attempt] = TRUE]
  /\ UNCHANGED <<desktopVars, toHelper, toClosed, fromHelper, fromClosed, proc>>

\* releaseHelper's own grace: a helper let go before commit is terminated too.
OnReleasedGrace(h) ==
  /\ proc[h] = "running" /\ ~signalled[h] /\ ~fromClosed
  /\ h < attempt \/ (h = attempt /\ process = "none" /\ ~committed)
  /\ signalled' = [signalled EXCEPT ![h] = TRUE]
  /\ UNCHANGED <<desktopVars, toHelper, toClosed, fromHelper, fromClosed, proc>>

\* kdesu returns from startApp or goes on to su: the dialog and the client
\* are destroyed, releaseHelper closes the pipe; process exit closes the rest.
Dispose ==
  /\ outcome # "open" /\ ~fromClosed
  /\ state' = "Finished" /\ process' = "none"
  /\ cancelled' = TRUE
  /\ fromClosed' = TRUE
  /\ toClosed' = [h \in Attempts |-> toClosed[h] \/ h = attempt]
  /\ UNCHANGED <<attempt, startSent, ready, committed, cancelRequested, failure, withdrawing,
                 shown, fallback, phoneCommitted, authenticating, fatalError, retryVisible,
                 outcome, toHelper, fromHelper, proc, signalled>>

ClientStep == \/ OnStarted \/ ReadReady \/ ReadLateReady \/ ReadCanceled \/ ReadExecuted
              \/ ReadError \/ ReadUnexpected \/ OnProcessEnded \/ OnWriteError
UserStep == \/ Show \/ ClickRetry \/ PressAuthorize \/ PressRunAsUser \/ Reject

DesktopStep == \/ UserStep \/ ClientStep \/ CheckPassword \/ OnShutdownGrace
               \/ (\E h \in Attempts : OnReleasedGrace(h)) \/ Dispose
DesktopNext == DesktopStep \/ OnTimeout
=============================================================================
