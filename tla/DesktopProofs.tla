---------------------------- MODULE DesktopProofs ----------------------------
(***************************************************************************)
(* What the dialog and its client keep among their own variables, step by  *)
(* step and whatever the helper does.  The lemmas are about DesktopNext,   *)
(* so they serve the desktop with an arbitrary helper and the desktop      *)
(* joined to the protected authority.                                      *)
(***************************************************************************)
EXTENDS Desktop, SequenceTheorems, TLAPS

Resting == {"Idle", "Finished"}     \* no helper process is held

\* The type invariant, its Boolean variables apart.
Scalars ==
  /\ state \in ClientStates /\ process \in {"none", "starting", "running"}
  /\ attempt \in 0..MaxAttempts
  /\ fallback \in {"None", "Password", "AsUser"} /\ outcome \in Outcomes
Flags ==
  /\ startSent \in BOOLEAN /\ ready \in BOOLEAN /\ committed \in BOOLEAN
  /\ cancelRequested \in BOOLEAN /\ failure \in BOOLEAN /\ withdrawing \in BOOLEAN
  /\ shown \in BOOLEAN /\ phoneCommitted \in BOOLEAN /\ cancelled \in BOOLEAN
  /\ authenticating \in BOOLEAN /\ fatalError \in BOOLEAN /\ retryVisible \in BOOLEAN

\* Which process, which line and which withdrawal go with the client's state.
ClientShape ==
  /\ state \in Resting <=> process = "none"
  /\ process # "none" => attempt \in Attempts
  /\ state = "Starting" => process = "starting"
  /\ state \in {"Waiting", "Committed"} => process = "running" /\ startSent
  /\ process = "starting" => ~startSent
  /\ process # "none" => (withdrawing <=> state = "Cancelling")

\* What has not begun before the dialog is shown.
NotYetShown == ~shown => state = "Idle" /\ outcome = "open" /\ fallback = "None" /\ ~authenticating

\* The phone is chosen on both sides at once, for good and to the exclusion of
\* everything else; an alternative is taken only while no helper is held.
PhoneExcludes ==
  /\ committed <=> phoneCommitted
  /\ state = "Committed" => committed
  /\ committed => /\ state \in {"Committed", "Finished"}
                  /\ fallback = "None" /\ ~authenticating
                  /\ outcome \notin {"Accepted", "AsUser"}
  /\ authenticating \/ outcome \in {"Accepted", "AsUser"} => state \in Resting
  /\ ~(authenticating /\ outcome \in {"Accepted", "AsUser"})
  /\ authenticating => fallback = "None"
  /\ cancelled => outcome # "open"
  /\ outcome = "Rejected" => cancelled
  /\ outcome = "PhoneExecuted" => committed

Shape == Scalars /\ ClientShape /\ NotYetShown /\ PhoneExcludes
DesktopInv == Flags /\ Shape

-----------------------------------------------------------------------------
\* It holds before the window opens.
LEMMA DesktopStarts == DesktopInit => DesktopInv
<1> SUFFICES ASSUME DesktopInit PROVE DesktopInv
  OBVIOUS
<1>1. Scalars
  BY AttemptsAssumption DEF DesktopInit, Scalars, ClientStates, Outcomes
<1>2. Flags
  BY Zenon DEF DesktopInit, Flags
<1>3. ClientShape /\ NotYetShown /\ PhoneExcludes
  BY DEF DesktopInit, ClientShape, NotYetShown, PhoneExcludes, Resting
<1> QED
  BY <1>1, <1>2, <1>3 DEF DesktopInv, Shape

\* Nothing but Boolean values is put into a Boolean variable: by the slots of the dialog,
LEMMA SlotFlags ==
  ASSUME Flags, OnCanceled \/ OnUnavailable \/ OnUncertain \/ OnExecuted
  PROVE  /\ phoneCommitted' \in BOOLEAN /\ cancelled' \in BOOLEAN
         /\ authenticating' \in BOOLEAN /\ fatalError' \in BOOLEAN
         /\ retryVisible' \in BOOLEAN
<1> USE DEF Flags
<1>1. ASSUME FinishPhoneFallback
      PROVE  /\ phoneCommitted' \in BOOLEAN /\ cancelled' \in BOOLEAN
             /\ authenticating' \in BOOLEAN /\ fatalError' \in BOOLEAN
  BY <1>1, Zenon DEF FinishPhoneFallback
<1>2. CASE OnCanceled
  BY <1>1, <1>2, Zenon DEF OnCanceled
<1>3. CASE OnUnavailable
  BY <1>1, <1>3, Zenon DEF OnUnavailable
<1>4. CASE OnUncertain
  BY <1>4, Zenon DEF OnUncertain
<1>5. CASE OnExecuted
  BY <1>5, Zenon DEF OnExecuted
<1> QED
  BY <1>2, <1>3, <1>4, <1>5

\* by withdraw() and cancel(),
LEMMA WithdrawFlags == ASSUME Flags, Withdraw PROVE withdrawing' \in BOOLEAN
  BY Zenon DEF Withdraw, Flags

\* and cancel() with it,
LEMMA CancelFlags ==
  ASSUME Flags, Cancel
  PROVE  withdrawing' \in BOOLEAN /\ cancelRequested' \in BOOLEAN
  BY WithdrawFlags, Zenon DEF Cancel, Flags

\* and by every handler.
LEMMA FlagsKeep == ASSUME Flags, DesktopNext PROVE Flags'
<1> USE DEF Flags
<1>1. ASSUME NEW alive, NEW n, Fail(alive, n) PROVE Flags'
  <2>1. CASE ~committed /\ alive
    BY <1>1, <2>1, WithdrawFlags, Zenon DEF Fail, dialogVars
  <2>2. CASE ~(~committed /\ alive)
    BY <1>1, <2>2, SlotFlags, Zenon DEF Fail, Reports
  <2> QED
    BY <2>1, <2>2
<1>2. ASSUME ReadUnexpected \/ OnProcessEnded \/ OnWriteError \/ OnTimeout PROVE Flags'
  BY <1>1, <1>2, Zenon DEF ReadUnexpected, OnProcessEnded, OnWriteError, OnTimeout
<1>3. ASSUME Start, shown' \in BOOLEAN PROVE Flags'
  BY <1>3, Zenon DEF Start, OnUnavailable, FinishPhoneFallback
<1>4. ASSUME Show PROVE Flags'
  <2>1. shown' \in BOOLEAN
    BY <1>4, Zenon DEF Show
  <2>2. CASE Start
    BY <1>3, <2>1, <2>2, Zenon
  <2>3. CASE UNCHANGED <<clientVars, wireVars, fallback, phoneCommitted, cancelled,
                         authenticating, fatalError, retryVisible, outcome>>
    BY <2>1, <2>3, Zenon DEF clientVars
  <2> QED
    BY <1>4, <2>2, <2>3, Zenon DEF Show
<1>5. ASSUME ClickRetry PROVE Flags'
  BY <1>3, <1>5, Zenon DEF ClickRetry
<1>6. ASSUME PressAuthorize \/ PressRunAsUser \/ Reject PROVE Flags'
  <2>1. CASE PressAuthorize
    BY <2>1, CancelFlags, Zenon DEF PressAuthorize
  <2>2. CASE PressRunAsUser
    BY <2>2, CancelFlags, Zenon DEF PressRunAsUser
  <2>3. CASE Reject
    BY <2>3, CancelFlags, Zenon DEF Reject
  <2> QED
    BY <1>6, <2>1, <2>2, <2>3
<1>7. ASSUME OnStarted PROVE Flags'
  BY <1>7, Zenon DEF OnStarted
<1>8. ASSUME ReadReady PROVE Flags'
  BY <1>8, CancelFlags, Zenon DEF ReadReady
<1>9. ASSUME ReadCanceled \/ ReadExecuted \/ ReadError PROVE Flags'
  BY <1>9, SlotFlags, Zenon DEF ReadCanceled, ReadExecuted, ReadError, Reports
<1>10. ASSUME CheckPassword \/ Dispose PROVE Flags'
  <2>1. CASE CheckPassword
    BY <2>1, Zenon DEF CheckPassword, clientVars
  <2>2. CASE Dispose
    BY <2>2, Zenon DEF Dispose
  <2> QED
    BY <1>10, <2>1, <2>2
<1>11. ASSUME UNCHANGED desktopVars PROVE Flags'
  BY <1>11, Zenon DEF desktopVars, clientVars, dialogVars
<1> QED
  BY <1>2, <1>4, <1>5, <1>6, <1>7, <1>8, <1>9, <1>10, <1>11
  DEF DesktopNext, DesktopStep, UserStep, ClientStep, ReadLateReady, OnShutdownGrace, OnReleasedGrace

\* Starting a helper, or finding it unusable, keeps the shape,
LEMMA StartKeeps ==
  ASSUME Shape, Start, shown', ~authenticating, outcome = "open"
  PROVE  Shape'
<1> USE AttemptsAssumption
    DEF Start, OnUnavailable, FinishPhoneFallback, Shape, Scalars, ClientShape, NotYetShown,
        PhoneExcludes, Resting, ClientStates, Outcomes, Attempts
<1>1. Scalars'
  OBVIOUS
<1>2. ClientShape'
  OBVIOUS
<1>3. NotYetShown'
  OBVIOUS
<1>4. (~cancelled' /\ ~authenticating') \/ (state' = "Finished" /\ ~cancelled')
  OBVIOUS
<1>5. PhoneExcludes'
  BY <1>4
<1> QED
  BY <1>1, <1>2, <1>3, <1>5

\* and so does giving up, with what the dialog makes of it.
LEMMA FailKeeps ==
  ASSUME Shape, Listening, NEW alive, NEW n, Fail(alive, n)
  PROVE  Shape'
<1> USE DEF Fail, Reports, Finish, Withdraw, OnUncertain, OnCanceled, OnUnavailable,
        FinishPhoneFallback, Listening, Shape, Scalars, ClientShape, NotYetShown,
        PhoneExcludes, Resting, ClientStates, Outcomes, dialogVars
<1>1. Scalars'
  OBVIOUS
<1>2. ClientShape'
  OBVIOUS
<1>3. NotYetShown' /\ PhoneExcludes'
  OBVIOUS
<1> QED
  BY <1>1, <1>2, <1>3

\* What the user does keeps it,
LEMMA UserKeeps == ASSUME Shape, UserStep PROVE Shape'
<1> USE DEF Shape, Scalars, ClientShape, NotYetShown, PhoneExcludes, Resting, ClientStates,
            Outcomes, Usable, clientVars, dialogVars
<1>1. ASSUME Show PROVE Shape'
  <2>1. ASSUME Start PROVE Shape'
    BY <1>1, <2>1, StartKeeps DEF Show
  <2>2. ASSUME ~Start PROVE Shape'
    BY <1>1, <2>2 DEF Show
  <2> QED
    BY <2>1, <2>2
<1>2. ASSUME ClickRetry PROVE Shape'
  BY <1>2, StartKeeps DEF ClickRetry
<1>3. ASSUME PressAuthorize \/ PressRunAsUser \/ Reject PROVE Shape'
  <2> USE DEF PressAuthorize, PressRunAsUser, Reject, Cancel, Withdraw, Busy, pending
  <2>1. Scalars'
    BY <1>3
  <2>2. ClientShape'
    BY <1>3
  <2>3. NotYetShown' /\ PhoneExcludes'
    BY <1>3
  <2> QED
    BY <2>1, <2>2, <2>3
<1> QED
  BY <1>1, <1>2, <1>3 DEF UserStep

\* what the helper says or becomes,
LEMMA ClientKeeps == ASSUME Shape, ClientStep PROVE Shape'
<1> USE DEF Shape, Scalars, ClientShape, NotYetShown, PhoneExcludes, Resting, ClientStates,
            Outcomes, Listening, Reads
<1>1. ASSUME OnStarted \/ ReadReady PROVE Shape'
  BY <1>1 DEF OnStarted, ReadReady, Cancel, Withdraw
<1>2. ASSUME ReadLateReady PROVE Shape'
  BY <1>2 DEF ReadLateReady, desktopVars, clientVars, dialogVars
<1>3. ASSUME ReadCanceled \/ ReadExecuted \/ ReadError PROVE Shape'
  <2> USE DEF Finish, OnExecuted, OnUncertain, OnCanceled, OnUnavailable, FinishPhoneFallback
  <2>1. CASE ReadCanceled
    BY <2>1 DEF ReadCanceled, pending
  <2>2. CASE ReadExecuted
    BY <2>2 DEF ReadExecuted
  <2>3. CASE ReadError
    <3>1. Fail(FALSE, 0)
      BY <2>3 DEF ReadError, Fail
    <3> QED
      BY <2>3, <3>1, FailKeeps DEF ReadError
  <2> QED
    BY <1>3, <2>1, <2>2, <2>3
<1>4. ASSUME ReadUnexpected \/ OnProcessEnded \/ OnWriteError PROVE Shape'
  BY <1>4, FailKeeps DEF ReadUnexpected, OnProcessEnded, OnWriteError
<1> QED
  BY <1>1, <1>2, <1>3, <1>4 DEF ClientStep

\* Other processes do not reach into it.
LEMMA DesktopRests == ASSUME DesktopInv, UNCHANGED desktopVars PROVE DesktopInv'
<1> USE DEF desktopVars, clientVars, dialogVars
<1>1. Flags'
  BY Zenon DEF DesktopInv, Flags
<1>2. Shape'
  BY DEF DesktopInv, Shape, Scalars, ClientShape, NotYetShown, PhoneExcludes
<1> QED
  BY <1>1, <1>2 DEF DesktopInv

\* and so does the rest of the event loop.
LEMMA DesktopKeeps == ASSUME DesktopInv, DesktopNext PROVE DesktopInv'
<1>1. Flags'
  BY FlagsKeep DEF DesktopInv
<1>2. ASSUME CheckPassword \/ Dispose PROVE Shape'
  BY <1>2
  DEF CheckPassword, Dispose, Usable, DesktopInv, Shape, Scalars, ClientShape, NotYetShown,
      PhoneExcludes, Resting, ClientStates, Outcomes, clientVars
<1>3. ASSUME OnTimeout PROVE Shape'
  BY <1>3, FailKeeps DEF OnTimeout, DesktopInv
<1>4. ASSUME UNCHANGED desktopVars PROVE Shape'
  BY <1>4, DesktopRests DEF DesktopInv
<1>5. Shape'
  BY <1>2, <1>3, <1>4, UserKeeps, ClientKeeps
  DEF DesktopInv, DesktopNext, DesktopStep, OnShutdownGrace, OnReleasedGrace
<1> QED
  BY <1>1, <1>5 DEF DesktopInv

\* The typed variables are the type invariant of the module.
LEMMA DesktopTypes == DesktopInv => DesktopTypeOK
<1> SUFFICES ASSUME DesktopInv PROVE DesktopTypeOK
  OBVIOUS
<1>1. {startSent, ready, committed, cancelRequested, failure, withdrawing, shown,
       phoneCommitted, cancelled, authenticating, fatalError, retryVisible} \subseteq BOOLEAN
  BY Zenon DEF DesktopInv, Flags
<1> QED
  BY <1>1 DEF DesktopInv, Shape, Scalars, DesktopTypeOK

-----------------------------------------------------------------------------
(* What the dialog and its client do to the wire.                          *)

\* Every line written goes to the present helper, and commit commits.
Writes ==
  \/ UNCHANGED toHelper
  \/ /\ attempt \in Attempts
     /\ \E e \in {"start", "commit", "cancel"} :
          /\ toHelper' = [toHelper EXCEPT ![attempt] = Append(@, e)]
          /\ e = "commit" => committed' /\ attempt' = attempt
\* Only ends of its own pipes are closed.
Closes == toClosed' \in [Attempts -> BOOLEAN] /\ fromClosed' \in BOOLEAN
\* Lines are taken from the front of what the present helper printed.
Takes ==
  \/ UNCHANGED fromHelper
  \/ /\ attempt \in Attempts
     /\ \E n \in 0..Len(fromHelper[attempt]) :
          fromHelper' = [fromHelper EXCEPT ![attempt] = SubSeq(@, n + 1, Len(@))]
\* A helper is forked once, for the next attempt.
Forks ==
  \/ UNCHANGED <<proc, attempt>>
  \/ /\ ~committed /\ attempt + 1 \in Attempts /\ attempt' = attempt + 1
     /\ proc' = [proc EXCEPT ![attempt + 1] = "forked"]

\* cancel() writes no commit,
LEMMA WithdrawWrites ==
  ASSUME DesktopInv, WireTypeOK, process # "none", Withdraw
  PROVE  Writes /\ toClosed' \in [Attempts -> BOOLEAN]
  BY DEF Withdraw, CloseWriteChannel, Writes, WireTypeOK, DesktopInv, Shape, ClientShape

\* with all it does,
LEMMA CancelWrites ==
  ASSUME DesktopInv, WireTypeOK, Cancel
  PROVE  Writes /\ toClosed' \in [Attempts -> BOOLEAN]
<1>1. ASSUME UNCHANGED <<toHelper, toClosed>> PROVE Writes /\ toClosed' \in [Attempts -> BOOLEAN]
  BY <1>1 DEF Writes, WireTypeOK
<1> QED
  BY <1>1, WithdrawWrites DEF Cancel

\* finish() drops the lines it has not read,
LEMMA FinishTakes ==
  ASSUME DesktopInv, WireTypeOK, Finish
  PROVE  Takes /\ toClosed' \in [Attempts -> BOOLEAN]
<1>1. CASE process = "none"
  BY <1>1 DEF Finish, Takes, WireTypeOK
<1>2. CASE process # "none"
  <2>1. attempt \in Attempts /\ fromHelper[attempt] \in Seq(Replies)
    BY <1>2 DEF DesktopInv, Shape, ClientShape, WireTypeOK
  <2>2. Len(fromHelper[attempt]) \in 0..Len(fromHelper[attempt])
    BY <2>1
  <2>3. SubSeq(fromHelper[attempt], Len(fromHelper[attempt]) + 1, Len(fromHelper[attempt])) = <<>>
    BY <2>1, SubSeqEmpty
  <2>4. fromHelper' = [fromHelper EXCEPT ![attempt] = <<>>]
    BY <1>2 DEF Finish
  <2>5. toClosed' \in [Attempts -> BOOLEAN]
    BY <1>2 DEF Finish, CloseWriteChannel, WireTypeOK
  <2>6. fromHelper' = [fromHelper EXCEPT ![attempt] =
                         SubSeq(@, Len(fromHelper[attempt]) + 1, Len(@))]
    BY <2>3, <2>4
  <2>7. Takes
    BY <2>1, <2>2, <2>6 DEF Takes
  <2> QED
    BY <2>5, <2>7
<1> QED
  BY <1>1, <1>2

\* and fail() does one or the other.
LEMMA FailWires ==
  ASSUME DesktopInv, WireTypeOK, Listening, NEW alive, NEW n \in 0..Len(fromHelper[attempt]),
         Fail(alive, n), UNCHANGED fromClosed
  PROVE  Writes /\ Takes /\ Closes
<1>0. attempt \in Attempts /\ fromClosed' \in BOOLEAN
  BY DEF Listening, DesktopInv, Shape, ClientShape, WireTypeOK
<1>1. CASE ~committed /\ alive
  <2>1. Withdraw /\ Lines(n)
    BY <1>1 DEF Fail
  <2>2. Takes
    BY <1>0, <2>1 DEF Lines, Takes
  <2> QED
    BY <1>0, <2>1, <2>2, WithdrawWrites DEF Listening, Closes
<1>2. CASE ~(~committed /\ alive)
  <2>1. Finish /\ UNCHANGED toHelper
    BY <1>2 DEF Fail
  <2> QED
    BY <1>0, <2>1, FinishTakes DEF Writes, Closes
<1> QED
  BY <1>1, <1>2

\* So every handler keeps to the wire's rules.
LEMMA DesktopWires ==
  ASSUME DesktopInv, WireTypeOK, DesktopNext
  PROVE  Writes /\ Takes /\ Closes
<1>1. ASSUME UNCHANGED <<toHelper, fromHelper>>, toClosed' \in [Attempts -> BOOLEAN],
             fromClosed' \in BOOLEAN
      PROVE  Writes /\ Takes /\ Closes
  BY <1>1 DEF Writes, Takes, Closes
<1>2. ASSUME UNCHANGED <<toHelper, fromHelper, toClosed, fromClosed>>
      PROVE  Writes /\ Takes /\ Closes
  BY <1>1, <1>2 DEF WireTypeOK
<1>3. ASSUME Show \/ ClickRetry \/ CheckPassword PROVE Writes /\ Takes /\ Closes
  BY <1>2, <1>3 DEF Show, ClickRetry, Start, CheckPassword, wireVars
<1>4. ASSUME PressAuthorize \/ PressRunAsUser \/ Reject PROVE Writes /\ Takes /\ Closes
  <2>1. UNCHANGED <<fromHelper, fromClosed>>
    BY <1>4 DEF PressAuthorize, PressRunAsUser, Reject
  <2>2. Cancel \/ UNCHANGED <<toHelper, toClosed>>
    BY <1>4 DEF PressAuthorize, PressRunAsUser, Reject
  <2>3. Writes /\ toClosed' \in [Attempts -> BOOLEAN]
    BY <1>2, <2>1, <2>2, CancelWrites DEF Closes
  <2> QED
    BY <2>1, <2>3 DEF Takes, Closes, WireTypeOK
<1>5. ASSUME OnStarted PROVE Writes /\ Takes /\ Closes
  <2>1. attempt \in Attempts /\ UNCHANGED <<fromHelper, fromClosed>>
    BY <1>5 DEF OnStarted, Listening, DesktopInv, Shape, ClientShape
  <2>2. \/ CloseWriteChannel /\ UNCHANGED toHelper
        \/ UNCHANGED toClosed /\ toHelper' = [toHelper EXCEPT ![attempt] = Append(@, "start")]
    BY <1>5 DEF OnStarted
  <2>3. Writes
    BY <2>1, <2>2 DEF Writes
  <2> QED
    BY <2>1, <2>2, <2>3 DEF CloseWriteChannel, Takes, Closes, WireTypeOK
<1>6. ASSUME ReadReady \/ ReadLateReady PROVE Writes /\ Takes /\ Closes
  <2>1. /\ attempt \in Attempts /\ fromHelper[attempt] # <<>> /\ Lines(1)
        /\ UNCHANGED <<fromClosed, attempt>>
    BY <1>6 DEF ReadReady, ReadLateReady, Reads, Listening, NoOtherWire, DesktopInv, Shape,
       ClientShape, desktopVars, clientVars
  <2>2. Takes
    <3>1. 1 \in 0..Len(fromHelper[attempt])
      BY <2>1 DEF WireTypeOK
    <3> QED
      BY <2>1, <3>1 DEF Takes, Lines
  <2>3. \/ Cancel
        \/ UNCHANGED <<toHelper, toClosed>>
        \/ /\ toHelper' = [toHelper EXCEPT ![attempt] = Append(@, "commit")] /\ UNCHANGED toClosed
           /\ committed' /\ attempt' = attempt
    BY <1>6, <2>1 DEF ReadReady, ReadLateReady
  <2>4. Writes /\ toClosed' \in [Attempts -> BOOLEAN]
    BY <2>1, <2>3, CancelWrites DEF Writes, WireTypeOK
  <2> QED
    BY <2>1, <2>2, <2>4 DEF Closes, WireTypeOK
<1>7. ASSUME ReadCanceled \/ ReadExecuted \/ ReadError PROVE Writes /\ Takes /\ Closes
  <2>1. Finish /\ UNCHANGED <<toHelper, fromClosed>>
    BY <1>7 DEF ReadCanceled, ReadExecuted, ReadError, NoOtherWire
  <2> QED
    BY <2>1, FinishTakes DEF Writes, Closes, WireTypeOK
<1>8. ASSUME ReadUnexpected PROVE Writes /\ Takes /\ Closes
  <2>1. PICK n \in 1..Len(fromHelper[attempt]), alive \in BOOLEAN : Fail(alive, n)
    BY <1>8 DEF ReadUnexpected
  <2>2. n \in 0..Len(fromHelper[attempt]) /\ Listening /\ UNCHANGED fromClosed
    BY <1>8, <2>1 DEF ReadUnexpected, Reads, NoOtherWire, WireTypeOK, Listening, DesktopInv, Shape,
       ClientShape
  <2> QED
    BY <2>1, <2>2, FailWires
<1>9. ASSUME OnProcessEnded \/ OnWriteError \/ OnTimeout PROVE Writes /\ Takes /\ Closes
  <2>1. Listening /\ UNCHANGED fromClosed /\ \E alive \in BOOLEAN : Fail(alive, 0)
    BY <1>9 DEF OnProcessEnded, OnWriteError, OnTimeout, NoOtherWire
  <2>2. 0 \in 0..Len(fromHelper[attempt])
    BY <2>1 DEF WireTypeOK, Listening, DesktopInv, Shape, ClientShape
  <2> QED
    BY <2>1, <2>2, FailWires
<1>10. ASSUME OnShutdownGrace \/ \E h \in Attempts : OnReleasedGrace(h)
       PROVE  Writes /\ Takes /\ Closes
  BY <1>2, <1>10 DEF OnShutdownGrace, OnReleasedGrace
<1>11. ASSUME Dispose PROVE Writes /\ Takes /\ Closes
  <2>1. \A h \in Attempts : (toClosed[h] \/ h = attempt) \in BOOLEAN
    OBVIOUS
  <2>2. toClosed' \in [Attempts -> BOOLEAN] /\ fromClosed' \in BOOLEAN
    BY <1>11, <2>1, Zenon DEF Dispose
  <2> QED
    BY <1>1, <1>11, <2>2 DEF Dispose
<1> QED
  BY <1>3, <1>4, <1>5, <1>6, <1>7, <1>8, <1>9, <1>10, <1>11
  DEF DesktopNext, DesktopStep, UserStep, ClientStep

\* A helper is forked by start() alone, and never after a commit.
LEMMA DesktopForks == ASSUME DesktopInv, DesktopNext PROVE Forks
<1> USE DEF Forks
<1>1. ASSUME Start, ~committed PROVE Forks
  BY <1>1, AttemptsAssumption DEF Start, DesktopInv, Shape, Scalars, Attempts
<1>2. ASSUME Show PROVE Forks
  BY <1>1, <1>2 DEF Show, clientVars, wireVars, DesktopInv, Shape, NotYetShown, PhoneExcludes
<1>3. ASSUME ClickRetry PROVE Forks
  BY <1>1, <1>3 DEF ClickRetry, Busy, DesktopInv, Shape, PhoneExcludes
<1>4. ASSUME UNCHANGED <<proc, attempt>> PROVE Forks
  BY <1>4
<1> QED
  BY <1>2, <1>3, <1>4
  DEF DesktopNext, DesktopStep, UserStep, ClientStep, PressAuthorize, PressRunAsUser, Reject, OnStarted,
      ReadReady, ReadLateReady, ReadCanceled, ReadExecuted, ReadError, ReadUnexpected,
      OnProcessEnded, OnWriteError, OnTimeout, OnShutdownGrace, OnReleasedGrace, Dispose,
      CheckPassword, Fail, NoOtherWire, desktopVars, clientVars, wireVars

\* Nothing takes a commit back.
LEMMA CommitStands == ASSUME DesktopInv, DesktopNext, committed PROVE committed'
  BY DEF DesktopNext, DesktopStep, UserStep, ClientStep, Show, ClickRetry, PressAuthorize, PressRunAsUser,
         Reject, Start, OnStarted, ReadReady, ReadLateReady, ReadCanceled, ReadExecuted,
         ReadError, ReadUnexpected, OnProcessEnded, OnWriteError, OnTimeout, OnShutdownGrace,
         OnReleasedGrace, Dispose, CheckPassword, Fail, desktopVars, clientVars

\* The pipes keep their types,
LEMMA DesktopStaysTyped == ASSUME DesktopInv, WireTypeOK, DesktopNext PROVE WireTypeOK'
<1> USE DEF WireTypeOK
<1>1. toHelper' \in [Attempts -> Seq(Events)]
  <2>1. {"start", "commit", "cancel"} \subseteq Events
    BY DEF Events
  <2>2. CASE UNCHANGED toHelper
    BY <2>2
  <2>3. ASSUME attempt \in Attempts, NEW e \in Events,
               toHelper' = [toHelper EXCEPT ![attempt] = Append(@, e)]
        PROVE  toHelper' \in [Attempts -> Seq(Events)]
    BY <2>3
  <2> QED
    BY <2>1, <2>2, <2>3, DesktopWires DEF Writes
<1>2. fromHelper' \in [Attempts -> Seq(Replies)]
  <2>1. CASE UNCHANGED fromHelper
    BY <2>1
  <2>2. ASSUME attempt \in Attempts, NEW n \in 0..Len(fromHelper[attempt]),
               fromHelper' = [fromHelper EXCEPT ![attempt] = SubSeq(@, n + 1, Len(@))]
        PROVE  fromHelper' \in [Attempts -> Seq(Replies)]
    BY <2>2
  <2> QED
    BY <2>1, <2>2, DesktopWires DEF Takes
<1>3. toClosed' \in [Attempts -> BOOLEAN] /\ fromClosed' \in BOOLEAN
  BY DesktopWires DEF Closes
<1>4. proc' \in [Attempts -> ProcStates]
  BY DesktopForks DEF Forks, ProcStates
<1>5. signalled' \in [Attempts -> BOOLEAN]
  BY DEF DesktopNext, DesktopStep, UserStep, ClientStep, Show, ClickRetry, PressAuthorize, PressRunAsUser,
         Reject, Start, OnStarted, ReadReady, ReadLateReady, ReadCanceled, ReadExecuted,
         ReadError, ReadUnexpected, OnProcessEnded, OnWriteError, OnTimeout, OnShutdownGrace,
         OnReleasedGrace, Dispose, CheckPassword, NoOtherWire, wireVars
<1> QED
  BY <1>1, <1>2, <1>3, <1>4, <1>5

\* a commit on a pipe was there before or is the present helper's,
LEMMA DesktopCommits ==
  ASSUME DesktopInv, WireTypeOK, DesktopNext, NEW h \in Attempts,
         NEW i \in 1..Len(toHelper'[h]), toHelper'[h][i] = "commit"
  PROVE  \/ \E j \in 1..Len(toHelper[h]) : toHelper[h][j] = "commit"
         \/ committed' /\ h = attempt /\ attempt' = attempt
<1> USE DEF WireTypeOK
<1>1. CASE toHelper'[h] = toHelper[h]
  BY <1>1
<1>2. CASE toHelper'[h] # toHelper[h]
  <2>1. /\ h = attempt
        /\ \E e \in {"start", "commit", "cancel"} :
             /\ toHelper'[h] = Append(toHelper[h], e)
             /\ e = "commit" => committed' /\ attempt' = attempt
    BY <1>2, DesktopWires DEF Writes
  <2>2. PICK e \in {"start", "commit", "cancel"} :
             /\ toHelper'[h] = Append(toHelper[h], e)
             /\ e = "commit" => committed' /\ attempt' = attempt
    BY <2>1
  <2>3. toHelper[h] \in Seq(Events) /\ e \in Events
    BY DEF Events
  <2>4. Len(toHelper'[h]) = Len(toHelper[h]) + 1 /\ Len(toHelper[h]) \in Nat
    BY <2>2, <2>3, AppendProperties
  <2>5. CASE i = Len(toHelper[h]) + 1
    BY <2>1, <2>2, <2>3, <2>5, AppendProperties
  <2>6. CASE i # Len(toHelper[h]) + 1
    <3>1. i \in 1..Len(toHelper[h])
      BY <2>4, <2>6
    <3> QED
      BY <2>2, <2>3, <3>1, AppendProperties
  <2> QED
    BY <2>5, <2>6
<1> QED
  BY <1>1, <1>2

\* and what is left to read was said, in that order.
LEMMA DesktopReads ==
  ASSUME DesktopInv, WireTypeOK, DesktopNext, NEW h \in Attempts
  PROVE  \E n \in Nat : /\ Len(fromHelper'[h]) + n = Len(fromHelper[h])
                        /\ \A i \in 1..Len(fromHelper'[h]) :
                             fromHelper'[h][i] = fromHelper[h][i + n]
<1> USE DEF WireTypeOK
<1>1. CASE fromHelper'[h] = fromHelper[h]
  <2>1. Len(fromHelper[h]) \in Nat /\ 0 \in Nat
    OBVIOUS
  <2>2. /\ Len(fromHelper[h]) + 0 = Len(fromHelper[h])
        /\ \A i \in 1..Len(fromHelper[h]) : fromHelper[h][i] = fromHelper[h][i + 0]
    BY <2>1
  <2> QED
    BY <1>1, <2>1, <2>2
<1>2. CASE fromHelper'[h] # fromHelper[h]
  <2>1. PICK n \in 0..Len(fromHelper[h]) :
             fromHelper'[h] = SubSeq(fromHelper[h], n + 1, Len(fromHelper[h]))
    BY <1>2, DesktopWires DEF Takes
  <2> DEFINE s == fromHelper[h]
             m == Len(s)
  <2>2. s \in Seq(Replies) /\ m \in Nat /\ n \in Nat /\ n <= m
    OBVIOUS
  <2>3. \A i \in (n + 1)..m : s[i] \in Replies
    BY <2>2
  <2>4. /\ Len(SubSeq(s, n + 1, m)) = IF n + 1 <= m THEN m - (n + 1) + 1 ELSE 0
        /\ \A i \in 1..(m - (n + 1) + 1) : SubSeq(s, n + 1, m)[i] = s[(n + 1) + i - 1]
    BY <2>2, <2>3, SubSeqProperties
  <2>5. Len(SubSeq(s, n + 1, m)) = m - n
    BY <2>2, <2>4
  <2>6. \A i \in 1..(m - n) : SubSeq(s, n + 1, m)[i] = s[i + n]
    BY <2>2, <2>4
  <2> QED
    BY <2>1, <2>2, <2>5, <2>6
<1> QED
  BY <1>1, <1>2
=============================================================================
