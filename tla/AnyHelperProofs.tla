--------------------------- MODULE AnyHelperProofs ---------------------------
(***************************************************************************)
(* Theorems about the dialog and its client with a helper that may print   *)
(* any line and die at any time, for any number of attempts.               *)
(***************************************************************************)
EXTENDS AnyHelper, DesktopProofs

\* A helper is sent nothing, a start line, or that and one verdict.
Conversation(s) ==
  /\ s \in Seq(Events)
  /\ Len(s) <= 2
  /\ Len(s) > 0 => s[1] = "start"
  /\ Len(s) > 1 => s[2] \in {"commit", "cancel"}

\* What was sent to each helper, as the state of the client tells: nothing to
\* the later ones, and no open pipe with a request but the present one's.
PipeInv ==
  /\ DOMAIN toHelper = Attempts /\ toClosed \in [Attempts -> BOOLEAN]
  /\ \A h \in Attempts :
       /\ Conversation(toHelper[h])
       /\ h > attempt => Len(toHelper[h]) = 0
       /\ Len(toHelper[h]) > 1 /\ toHelper[h][2] = "commit" => h = attempt /\ committed
       /\ Len(toHelper[h]) > 0 /\ ~toClosed[h] =>
            h = attempt /\ state \in {"Waiting", "Committed"}
  /\ process # "none" /\ ~startSent => Len(toHelper[attempt]) = 0
  /\ state = "Waiting" => Len(toHelper[attempt]) = 1

\* The client believes its helper to run only once it was started.
LivingInv ==
  /\ DOMAIN proc = Attempts
  /\ process = "running" => proc[attempt] \in {"running", "exited"}

AnyHelperInv == DesktopInv /\ PipeInv /\ LivingInv

-----------------------------------------------------------------------------
\* Appending: the kind of the result, its length, and its elements.
LEMMA AppendTyped ==
  ASSUME NEW S, NEW s \in Seq(S), NEW e \in S PROVE Append(s, e) \in Seq(S)
  OBVIOUS

LEMMA AppendLen ==
  ASSUME NEW S, NEW s \in Seq(S), NEW e \in S PROVE Len(Append(s, e)) = Len(s) + 1
  OBVIOUS

LEMMA AppendKeeps ==
  ASSUME NEW S, NEW s \in Seq(S), NEW e \in S, NEW i \in 1..Len(s)
  PROVE  Append(s, e)[i] = s[i]
  OBVIOUS

LEMMA AppendLast ==
  ASSUME NEW S, NEW s \in Seq(S), NEW e \in S PROVE Append(s, e)[Len(s) + 1] = e
  OBVIOUS

\* A second line behind the first.
LEMMA SecondLine ==
  ASSUME NEW S, NEW s \in Seq(S), Len(s) = 1, NEW e \in S
  PROVE  /\ Append(s, e) \in Seq(S) /\ Len(Append(s, e)) = 2
         /\ Append(s, e)[1] = s[1] /\ Append(s, e)[2] = e
<1>1. Append(s, e) \in Seq(S)
  BY AppendTyped
<1>2. Len(Append(s, e)) = 2
  BY AppendLen
<1>3. 1 \in 1..Len(s)
  OBVIOUS
<1>4. Append(s, e)[1] = s[1]
  BY <1>3, AppendKeeps
<1>5. Append(s, e)[2] = e
  <2>1. Len(s) + 1 = 2
    OBVIOUS
  <2>2. Append(s, e)[Len(s) + 1] = e
    BY AppendLast, Zenon
  <2> QED
    BY <2>1, <2>2, Zenon
<1> QED
  BY <1>1, <1>2, <1>4, <1>5

\* The writes of the client make conversations of conversations.
LEMMA StartWritten ==
  ASSUME NEW s, Conversation(s), Len(s) = 0
  PROVE  /\ Conversation(Append(s, "start")) /\ Len(Append(s, "start")) = 1
  BY DEF Conversation, Events

\* The second line is the verdict.
LEMMA VerdictWritten ==
  ASSUME NEW s, Conversation(s), Len(s) = 1, NEW e \in {"commit", "cancel"}
  PROVE  /\ Conversation(Append(s, e)) /\ Len(Append(s, e)) = 2
         /\ Append(s, e)[2] = e
<1>1. s \in Seq(Events) /\ e \in Events /\ s[1] = "start"
  BY DEF Conversation, Events
<1>2. /\ Append(s, e) \in Seq(Events) /\ Len(Append(s, e)) = 2
      /\ Append(s, e)[1] = s[1] /\ Append(s, e)[2] = e
  BY <1>1, SecondLine, Zenon
<1> QED
  BY <1>1, <1>2 DEF Conversation

\* Put in its place: what one write does to the pipes.
LEMMA WriteLands ==
  ASSUME PipeInv, attempt \in Attempts, NEW e,
         \/ e = "start" /\ Len(toHelper[attempt]) = 0
         \/ e \in {"commit", "cancel"} /\ Len(toHelper[attempt]) = 1,
         toHelper' = [toHelper EXCEPT ![attempt] = Append(@, e)]
  PROVE  /\ DOMAIN toHelper' = Attempts
         /\ \A h \in Attempts : Conversation(toHelper'[h])
         /\ \A h \in Attempts \ {attempt} : toHelper'[h] = toHelper[h]
         /\ Len(toHelper'[attempt]) = IF e = "start" THEN 1 ELSE 2
         /\ e # "start" => toHelper'[attempt][2] = e
<1>1. toHelper'[attempt] = Append(toHelper[attempt], e)
  BY DEF PipeInv
<1> QED
  BY <1>1, StartWritten, VerdictWritten DEF PipeInv

\* A withdrawal sends cancel after the start line, if that was sent, and closes
\* the pipe.
LEMMA WithdrawPipes ==
  ASSUME AnyHelperInv, state \in {"Starting", "Waiting", "Cancelling"}, Withdraw,
         state' = "Cancelling", UNCHANGED <<process, attempt, startSent, committed>>
  PROVE  PipeInv'
<1> USE DEF AnyHelperInv, DesktopInv, Shape, Scalars, ClientShape, PhoneExcludes, Resting,
            ClientStates
<1>1. CASE withdrawing
  BY <1>1 DEF Withdraw, PipeInv
<1>2. CASE ~withdrawing /\ startSent
  <2>1. state = "Waiting" /\ attempt \in Attempts /\ Len(toHelper[attempt]) = 1
    BY <1>2 DEF PipeInv
  <2>2. /\ toHelper' = [toHelper EXCEPT ![attempt] = Append(@, "cancel")]
        /\ toClosed' = [toClosed EXCEPT ![attempt] = TRUE]
    BY <1>2 DEF Withdraw, CloseWriteChannel
  <2>3. /\ DOMAIN toHelper' = Attempts
        /\ \A h \in Attempts : Conversation(toHelper'[h])
        /\ \A h \in Attempts \ {attempt} : toHelper'[h] = toHelper[h]
        /\ Len(toHelper'[attempt]) = 2 /\ toHelper'[attempt][2] = "cancel"
    <3>1. PipeInv /\ "cancel" \in {"commit", "cancel"} /\ "cancel" # "start"
      OBVIOUS
    <3> QED
      BY <2>1, <2>2, <3>1, WriteLands
  <2>4. /\ toClosed' \in [Attempts -> BOOLEAN] /\ toClosed'[attempt]
        /\ \A h \in Attempts \ {attempt} : toClosed'[h] = toClosed[h]
    BY <2>1, <2>2 DEF PipeInv
  <2> QED
    BY <1>2, <2>1, <2>3, <2>4 DEF PipeInv
<1>3. CASE ~withdrawing /\ ~startSent
  BY <1>3 DEF Withdraw, CloseWriteChannel, PipeInv
<1> QED
  BY <1>1, <1>2, <1>3

\* Letting go of the helper closes its pipe, whatever was sent.
LEMMA FinishPipes ==
  ASSUME DesktopInv, PipeInv, process # "none", Finish,
         UNCHANGED <<toHelper, attempt, startSent, committed>>
  PROVE  PipeInv'
  BY DEF Finish, CloseWriteChannel, DesktopInv, Shape, Scalars, ClientShape, Resting, PipeInv

\* What cancel() does to the pipes.
LEMMA CancelPipes ==
  ASSUME AnyHelperInv, Cancel, UNCHANGED <<attempt, startSent, committed>>
  PROVE  PipeInv'
<1> USE DEF AnyHelperInv, DesktopInv, Shape, Scalars, ClientShape, PhoneExcludes, Resting,
            ClientStates
<1>1. CASE state = "Finished" \/ committed \/ cancelRequested
  BY <1>1 DEF Cancel, PipeInv
<1>2. CASE ~(state = "Finished" \/ committed \/ cancelRequested) /\ process = "none"
  BY <1>2 DEF Cancel, PipeInv
<1>3. CASE ~(state = "Finished" \/ committed \/ cancelRequested) /\ process # "none"
  <2>1. state \in {"Starting", "Waiting", "Cancelling"}
    BY <1>3
  <2> QED
    BY <1>3, <2>1, WithdrawPipes DEF Cancel
<1> QED
  BY <1>1, <1>2, <1>3

\* What giving up does to them,
LEMMA FailPipes ==
  ASSUME AnyHelperInv, Listening, NEW alive, NEW n, Fail(alive, n)
  PROVE  PipeInv'
<1>1. CASE ~committed /\ alive
  <2>1. state \in {"Starting", "Waiting", "Cancelling"}
    BY <1>1 DEF Listening, AnyHelperInv, DesktopInv, Shape, Scalars, ClientShape, PhoneExcludes,
       Resting, ClientStates
  <2> QED
    BY <1>1, <2>1, WithdrawPipes DEF Fail
<1>2. CASE ~(~committed /\ alive)
  BY <1>2, FinishPipes DEF Fail, Listening, AnyHelperInv
<1> QED
  BY <1>1, <1>2

\* and what starting a helper does.
LEMMA StartPipes == ASSUME AnyHelperInv, Start PROVE PipeInv'
  BY AttemptsAssumption
  DEF AnyHelperInv, DesktopInv, Shape, Scalars, ClientShape, PhoneExcludes, Resting,
      ClientStates, Start, PipeInv, Attempts

\* The first line goes to a helper that was sent nothing.
LEMMA StartedPipes == ASSUME AnyHelperInv, OnStarted PROVE PipeInv'
<1> USE DEF AnyHelperInv, DesktopInv, Shape, Scalars, ClientShape, PhoneExcludes, Resting,
            ClientStates, Listening
<1>1. CASE state = "Cancelling"
  BY <1>1 DEF OnStarted, CloseWriteChannel, PipeInv
<1>2. CASE state # "Cancelling"
  <2>1. attempt \in Attempts /\ Len(toHelper[attempt]) = 0 /\ ~committed
    BY <1>2 DEF OnStarted, PipeInv
  <2>2. /\ toHelper' = [toHelper EXCEPT ![attempt] = Append(@, "start")]
        /\ state' = "Waiting" /\ startSent'
        /\ UNCHANGED <<attempt, committed, toClosed>>
    BY <1>2 DEF OnStarted
  <2>3. /\ DOMAIN toHelper' = Attempts
        /\ \A h \in Attempts : Conversation(toHelper'[h])
        /\ \A h \in Attempts \ {attempt} : toHelper'[h] = toHelper[h]
        /\ Len(toHelper'[attempt]) = 1
    BY <2>1, <2>2, WriteLands
  <2> QED
    BY <2>1, <2>2, <2>3 DEF PipeInv
<1> QED
  BY <1>1, <1>2

\* The commit goes to a helper that was sent only that.
LEMMA ReadyPipes == ASSUME AnyHelperInv, ReadReady PROVE PipeInv'
<1> USE DEF AnyHelperInv, DesktopInv, Shape, Scalars, ClientShape, PhoneExcludes, Resting,
            ClientStates, Listening
<1>1. CASE fallback # "None" \/ cancelled \/ authenticating
  BY <1>1, CancelPipes DEF ReadReady
<1>2. CASE ~(fallback # "None" \/ cancelled \/ authenticating)
  <2>1. /\ attempt \in Attempts /\ Len(toHelper[attempt]) = 1 /\ startSent
        /\ state = "Waiting"
    BY DEF ReadReady, Reads, PipeInv
  <2>2. /\ toHelper' = [toHelper EXCEPT ![attempt] = Append(@, "commit")]
        /\ state' = "Committed" /\ committed' = TRUE
        /\ UNCHANGED <<attempt, startSent, toClosed, process>>
    BY <1>2 DEF ReadReady
  <2>3. /\ DOMAIN toHelper' = Attempts
        /\ \A h \in Attempts : Conversation(toHelper'[h])
        /\ \A h \in Attempts \ {attempt} : toHelper'[h] = toHelper[h]
        /\ Len(toHelper'[attempt]) = 2 /\ toHelper'[attempt][2] = "commit"
    <3>1. "commit" \in {"commit", "cancel"} /\ "commit" # "start"
      OBVIOUS
    <3> QED
      BY <2>1, <2>2, <3>1, WriteLands
  <2> QED
    BY <2>1, <2>2, <2>3 DEF PipeInv
<1> QED
  BY <1>1, <1>2

\* Every other step leaves what was sent, to whom and by whom.
LEMMA PipesRest ==
  ASSUME PipeInv, UNCHANGED <<toHelper, toClosed, state, process, attempt, startSent, committed>>
  PROVE  PipeInv'
  BY DEF PipeInv

\* All steps of the desktop together.
LEMMA PipesKeep == ASSUME AnyHelperInv, DesktopNext PROVE PipeInv'
<1>1. ASSUME Show \/ ClickRetry PROVE PipeInv'
  BY <1>1, StartPipes, PipesRest DEF Show, ClickRetry, clientVars, wireVars, AnyHelperInv
<1>2. ASSUME PressAuthorize \/ PressRunAsUser \/ Reject PROVE PipeInv'
  BY <1>2, CancelPipes, PipesRest
  DEF PressAuthorize, PressRunAsUser, Reject, AnyHelperInv
<1>3. ASSUME ReadCanceled \/ ReadExecuted \/ ReadError PROVE PipeInv'
  BY <1>3, FinishPipes DEF ReadCanceled, ReadExecuted, ReadError, Reads, Listening, AnyHelperInv
<1>4. ASSUME ReadUnexpected \/ OnProcessEnded \/ OnWriteError \/ OnTimeout PROVE PipeInv'
  BY <1>4, FailPipes DEF ReadUnexpected, OnProcessEnded, OnWriteError, OnTimeout, Reads
<1>5. ASSUME Dispose PROVE PipeInv'
  BY <1>5 DEF Dispose, PipeInv, AnyHelperInv, DesktopInv, Shape, Scalars
<1>6. ASSUME CheckPassword \/ ReadLateReady \/ OnShutdownGrace \/ \E h \in Attempts : OnReleasedGrace(h)
      PROVE  PipeInv'
  BY <1>6, PipesRest
  DEF CheckPassword, ReadLateReady, OnShutdownGrace, OnReleasedGrace, desktopVars, clientVars,
      wireVars, AnyHelperInv
<1> QED
  BY <1>1, <1>2, <1>3, <1>4, <1>5, <1>6, StartedPipes, ReadyPipes
  DEF DesktopNext, DesktopStep, UserStep, ClientStep

\* No step of the desktop makes the client believe in a helper that never ran.
LEMMA LivingKeeps == ASSUME AnyHelperInv, DesktopNext PROVE LivingInv'
<1>1. DOMAIN proc' = Attempts
  BY DesktopForks DEF Forks, AnyHelperInv, LivingInv
<1>2. ASSUME Show \/ ClickRetry, process' = "running" PROVE process = "running" /\ UNCHANGED <<proc, attempt>>
  BY <1>2 DEF Show, ClickRetry, Start, clientVars, wireVars
<1>3. ASSUME PressAuthorize \/ PressRunAsUser \/ Reject PROVE process' = process /\ UNCHANGED <<proc, attempt>>
  BY <1>3 DEF PressAuthorize, PressRunAsUser, Reject, Cancel
<1>4. ASSUME ReadReady \/ ReadLateReady \/ CheckPassword \/ OnShutdownGrace
             \/ \E h \in Attempts : OnReleasedGrace(h)
      PROVE  process' = process /\ UNCHANGED <<proc, attempt>>
  BY <1>4 DEF ReadReady, ReadLateReady, CheckPassword, OnShutdownGrace, OnReleasedGrace, Cancel,
     NoOtherWire, desktopVars, clientVars, wireVars
<1>5. ASSUME ReadCanceled \/ ReadExecuted \/ ReadError \/ Dispose PROVE process' = "none"
  BY <1>5 DEF ReadCanceled, ReadExecuted, ReadError, Dispose, Finish
<1>6. ASSUME NEW alive, NEW n, Fail(alive, n), NoOtherWire
      PROVE  process' \in {process, "none"} /\ UNCHANGED <<proc, attempt>>
  BY <1>6 DEF Fail, Finish, NoOtherWire
<1>7. ASSUME ReadUnexpected \/ OnProcessEnded \/ OnWriteError \/ OnTimeout
      PROVE  process' \in {process, "none"} /\ UNCHANGED <<proc, attempt>>
  BY <1>6, <1>7 DEF ReadUnexpected, OnProcessEnded, OnWriteError, OnTimeout
<1>8. ASSUME OnStarted PROVE proc'[attempt'] \in {"running", "exited"}
  BY <1>8 DEF OnStarted
<1>9. \/ Show \/ ClickRetry \/ PressAuthorize \/ PressRunAsUser \/ Reject
      \/ ReadReady \/ ReadLateReady \/ CheckPassword \/ OnShutdownGrace
      \/ \E h \in Attempts : OnReleasedGrace(h)
      \/ ReadCanceled \/ ReadExecuted \/ ReadError \/ Dispose
      \/ ReadUnexpected \/ OnProcessEnded \/ OnWriteError \/ OnTimeout \/ OnStarted
  BY DEF DesktopNext, DesktopStep, UserStep, ClientStep
<1> QED
  BY <1>1, <1>2, <1>3, <1>4, <1>5, <1>7, <1>8, <1>9 DEF AnyHelperInv, LivingInv

-----------------------------------------------------------------------------
\* The invariant holds before the window opens,
LEMMA AnyHelperStarts == Init => AnyHelperInv
<1> SUFFICES ASSUME Init PROVE AnyHelperInv
  OBVIOUS
<1>1. DesktopInv
  BY DesktopStarts DEF Init
<1>2. \A h \in Attempts : toHelper[h] = <<>> /\ Conversation(<<>>)
  BY DEF Init, WireInit, Conversation, Events
<1>3. PipeInv
  BY <1>2 DEF Init, DesktopInit, WireInit, PipeInv
<1>4. LivingInv
  BY DEF Init, DesktopInit, WireInit, LivingInv
<1> QED
  BY <1>1, <1>3, <1>4 DEF AnyHelperInv

\* and every step keeps it.
LEMMA AnyHelperKeeps == AnyHelperInv /\ [Next]_vars => AnyHelperInv'
<1> SUFFICES ASSUME AnyHelperInv, [Next]_vars PROVE AnyHelperInv'
  OBVIOUS
<1>1. ASSUME DesktopNext PROVE AnyHelperInv'
  BY <1>1, DesktopKeeps, PipesKeep, LivingKeeps DEF AnyHelperInv
<1>2. ASSUME UNCHANGED <<desktopVars, toHelper, toClosed>>, LivingInv' PROVE AnyHelperInv'
  BY <1>2, DesktopRests, PipesRest DEF AnyHelperInv, desktopVars, clientVars
<1>3. ASSUME UNCHANGED <<desktopVars, proc>> PROVE LivingInv'
  BY <1>3 DEF AnyHelperInv, LivingInv, desktopVars, clientVars
<1>4. ASSUME NEW h \in Attempts, HelperMoves(h) PROVE LivingInv'
  <2>1. /\ DOMAIN proc' = DOMAIN proc /\ UNCHANGED <<process, attempt>>
        /\ \A g \in DOMAIN proc \ {h} : proc'[g] = proc[g]
    BY <1>4 DEF HelperMoves, desktopVars, clientVars
  <2>2. /\ h \in DOMAIN proc /\ proc[h] \in {"forked", "running"}
        /\ proc[h] = "running" => proc'[h] = "exited"
    BY <1>4 DEF HelperMoves, AnyHelperInv, LivingInv
  <2>3. process = "running" => attempt \in Attempts
    BY DEF AnyHelperInv, DesktopInv, Shape, ClientShape
  <2> QED
    BY <2>1, <2>2, <2>3 DEF AnyHelperInv, LivingInv
<1> QED
  BY <1>1, <1>2, <1>3, <1>4 DEF Next, DesktopNext, HelperSpeaks, HelperMoves, vars, seen, wireVars

\* So it always holds.
LEMMA AnyHelperInvHolds == Spec => []AnyHelperInv
  BY AnyHelperStarts, AnyHelperKeeps, PTL DEF Spec

(* The dialog's and the client's variables keep their types, with whatever *)
(* the helper says.                                                        *)
THEOREM DesktopIsTyped == Spec => []DesktopTypeOK
<1>1. AnyHelperInv => DesktopTypeOK
  BY DesktopTypes DEF AnyHelperInv
<1> QED
  BY <1>1, AnyHelperInvHolds, PTL

(* One execution owner, from the dialog's side, for any number of retries: *)
(* once a helper was sent commit, no password is checked and the dialog    *)
(* never ends as Accepted or AsUser, whatever that helper does.            *)
THEOREM CommitExcludes == Spec => []CommitExcludesAlternatives
<1>1. AnyHelperInv => CommitExcludesAlternatives
  <2> SUFFICES ASSUME AnyHelperInv, NEW h \in Attempts, Sent(h, "commit")
               PROVE  ~authenticating /\ outcome \notin {"Accepted", "AsUser"}
    BY DEF CommitExcludesAlternatives
  <2>1. PICK i \in DOMAIN toHelper[h] : toHelper[h][i] = "commit"
    BY DEF Sent
  <2>2. /\ Conversation(toHelper[h])
        /\ DOMAIN toHelper[h] = 1..Len(toHelper[h]) /\ Len(toHelper[h]) \in Nat
    BY DEF AnyHelperInv, PipeInv, Conversation
  <2>3. i # 1
    BY <2>1, <2>2 DEF Conversation
  <2>4. Len(toHelper[h]) <= 2
    BY <2>2 DEF Conversation
  <2>5. i = 2 /\ Len(toHelper[h]) > 1
    BY <2>2, <2>3, <2>4
  <2>6. committed
    BY <2>1, <2>5 DEF AnyHelperInv, PipeInv
  <2> QED
    BY <2>6 DEF AnyHelperInv, DesktopInv, Shape, PhoneExcludes
<1> QED
  BY <1>1, AnyHelperInvHolds, PTL

(* withdraw(), the commit and the reset in start() together: every helper  *)
(* gets at most a start line and one verdict after it.                     *)
THEOREM VerdictIsOne == Spec => []OneVerdict
<1>1. AnyHelperInv => OneVerdict
  <2> SUFFICES ASSUME AnyHelperInv, NEW h \in Attempts
               PROVE  /\ ~(Sent(h, "commit") /\ Sent(h, "cancel"))
                      /\ \A i \in DOMAIN toHelper[h] :
                           /\ toHelper[h][i] = "start" <=> i = 1
                           /\ i <= 2
    BY DEF OneVerdict
  <2>1. /\ Conversation(toHelper[h])
        /\ DOMAIN toHelper[h] = 1..Len(toHelper[h]) /\ Len(toHelper[h]) \in Nat
    BY DEF AnyHelperInv, PipeInv, Conversation
  <2>2. \A i \in DOMAIN toHelper[h] : i = 1 \/ i = 2
    BY <2>1 DEF Conversation
  <2> QED
    BY <2>1, <2>2 DEF Sent, Conversation
<1> QED
  BY <1>1, AnyHelperInvHolds, PTL

(* The withdrawal the dialog promised comes first: while a password check  *)
(* is queued or once an alternative was taken, no helper that was sent a   *)
(* request still has its pipe open.                                        *)
THEOREM WithdrawalComesFirst == Spec => []AlternativeOnlyAfterWithdrawal
<1>1. AnyHelperInv => AlternativeOnlyAfterWithdrawal
  <2> SUFFICES ASSUME AnyHelperInv, authenticating \/ outcome \in {"Accepted", "AsUser"},
                      NEW h \in Attempts, Sent(h, "start")
               PROVE  toClosed[h]
    BY DEF AlternativeOnlyAfterWithdrawal
  <2>1. Len(toHelper[h]) > 0
    <3>1. DOMAIN toHelper[h] = 1..Len(toHelper[h]) /\ Len(toHelper[h]) \in Nat
      BY DEF AnyHelperInv, PipeInv, Conversation
    <3> QED
      BY <3>1 DEF Sent
  <2> QED
    BY <2>1 DEF AnyHelperInv, PipeInv, DesktopInv, Shape, PhoneExcludes, Resting
<1> QED
  BY <1>1, AnyHelperInvHolds, PTL

(* The commit is final: the client stays Committed or Finished, and Retry  *)
(* never starts another helper.                                            *)
THEOREM CommitStays == Spec => CommitIsFinal
<1> DEFINE Final ==
      committed => committed' /\ attempt' = attempt /\ state' \in {"Committed", "Finished"}
<1>1. AnyHelperInv /\ [Next]_vars => [Final]_vars
  <2> SUFFICES ASSUME AnyHelperInv, Next, committed PROVE Final
    OBVIOUS
  <2>1. AnyHelperInv'
    BY AnyHelperKeeps
  <2>2. committed' /\ attempt' = attempt
    BY CommitStands, DesktopForks
    DEF Next, DesktopNext, HelperSpeaks, HelperMoves, AnyHelperInv, Forks, desktopVars, clientVars
  <2> QED
    BY <2>1, <2>2 DEF AnyHelperInv, DesktopInv, Shape, PhoneExcludes
<1>2. Spec => [][Final]_vars
  BY <1>1, AnyHelperInvHolds, PTL DEF Spec
<1> QED
  BY <1>2 DEF CommitIsFinal

(* The line that came with the exit: a committed client that can read      *)
(* executed reports it, whatever else the helper printed and however it    *)
(* ended, unless its timer was first.                                      *)
THEOREM ExecutedIsHeard == Spec => LastLineIsRead
<1> DEFINE Heard ==
      (ExecutedWaits /\ state' = "Finished") => (outcome' = "PhoneExecuted" \/ rang')
<1>1. AnyHelperInv /\ [Next]_vars => [Heard]_vars
  <2> SUFFICES ASSUME AnyHelperInv, Next, ExecutedWaits,
                      state' = "Finished", ~rang'
               PROVE  outcome' = "PhoneExecuted"
    OBVIOUS
  <2> USE DEF ExecutedWaits, AnyHelperInv, DesktopInv, Shape, Scalars, ClientShape, NotYetShown,
              PhoneExcludes, Resting, LivingInv
  <2>1. committed /\ phoneCommitted /\ process = "running"
    OBVIOUS
  <2>2. DesktopStep
    BY Zenon DEF Next, HelperSpeaks, HelperMoves, desktopVars, clientVars
  <2>3. CASE UserStep
    BY <2>1, <2>3 DEF UserStep, Show, ClickRetry, PressAuthorize, PressRunAsUser, Reject, Busy, Cancel, Start
  <2>4. CASE ClientStep
    <3>1. CASE ReadExecuted
      BY <2>1, <3>1 DEF ReadExecuted, OnExecuted
    <3>2. ~OnStarted /\ ~ReadReady /\ ~ReadLateReady /\ ~ReadCanceled
      BY <2>1 DEF OnStarted, ReadReady, ReadLateReady, ReadCanceled
    <3>3. ~ReadError /\ ~ReadUnexpected
      BY DEF ReadError, ReadUnexpected, Reads, Expected
    <3>4. ~OnProcessEnded /\ ~OnWriteError
      BY DEF OnProcessEnded, OnWriteError
    <3> QED
      BY <2>4, <3>1, <3>2, <3>3, <3>4 DEF ClientStep
  <2>5. CASE CheckPassword \/ Dispose \/ OnShutdownGrace \/ \E h \in Attempts : OnReleasedGrace(h)
    BY <2>1, <2>5 DEF CheckPassword, Dispose, OnShutdownGrace, OnReleasedGrace, desktopVars, clientVars
  <2> QED
    BY <2>2, <2>3, <2>4, <2>5 DEF DesktopStep
<1>2. Spec => [][Heard]_vars
  BY <1>1, AnyHelperInvHolds, PTL DEF Spec
<1> QED
  BY <1>2 DEF LastLineIsRead
=============================================================================
