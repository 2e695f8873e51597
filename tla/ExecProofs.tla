----------------------------- MODULE ExecProofs -----------------------------
(***************************************************************************)
(* Theorems about the dialog, its client and all the helpers it starts,    *)
(* joined by their pipes, for any number of attempts: who owns the         *)
(* execution, and what a reported success means.                           *)
(***************************************************************************)
EXTENDS KdesuExec, DesktopProofs, HelperProofs

\* Only the present helper of a committed client can act on a commit, a helper
\* that was not started does nothing, and success was said by the helper.
JoinInv ==
  /\ \A h \in Attempts : Spurred(h) => h = attempt /\ committed
  /\ \A h \in Attempts : h > attempt => proc[h] = "none"
  /\ outcome = "PhoneExecuted" => attempt \in Attempts /\ launched[attempt] = 1 /\ committed

ExecInv == DesktopInv /\ Types /\ (\A h \in Attempts : LaunchInv(h) /\ Speech(h)) /\ JoinInv

-----------------------------------------------------------------------------
(* The steps of the dialog, as far as the outcome goes.                    *)

Undecided == outcome = "open" /\ ~authenticating /\ ~committed

\* What a step of the dialog or its client decides.
NoDecision   == UNCHANGED <<outcome, authenticating, committed>>
DecidePhone  == Undecided /\ committed' /\ UNCHANGED <<outcome, authenticating>>
QueueCheck   == Undecided /\ authenticating' /\ UNCHANGED <<outcome, committed>>
CheckEnds    == /\ outcome = "open" /\ authenticating /\ ~committed
                /\ outcome' \in {"open", "Accepted"} /\ ~authenticating' /\ ~committed'
DecideUser   == Undecided /\ outcome' = "AsUser" /\ UNCHANGED <<authenticating, committed>>
CloseWindow  == outcome = "open" /\ outcome' = "Rejected" /\ UNCHANGED <<authenticating, committed>>
PhoneSucceeds ==
  /\ outcome = "open" /\ committed /\ state = "Committed" /\ Reads("executed")
  /\ outcome' = "PhoneExecuted" /\ UNCHANGED <<authenticating, committed>>

Decision == \/ NoDecision \/ DecidePhone \/ QueueCheck \/ CheckEnds
            \/ DecideUser \/ CloseWindow \/ PhoneSucceeds

\* The slot that ends a fallback queues the check, or runs as the user, or
\* changes nothing.
LEMMA FallbackDecides ==
  ASSUME DesktopInv, Listening, FinishPhoneFallback, UNCHANGED committed,
         state \notin Resting
  PROVE  NoDecision \/ QueueCheck \/ DecideUser
<1>1. ~authenticating /\ outcome = "open"
  BY DEF DesktopInv, Shape, PhoneExcludes, Listening
<1>2. CASE phoneCommitted \/ cancelled
  BY <1>2 DEF FinishPhoneFallback, NoDecision
<1>3. CASE ~(phoneCommitted \/ cancelled)
  <2>1. ~committed
    BY <1>3 DEF DesktopInv, Shape, PhoneExcludes
  <2>2. authenticating = FALSE
    BY <1>1, Zenon DEF DesktopInv, Flags
  <2>3. CASE fallback = "Password" /\ ~fatalError
    <3>1. authenticating' /\ UNCHANGED outcome
      BY <1>3, <2>3 DEF FinishPhoneFallback
    <3> QED
      BY <1>1, <2>1, <3>1 DEF QueueCheck, Undecided
  <2>4. CASE ~(fallback = "Password" /\ ~fatalError)
    <3>1. authenticating' = FALSE
      BY <1>3, <2>2, <2>4, Zenon DEF FinishPhoneFallback
    <3>2. outcome' = "AsUser" \/ UNCHANGED outcome
      BY <1>3 DEF FinishPhoneFallback
    <3> QED
      BY <1>1, <2>1, <2>2, <3>1, <3>2 DEF NoDecision, DecideUser, Undecided
  <2> QED
    BY <2>3, <2>4
<1> QED
  BY <1>2, <1>3

\* So does what fail() and an error line tell the dialog,
LEMMA ReportDecides ==
  ASSUME DesktopInv, Listening, Reports, UNCHANGED committed
  PROVE  Decision
<1>1. state \notin Resting
  BY DEF Listening, DesktopInv, Shape, ClientShape
<1>2. CASE OnUncertain
  BY <1>2 DEF OnUncertain, NoDecision, Decision
<1>3. CASE OnCanceled \/ OnUnavailable
  BY <1>1, <1>3, FallbackDecides DEF OnCanceled, OnUnavailable, Decision
<1> QED
  BY <1>2, <1>3 DEF Reports

\* and giving up with it.
LEMMA FailDecides ==
  ASSUME DesktopInv, Listening, NEW alive, NEW n, Fail(alive, n)
  PROVE  Decision
<1>1. CASE ~committed /\ alive
  BY <1>1 DEF Fail, dialogVars, NoDecision, Decision
<1>2. CASE ~(~committed /\ alive)
  BY <1>2, ReportDecides DEF Fail
<1> QED
  BY <1>1, <1>2

\* A helper that cannot be used decides nothing: no choice was waiting for it.
LEMMA StartDecides ==
  ASSUME DesktopInv, Start, fallback = "None"
  PROVE  Decision
<1>1. UNCHANGED committed
  BY DEF Start
<1>2. CASE UNCHANGED <<authenticating, outcome>>
  BY <1>1, <1>2 DEF NoDecision, Decision
<1>3. CASE OnUnavailable
  <2>1. UNCHANGED outcome
    BY <1>3 DEF OnUnavailable, FinishPhoneFallback
  <2>2. authenticating \in BOOLEAN /\ ~(fallback = "Password" /\ ~fatalError)
    BY DEF DesktopInv, Flags
  <2>3. UNCHANGED authenticating
    BY <1>3, <2>2, Zenon DEF OnUnavailable, FinishPhoneFallback
  <2> QED
    BY <1>1, <2>1, <2>3 DEF NoDecision, Decision
<1> QED
  BY <1>2, <1>3 DEF Start

\* Every step of the dialog takes at most one decision, and only while it may.
LEMMA DesktopDecides == ASSUME DesktopInv, DesktopNext PROVE Decision
<1> USE DEF DesktopInv, Shape
<1>1. ASSUME UNCHANGED <<outcome, authenticating, committed>> PROVE Decision
  BY <1>1 DEF NoDecision, Decision
<1>2. ASSUME Show PROVE Decision
  BY <1>1, <1>2, StartDecides DEF Show, NotYetShown, clientVars
<1>3. ASSUME ClickRetry PROVE Decision
  BY <1>3, StartDecides DEF ClickRetry, Busy
<1>4. ASSUME PressAuthorize PROVE Decision
  BY <1>1, <1>4
  DEF PressAuthorize, Usable, Busy, PhoneExcludes, QueueCheck, Undecided, Decision
<1>5. ASSUME PressRunAsUser PROVE Decision
  BY <1>1, <1>5
  DEF PressRunAsUser, Usable, Busy, PhoneExcludes, DecideUser, Undecided, Decision
<1>6. ASSUME Reject PROVE Decision
  BY <1>6 DEF Reject, Usable, CloseWindow, Decision
<1>7. ASSUME CheckPassword PROVE Decision
  <2>1. outcome = "open" /\ ~committed
    BY <1>7 DEF CheckPassword, PhoneExcludes, Scalars, Outcomes
  <2> QED
    BY <1>7, <2>1 DEF CheckPassword, clientVars, CheckEnds, Decision
<1>8. ASSUME ReadReady PROVE Decision
  <2>1. outcome = "open" /\ ~committed
    BY <1>8 DEF ReadReady, Reads, Listening, PhoneExcludes
  <2> QED
    BY <1>1, <1>8, <2>1 DEF ReadReady, DecidePhone, Undecided, Decision
<1>9. ASSUME ReadCanceled PROVE Decision
  <2>1. Listening /\ state \notin Resting /\ UNCHANGED committed
    BY <1>9 DEF ReadCanceled, Reads, pending, Resting
  <2>2. FinishPhoneFallback
    BY <1>9 DEF ReadCanceled, OnCanceled, OnUnavailable
  <2> QED
    BY <2>1, <2>2, FallbackDecides DEF Decision
<1>10. ASSUME ReadExecuted PROVE Decision
  BY <1>1, <1>10
  DEF ReadExecuted, Reads, Listening, OnExecuted, PhoneExcludes, PhoneSucceeds, Decision
<1>11. ASSUME ReadError PROVE Decision
  BY <1>11, ReportDecides DEF ReadError, Reads
<1>12. ASSUME ReadUnexpected \/ OnProcessEnded \/ OnWriteError \/ OnTimeout PROVE Decision
  BY <1>12, FailDecides DEF ReadUnexpected, Reads, OnProcessEnded, OnWriteError, OnTimeout
<1>13. ASSUME \/ OnStarted \/ ReadLateReady \/ OnShutdownGrace \/ Dispose
              \/ \E h \in Attempts : OnReleasedGrace(h)
       PROVE  Decision
  BY <1>1, <1>13
  DEF OnStarted, ReadLateReady, OnShutdownGrace, Dispose, OnReleasedGrace, desktopVars, clientVars,
      dialogVars
<1> QED
  BY <1>2, <1>3, <1>4, <1>5, <1>6, <1>7, <1>8, <1>9, <1>10, <1>11, <1>12, <1>13
  DEF DesktopNext, DesktopStep, UserStep, ClientStep

-----------------------------------------------------------------------------
(* The steps of the dialog and of the helpers together.                    *)

\* The first state.
LEMMA ExecStarts == Init => ExecInv
<1> SUFFICES ASSUME Init PROVE ExecInv
  OBVIOUS
<1> USE DEF Init
<1>1. DesktopInv
  BY DesktopStarts
<1>2. Types
  <2>1. \A S : [h \in Attempts |-> <<>>] \in [Attempts -> Seq(S)]
    OBVIOUS
  <2>2. WireTypeOK
    BY <2>1 DEF WireInit, WireTypeOK, ProcStates
  <2>3. AuthorityTypeOK
    BY AttemptsAssumption DEF AuthorityInit, AuthorityTypeOK, Pcs, TaskStates, Statuses
  <2> QED
    BY <2>2, <2>3 DEF Types
<1>3. \A h \in Attempts : LaunchInv(h)
  BY DEF WireInit, AuthorityInit, LaunchInv
<1>4. \A h \in Attempts : Speech(h)
  BY DEF WireInit, Speech, Silent, EndsOnce
<1>5. JoinInv
  <2>1. \A h \in Attempts : ~Spurred(h)
    BY DEF WireInit, AuthorityInit, Spurred
  <2> QED
    BY <2>1 DEF WireInit, DesktopInit, JoinInv
<1> QED
  BY <1>1, <1>2, <1>3, <1>4, <1>5 DEF ExecInv

\* A step of the helpers keeps what joins them to the dialog,
LEMMA HelpersJoin ==
  ASSUME ExecInv, HelperNext, UNCHANGED desktopVars
  PROVE  JoinInv'
<1> USE DEF ExecInv
<1>1. UNCHANGED <<attempt, committed, outcome>>
  BY DEF desktopVars, clientVars, dialogVars
<1>2. \A h \in Attempts : Spurred(h)' => h = attempt /\ committed
  BY NoCommitOfTheirOwn DEF JoinInv
<1>3. \A h \in Attempts : h > attempt => proc'[h] = "none"
  BY NoForkOfTheirOwn DEF JoinInv
<1>4. attempt \in Attempts /\ launched[attempt] = 1 => launched'[attempt] = 1
  <2>1. launched \in [Attempts -> Nat]
    BY DEF Types, AuthorityTypeOK
  <2> QED
    BY <2>1, LaunchesOnce
<1> QED
  BY <1>1, <1>2, <1>3, <1>4 DEF JoinInv

\* and so does a step of the dialog, which leaves the helpers as they were.
LEMMA DesktopJoins ==
  ASSUME ExecInv, DesktopNext, UNCHANGED authorityVars
  PROVE  JoinInv'
<1> USE DEF ExecInv
<1>0. UNCHANGED <<pc, watch, row, launched>> /\ WireTypeOK /\ attempt \in Nat /\ Forks
  BY DesktopForks DEF authorityVars, taskVars, Types, DesktopInv, Shape, Scalars
<1>1. \A h \in Attempts : Spurred(h) => h = attempt' /\ committed'
  BY <1>0, CommitStands DEF JoinInv, Forks
<1>2. \A h \in Attempts : Spurred(h)' => h = attempt' /\ committed'
  <2> SUFFICES ASSUME NEW h \in Attempts, Spurred(h)' PROVE h = attempt' /\ committed'
    OBVIOUS
  <2>1. CASE \E i \in 1..Len(toHelper'[h]) : toHelper'[h][i] = "commit"
    <3>1. PICK i \in 1..Len(toHelper'[h]) : toHelper'[h][i] = "commit"
      BY <2>1
    <3>2. CASE \E j \in 1..Len(toHelper[h]) : toHelper[h][j] = "commit"
      BY <1>1, <3>2 DEF Spurred
    <3> QED
      BY <1>0, <3>1, <3>2, DesktopCommits
  <2>2. CASE ~\E i \in 1..Len(toHelper'[h]) : toHelper'[h][i] = "commit"
    BY <1>0, <1>1, <2>2 DEF Spurred
  <2> QED
    BY <2>1, <2>2
<1>3. \A h \in Attempts : h > attempt' => proc'[h] = "none"
  <2>1. CASE UNCHANGED <<proc, attempt>>
    BY <2>1 DEF JoinInv
  <2>2. CASE attempt' = attempt + 1 /\ proc' = [proc EXCEPT ![attempt + 1] = "forked"]
    <3>1. \A h \in Attempts : h > attempt + 1 => proc'[h] = proc[h] /\ h > attempt
      BY <1>0, <2>2 DEF WireTypeOK, Attempts
    <3> QED
      BY <2>2, <3>1 DEF JoinInv
  <2> QED
    BY <1>0, <2>1, <2>2 DEF Forks
<1>4. outcome' = "PhoneExecuted" =>
        attempt' \in Attempts /\ launched'[attempt'] = 1 /\ committed'
  <2> SUFFICES ASSUME outcome' = "PhoneExecuted"
               PROVE  attempt \in Attempts /\ launched[attempt] = 1 /\ committed
    BY <1>0, CommitStands DEF Forks
  <2>1. CASE outcome = "PhoneExecuted"
    BY <2>1 DEF JoinInv
  <2>2. CASE outcome # "PhoneExecuted"
    <3>1. committed /\ Reads("executed")
      BY <2>2, DesktopDecides
      DEF Decision, NoDecision, DecidePhone, QueueCheck, CheckEnds, DecideUser, CloseWindow,
          PhoneSucceeds, Undecided
    <3>2. attempt \in Attempts /\ fromHelper[attempt] # <<>> /\ Head(fromHelper[attempt]) = "executed"
      BY <3>1 DEF Reads, Listening, DesktopInv, Shape, ClientShape
    <3>3. 1 \in 1..Len(fromHelper[attempt]) /\ fromHelper[attempt][1] = "executed"
      BY <1>0, <3>2 DEF WireTypeOK
    <3>4. launched[attempt] = 1
      BY <3>2, <3>3 DEF Speech
    <3> QED
      BY <3>1, <3>2, <3>4
  <2> QED
    BY <2>1, <2>2
<1> QED
  BY <1>2, <1>3, <1>4 DEF JoinInv

\* What a helper is and has said is not changed by the dialog reading it.
LEMMA DesktopLeavesHelpers ==
  ASSUME ExecInv, DesktopNext, UNCHANGED authorityVars, NEW h \in Attempts
  PROVE  LaunchInv(h)' /\ Speech(h)'
<1> USE DEF ExecInv
<1>0. UNCHANGED <<pc, watch, appr, expired, phone, row, launched>> /\ WireTypeOK /\ Forks
  BY DesktopForks DEF authorityVars, taskVars, Types
<1>1. LaunchInv(h)'
  <2>1. proc'[h] \in {"none", "forked"} => pc[h] = "off"
    BY <1>0 DEF Forks, LaunchInv, JoinInv, WireTypeOK, DesktopInv, Shape, Scalars
  <2> QED
    BY <1>0, <2>1 DEF LaunchInv
<1>2. Speech(h)'
  <2>1. PICK n \in Nat : /\ Len(fromHelper'[h]) + n = Len(fromHelper[h])
                         /\ \A i \in 1..Len(fromHelper'[h]) :
                              fromHelper'[h][i] = fromHelper[h][i + n]
    BY <1>0, DesktopReads
  <2>2. Len(fromHelper[h]) \in Nat /\ Len(fromHelper'[h]) \in Nat
    BY <1>0, DesktopStaysTyped DEF WireTypeOK
  <2>3. \A i \in 1..Len(fromHelper'[h]) : i + n \in 1..Len(fromHelper[h])
    BY <2>1, <2>2
  <2>4. \A i, j \in 1..Len(fromHelper'[h]) : i < j => i + n < j + n
    BY <2>2
  <2>5. Silent(fromHelper[h]) => Silent(fromHelper'[h])
    BY <2>1, <2>3 DEF Silent
  <2>6. EndsOnce(fromHelper[h]) => EndsOnce(fromHelper'[h])
    BY <2>1, <2>3, <2>4 DEF EndsOnce
  <2>7. Speech(h)
    OBVIOUS
  <2> QED
    BY <1>0, <2>1, <2>3, <2>5, <2>6, <2>7 DEF Speech
<1> QED
  BY <1>1, <1>2

\* Every step keeps the invariant,
LEMMA ExecKeeps == ExecInv /\ [Next]_vars => ExecInv'
<1> SUFFICES ASSUME ExecInv, [Next]_vars PROVE ExecInv'
  OBVIOUS
<1> USE DEF ExecInv
<1>1. CASE DesktopNext /\ UNCHANGED authorityVars
  <2>1. DesktopInv' /\ JoinInv'
    BY <1>1, DesktopKeeps, DesktopJoins
  <2>2. Types'
    BY <1>1, DesktopStaysTyped DEF Types, AuthorityTypeOK, authorityVars, taskVars
  <2>3. \A h \in Attempts : LaunchInv(h)' /\ Speech(h)'
    BY <1>1, DesktopLeavesHelpers
  <2> QED
    BY <2>1, <2>2, <2>3
<1>2. CASE HelperNext /\ UNCHANGED desktopVars
  <2>1. DesktopInv' /\ JoinInv'
    BY <1>2, DesktopRests, HelpersJoin
  <2>2. Types' /\ \A h \in Attempts : LaunchInv(h)' /\ Speech(h)'
    BY <1>2, HelpersStayTyped, HelpersLaunch, HelpersSpeak
  <2> QED
    BY <2>1, <2>2
<1>3. CASE UNCHANGED vars
  <2>1. DesktopInv' /\ UNCHANGED <<attempt, committed, outcome>>
    BY <1>3, DesktopRests DEF vars, desktopVars, clientVars, dialogVars
  <2>2. UNCHANGED <<wireVars, authorityVars>>
    BY <1>3 DEF vars
  <2>3. Types'
    BY <2>2 DEF Types, WireTypeOK, AuthorityTypeOK, wireVars, authorityVars, taskVars
  <2>4. \A h \in Attempts : LaunchInv(h)' /\ Speech(h)'
    BY <2>2 DEF LaunchInv, Speech, wireVars, authorityVars, taskVars
  <2>5. JoinInv'
    BY <2>1, <2>2 DEF JoinInv, Spurred, wireVars, authorityVars, taskVars
  <2> QED
    BY <2>1, <2>3, <2>4, <2>5
<1> QED
  BY <1>1, <1>2, <1>3 DEF Next

\* so it always holds.
LEMMA ExecInvHolds == Spec => []ExecInv
  BY ExecStarts, ExecKeeps, PTL DEF Spec

-----------------------------------------------------------------------------
(* Success is never claimed for a command that did not start: when the     *)
(* dialog ends as PhoneExecuted, the present attempt's helper did start it *)
(* and used its row up (the executed line against handle()).               *)
THEOREM SuccessMeansLaunched == Spec => []SuccessIsTrue
<1>1. ExecInv => SuccessIsTrue
  BY DEF ExecInv, JoinInv, LaunchInv, SuccessIsTrue
<1> QED
  BY <1>1, ExecInvHolds, PTL

(* A released attempt is harmless: once Retry has started another helper,  *)
(* no earlier one can still start the command or has used a row up.        *)
THEOREM OldAttemptsStaySpent == Spec => []OldAttemptsSpent
<1>1. ExecInv => OldAttemptsSpent
  <2> SUFFICES ASSUME ExecInv, NEW h \in Attempts, h < attempt
               PROVE  /\ launched[h] = 0 /\ row[h] # "consumed"
                      /\ pc[h] \notin {"consume", "launch", "record", "receipt"}
    BY DEF OldAttemptsSpent
  <2>1. ~Spurred(h)
    BY DEF ExecInv, JoinInv, DesktopInv, Shape, Scalars, Attempts
  <2> QED
    BY <2>1 DEF Spurred
<1> QED
  BY <1>1, ExecInvHolds, PTL

\* Each decision of the dialog is one the promise allows.
LEMMA DecisionsArePromised ==
  ASSUME ExecInv, Decision, UNCHANGED launched
  PROVE  Owner' = Owner \/ Promise!OwnerNext
<1> USE DEF Owner, Promise!OwnerNext, Promise!Decide, Undecided
<1>0. PhoneExcludes
  BY DEF ExecInv, DesktopInv, Shape
<1>1. CASE NoDecision
  BY <1>1 DEF NoDecision
<1>2. CASE DecidePhone
  BY <1>2 DEF DecidePhone, Promise!CommitToPhone
<1>3. CASE QueueCheck
  BY <1>3 DEF QueueCheck, Promise!TryPassword
<1>4. CASE CheckEnds
  BY <1>4 DEF CheckEnds, Promise!PasswordServes, Promise!PasswordFails
<1>5. CASE DecideUser
  BY <1>5 DEF DecideUser, Promise!ContinueAsUser
<1>6. CASE CloseWindow
  BY <1>0, <1>6 DEF CloseWindow, PhoneExcludes, Promise!CloseDialog
<1>7. CASE PhoneSucceeds
  BY <1>0, <1>7 DEF PhoneSucceeds, PhoneExcludes
<1> QED
  BY <1>1, <1>2, <1>3, <1>4, <1>5, <1>6, <1>7 DEF Decision

\* Popen is reached only while the phone owns the execution, and once.
LEMMA LaunchIsPromised ==
  ASSUME ExecInv, HelperNext, UNCHANGED desktopVars
  PROVE  Owner' = Owner /\ (UNCHANGED launched \/ Promise!OwnerNext)
<1> USE DEF ExecInv
<1>1. Owner' = Owner
  BY DEF Owner, desktopVars, clientVars, dialogVars
<1>2. ASSUME NEW h \in Attempts, pc[h] = "launch", launched[h] = 0,
             launched' = [launched EXCEPT ![h] = 1]
      PROVE  Promise!PhoneRuns(h)
  <2>1. h = attempt /\ committed
    BY <1>2 DEF JoinInv, Spurred
  <2>2. Owner = "phone"
    BY <2>1 DEF Owner, DesktopInv, Shape, PhoneExcludes
  <2>3. \A g \in Attempts : launched[g] = 0
    BY <1>2, <2>1 DEF JoinInv, Spurred
  <2> QED
    BY <1>1, <1>2, <2>2, <2>3 DEF Promise!PhoneRuns
<1>3. UNCHANGED launched \/ \E h \in Attempts : Promise!PhoneRuns(h)
  BY <1>2, LaunchesOnce
<1> QED
  BY <1>1, <1>3 DEF Promise!OwnerNext

(* "One execution owner": whatever is clicked, answered, lost, killed or   *)
(* retried, the dialog and its helpers keep the promise of ExecOwner: at   *)
(* most one of the phone, su and the user owns the execution, and the      *)
(* command is started once at most, by a helper, while the phone owns it.  *)
THEOREM OneOwner == Spec => OneExecutionOwner
<1>1. Init => Promise!OwnerInit
  BY DEF Init, DesktopInit, AuthorityInit, Owner, Promise!OwnerInit
<1>2. ExecInv /\ [Next]_vars => [Promise!OwnerNext]_<<Owner, launched>>
  <2> SUFFICES ASSUME ExecInv, [Next]_vars PROVE [Promise!OwnerNext]_<<Owner, launched>>
    OBVIOUS
  <2>1. CASE DesktopNext /\ UNCHANGED authorityVars
    BY <2>1, DesktopDecides, DecisionsArePromised DEF ExecInv, authorityVars
  <2>2. CASE HelperNext /\ UNCHANGED desktopVars
    BY <2>2, LaunchIsPromised
  <2>3. CASE UNCHANGED vars
    BY <2>3 DEF Owner, vars, desktopVars, clientVars, dialogVars, authorityVars
  <2> QED
    BY <2>1, <2>2, <2>3 DEF Next
<1> QED
  BY <1>1, <1>2, ExecInvHolds, PTL DEF Spec, OneExecutionOwner, Promise!OwnerSpec
=============================================================================
