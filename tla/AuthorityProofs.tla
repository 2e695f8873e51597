-------------------------- MODULE AuthorityProofs --------------------------
(***************************************************************************)
(* Theorems about the protected helpers under arbitrary desktops: they     *)
(* hold for every number of attempts, every set of configurations and      *)
(* every environment that AnyDesktop allows, not only for the instances    *)
(* that TLC explores.                                                      *)
(***************************************************************************)
EXTENDS AnyDesktop, HelperProofs

\* What the desktops of AnyDesktop do.
Environment ==
  \/ DesktopVanishes
  \/ \E h \in Attempts : Fork(h) \/ DesktopWrites(h) \/ DesktopCloses(h) \/ Terminate(h)

\* The inductive invariant of the helpers.
HelpersInv == Types /\ OneHolder /\ \A h \in Attempts : LaunchInv(h) /\ Speech(h)

-----------------------------------------------------------------------------
\* The first state is well typed,
LEMMA TypesInit == Init => Types
<1> SUFFICES ASSUME Init PROVE Types
  OBVIOUS
<1>1. \A S : [h \in Attempts |-> <<>>] \in [Attempts -> Seq(S)]
  OBVIOUS
<1>2. WireTypeOK
  BY <1>1 DEF Init, WireInit, WireTypeOK, ProcStates
<1>3. AuthorityTypeOK
  BY AttemptsAssumption DEF Init, AuthorityInit, AuthorityTypeOK, Pcs, TaskStates, Statuses
<1> QED
  BY <1>2, <1>3 DEF Types

\* nothing is locked, launched or said in it,
LEMMA HelpersInvInit == Init => HelpersInv
<1> SUFFICES ASSUME Init PROVE HelpersInv
  OBVIOUS
<1>1. Types
  BY TypesInit
<1>2. OneHolder
  BY DEF Init, AuthorityInit, OneHolder
<1>3. \A h \in Attempts : LaunchInv(h)
  BY DEF Init, WireInit, AuthorityInit, LaunchInv
<1>4. \A h \in Attempts : Speech(h)
  BY DEF Init, WireInit, Speech, Silent, EndsOnce
<1> QED
  BY <1>1, <1>2, <1>3, <1>4 DEF HelpersInv

\* a desktop writes and closes pipes, and its own end at most,
LEMMA DesktopsStayTyped == ASSUME Types, Environment PROVE Types'
<1> USE DEF Types, WireTypeOK, AuthorityTypeOK, authorityVars, taskVars
<1>1. ASSUME NEW h \in Attempts, DesktopWrites(h) PROVE Types'
  BY <1>1, Appended, EnvironmentAssumption DEF DesktopWrites
<1>2. ASSUME NEW h \in Attempts, Fork(h) \/ DesktopCloses(h) \/ Terminate(h) PROVE Types'
  BY <1>2 DEF Fork, DesktopCloses, Terminate, ProcStates
<1>3. ASSUME DesktopVanishes PROVE Types'
  BY <1>3 DEF DesktopVanishes
<1> QED
  BY <1>1, <1>2, <1>3 DEF Environment

\* and what the helpers are, hold and said is not its to change.
LEMMA DesktopsLeaveHelpers ==
  ASSUME HelpersInv, Environment \/ UNCHANGED vars
  PROVE  OneHolder' /\ \A h \in Attempts : LaunchInv(h)' /\ Speech(h)'
<1> USE DEF HelpersInv, authorityVars, taskVars
<1>1. UNCHANGED <<authorityVars, fromHelper>>
  BY DEF Environment, DesktopVanishes, Fork, DesktopWrites, DesktopCloses, Terminate, vars, wireVars
<1>2. \A h \in Attempts : proc'[h] \in {"none", "forked"} => proc[h] \in {"none", "forked"}
  BY DEF Environment, DesktopVanishes, Fork, DesktopWrites, DesktopCloses, Terminate, vars,
     wireVars, Types, WireTypeOK
<1>3. OneHolder'
  BY <1>1 DEF OneHolder
<1>4. \A h \in Attempts : LaunchInv(h)'
  BY <1>1, <1>2 DEF LaunchInv
<1>5. \A h \in Attempts : Speech(h)'
  BY <1>1 DEF Speech
<1> QED
  BY <1>3, <1>4, <1>5

\* Every step keeps the invariant,
LEMMA HelpersInvStep == HelpersInv /\ [Next]_vars => HelpersInv'
<1> SUFFICES ASSUME HelpersInv, [Next]_vars PROVE HelpersInv'
  OBVIOUS
<1>1. CASE HelperNext
  <2>1. Types' /\ LockMoves
    BY <1>1, HelpersStayTyped, HelpersMoveTheLock DEF HelpersInv
  <2>2. OneHolder'
    BY <2>1, LockStep DEF HelpersInv
  <2>3. \A g \in Attempts : LaunchInv(g)'
    BY <1>1, HelpersLaunch DEF HelpersInv
  <2>4. \A g \in Attempts : Speech(g)'
    BY <1>1, HelpersSpeak DEF HelpersInv
  <2> QED
    BY <2>1, <2>2, <2>3, <2>4 DEF HelpersInv
<1>2. CASE Environment
  BY <1>2, DesktopsStayTyped, DesktopsLeaveHelpers DEF HelpersInv
<1>3. CASE UNCHANGED vars
  <2>1. Types'
    BY <1>3 DEF HelpersInv, Types, WireTypeOK, AuthorityTypeOK, vars, wireVars, authorityVars,
       taskVars
  <2> QED
    BY <1>3, <2>1, DesktopsLeaveHelpers DEF HelpersInv
<1> QED
  BY <1>1, <1>2, <1>3 DEF Next, Environment

\* and so it always holds.
LEMMA HelpersInvHolds == Spec => []HelpersInv
  BY HelpersInvInit, HelpersInvStep, PTL DEF Spec

-----------------------------------------------------------------------------
(* Every reachable state is well typed: the variables of the helpers        *)
(* (rootauth.py) and of their pipes hold what their declarations say, for  *)
(* any number of attempts.                                                 *)
THEOREM TypesHold == Spec => [](WireTypeOK /\ AuthorityTypeOK)
<1>1. HelpersInv => WireTypeOK /\ AuthorityTypeOK
  BY DEF HelpersInv, Types
<1> QED
  BY <1>1, HelpersInvHolds, PTL

(* The flock in main() and the UPDATE in Authority.__init__ together: a    *)
(* helper past its boot holds the lock alone, and no other request is      *)
(* pending or ready, whichever helpers died, were killed or were refused.  *)
THEOREM LockExcludes == Spec => []NoAbandonedRequest
<1>1. HelpersInv => NoAbandonedRequest
  BY DEF HelpersInv, OneHolder, NoAbandonedRequest
<1> QED
  BY <1>1, HelpersInvHolds, PTL

(* send() and terminal_sent in handle(): every request is ended by one     *)
(* line at most, the last one; executed is only said of a command that was *)
(* started, canceled never of a used-up approval, whatever the desktop     *)
(* writes and wherever a signal, a crash or an expiry falls.               *)
THEOREM RepliesAreHonest == Spec => []RepliesHonest
<1>1. HelpersInv => RepliesHonest
  <2> SUFFICES ASSUME HelpersInv, NEW h \in Attempts
               PROVE  /\ \A i, j \in DOMAIN fromHelper[h] :
                           fromHelper[h][i] \in Terminal /\ i < j => FALSE
                      /\ Said(h, "executed") => launched[h] = 1
                      /\ Said(h, "canceled") => row[h] # "consumed"
                      /\ Said(h, "error") /\ launched[h] = 1 => row[h] = "consumed"
    BY DEF RepliesHonest
  <2>1. DOMAIN fromHelper[h] = 1..Len(fromHelper[h])
    BY DEF HelpersInv, Types, WireTypeOK
  <2>2. Speech(h) /\ LaunchInv(h)
    BY DEF HelpersInv
  <2> QED
    BY <2>1, <2>2 DEF Said, Speech, EndsOnce, LaunchInv
<1> QED
  BY <1>1, HelpersInvHolds, PTL

(* The heart of rootauth.handle(): a command is started at most once for a *)
(* request, and only after its signature was verified, the desktop sent    *)
(* commit and the row was used up, with crashes, signals, expiry, revoked  *)
(* configurations and restarts at any point.                               *)
THEOREM LaunchesAreAuthorized == Spec => []LaunchAuthorized
<1>1. HelpersInv => LaunchAuthorized
  BY DEF HelpersInv, LaunchInv, LaunchAuthorized
<1> QED
  BY <1>1, HelpersInvHolds, PTL

(* A settled row stays settled (consumed or canceled is final), and only   *)
(* the holder of the lock uses one up: no restart, no cleanup and no other *)
(* helper can undo or repeat a decision.                                   *)
THEOREM SettledRowsStay == Spec => RowsSettle
<1> DEFINE Settle == \A h \in Attempts :
             row'[h] # row[h] =>
               /\ row[h] \notin {"consumed", "canceled"}
               /\ row'[h] = "consumed" => row[h] = "ready" /\ lock = h
<1>1. HelpersInv /\ [Next]_vars => [Settle]_vars
  <2> SUFFICES ASSUME HelpersInv, Next PROVE Settle
    OBVIOUS
  <2>0. /\ row \in [Attempts -> Statuses]
        /\ \A h \in Attempts : pc[h] \notin {"off", "boot", "done"} => lock = h
        /\ \A h \in Attempts : pc[h] = "discover" => row[h] = "none"
    BY DEF HelpersInv, Types, AuthorityTypeOK, OneHolder, LaunchInv
  <2>1. ASSUME NEW h \in Attempts, Boot(h) PROVE Settle
    BY <2>0, <2>1 DEF Boot, AbandonedCanceled
  <2>2. ASSUME NEW h \in Attempts, LeaveDiscover(h) PROVE Settle
    BY <2>0, <2>2 DEF LeaveDiscover
  <2>3. ASSUME NEW h \in Attempts, LeaveApprove(h) PROVE Settle
    BY <2>0, <2>3 DEF LeaveApprove
  <2>4. ASSUME NEW h \in Attempts, Consume(h) PROVE Settle
    BY <2>0, <2>4 DEF Consume
  <2>5. ASSUME NEW h \in Attempts, Cleanup(h) PROVE Settle
    BY <2>0, <2>5 DEF Cleanup
  <2>6. ASSUME UNCHANGED row PROVE Settle
    BY <2>6
  <2>7. ASSUME CheckAuthority PROVE Settle
    BY <2>0, <2>7 DEF CheckAuthority, AbandonedCanceled
  <2> QED
    BY <2>1, <2>2, <2>3, <2>4, <2>5, <2>6, <2>7
    DEF Next, HelperNext, HandleStep, TaskStep, Exec, BootRefused, ReadStart, NoStart,
        LeaveDeliver, AcceptCommit, Launch, Record, ReceiptDone, WithdrawDone, Close,
        WatcherReads, WatcherFails, DiscoveryEnds, DeliveryEnds, ApprovalEnds, Interrupt,
        Die, Expire, PhoneStep, Configure, Fork, DesktopWrites, DesktopCloses,
        DesktopVanishes, Terminate, authorityVars
<1>2. Spec => [][Settle]_vars
  BY <1>1, HelpersInvHolds, PTL DEF Spec
<1> QED
  BY <1>2 DEF RowsSettle

(* The approval that was used up is not lost to a signal: from the row's   *)
(* use on, handle() ends with executed after the launch, or because its    *)
(* log, Popen or the record failed, and SIGTERM changes neither.           *)
THEOREM StartIsReported == Spec => StartReported
<1> DEFINE Reported(h) ==
      \/ launched[h] = 1 /\ (fromClosed \/ Said(h, "executed")')
      \/ pc[h] \in {"launch", "record"} /\ signalled'[h] = signalled[h]
<1> DEFINE Kept == \A h \in Attempts :
             row[h] = "consumed" /\ pc[h] # "cleanup" /\ pc'[h] = "cleanup" => Reported(h)
<1>1. HelpersInv /\ [Next]_vars => [Kept]_vars
  <2> SUFFICES ASSUME HelpersInv, Next, NEW h \in Attempts,
                      row[h] = "consumed", pc[h] # "cleanup", pc'[h] = "cleanup"
               PROVE  Reported(h)
    OBVIOUS
  <2>1. /\ pc[h] \in {"launch", "record", "receipt", "closing", "done"}
        /\ pc[h] = "receipt" => launched[h] = 1
        /\ pc \in [Attempts -> Pcs] /\ fromHelper[h] \in Seq(Replies)
        /\ fromHelper \in [Attempts -> Seq(Replies)]
    BY DEF HelpersInv, Types, AuthorityTypeOK, WireTypeOK, LaunchInv
  <2>2. ASSUME Launch(h) \/ Record(h) PROVE Reported(h)
    BY <2>2 DEF Launch, Record
  <2>3. ASSUME pc[h] = "receipt", Abort(h, "executed") PROVE Reported(h)
    <3>1. CASE fromClosed
      BY <2>1, <2>3, <3>1
    <3>2. CASE ~fromClosed
      <4>1. fromHelper'[h] = Append(fromHelper[h], "executed")
        BY <2>1, <2>3, <3>2 DEF Abort, Say
      <4>2. /\ Len(fromHelper[h]) + 1 \in DOMAIN fromHelper'[h]
            /\ fromHelper'[h][Len(fromHelper[h]) + 1] = "executed"
        BY <2>1, <4>1
      <4> QED
        BY <2>1, <2>3, <4>2 DEF Said
    <3> QED
      BY <3>1, <3>2
  <2>4. ASSUME ReceiptDone(h) PROVE Reported(h)
    BY <2>3, <2>4 DEF ReceiptDone
  <2>5. ASSUME Interrupt(h) PROVE Reported(h)
    BY <2>1, <2>3, <2>5 DEF Interrupt, Goto, Abort, Exit
  <2>6. ASSUME NEW k \in Attempts, HandleStep(k)
        PROVE  Launch(h) \/ Record(h) \/ ReceiptDone(h)
    BY <2>1, <2>6
    DEF HandleStep, Exec, Boot, BootRefused, ReadStart, NoStart, LeaveDiscover, LeaveDeliver,
        LeaveApprove, AcceptCommit, Consume, Launch, Record, ReceiptDone, Cleanup, WithdrawDone,
        Close, Goto, Abort, Exit
  <2>7. ASSUME NEW k \in Attempts, Interrupt(k) PROVE k = h
    BY <2>1, <2>7 DEF Interrupt, Goto, Abort, Exit
  <2>8. ASSUME NEW k \in Attempts, TaskStep(k) \/ Die(k) \/ Expire(k) \/ PhoneStep(k) PROVE FALSE
    BY <2>1, <2>8
    DEF TaskStep, WatcherReads, WatcherFails, DiscoveryEnds, DeliveryEnds, ApprovalEnds, Die,
        Expire, PhoneStep, Goto, Exit
  <2>9. ~Configure /\ ~CheckAuthority /\ ~Environment
    BY DEF Configure, CheckAuthority, Environment, Fork, DesktopWrites, DesktopCloses,
       DesktopVanishes, Terminate, authorityVars
  <2> QED
    BY <2>2, <2>4, <2>5, <2>6, <2>7, <2>8, <2>9 DEF Next, HelperNext, Environment
<1>2. Spec => [][Kept]_vars
  BY <1>1, HelpersInvHolds, PTL DEF Spec
<1> QED
  BY <1>2 DEF StartReported
=============================================================================
