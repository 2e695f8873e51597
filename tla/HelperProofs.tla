---------------------------- MODULE HelperProofs ----------------------------
(***************************************************************************)
(* What the protected helpers keep, step by step and whoever starts them.  *)
(* The lemmas are about HelperNext, so they serve the helpers under        *)
(* arbitrary desktops and the helpers joined to the dialog.                *)
(***************************************************************************)
EXTENDS Authority, SequenceTheorems, TLAPS

Types == WireTypeOK /\ AuthorityTypeOK

-----------------------------------------------------------------------------
(* Type correctness.                                                       *)

\* Appending a line to one pipe keeps every pipe a sequence of lines.
LEMMA Appended ==
  ASSUME NEW S, NEW f \in [Attempts -> Seq(S)], NEW h \in Attempts, NEW e \in S
  PROVE  [f EXCEPT ![h] = Append(@, e)] \in [Attempts -> Seq(S)]
  OBVIOUS

\* So does reading one, from a pipe that has one.
LEMMA Popped ==
  ASSUME NEW S, NEW f \in [Attempts -> Seq(S)], NEW h \in Attempts, f[h] # <<>>
  PROVE  [f EXCEPT ![h] = Tail(@)] \in [Attempts -> Seq(S)]
  OBVIOUS

\* And discarding what is left in it.
LEMMA Emptied ==
  ASSUME NEW S, NEW f \in [Attempts -> Seq(S)], NEW h \in Attempts
  PROVE  [f EXCEPT ![h] = <<>>] \in [Attempts -> Seq(S)]
  OBVIOUS

\* send() puts one reply on the pipe, or none.
LEMMA SayTyped ==
  ASSUME WireTypeOK, NEW h \in Attempts, NEW r \in Replies, Say(h, r)
  PROVE  fromHelper' \in [Attempts -> Seq(Replies)]
  BY Appended DEF Say, WireTypeOK

\* The early exits answer with a reply of the protocol.
LEMMA VerdictTyped ==
  ASSUME NEW h \in Attempts
  PROVE  Verdict(h) \in Replies
  BY DEF Verdict, Replies

\* Popen counts one launch at most.
LEMMA LaunchTyped ==
  ASSUME launched \in [Attempts -> Nat], NEW h \in Attempts, Launch(h)
  PROVE  launched' \in [Attempts -> Nat]
<1>1. CASE launched' = [launched EXCEPT ![h] = @ + 1]
  BY <1>1
<1>2. CASE UNCHANGED launched
  BY <1>2
<1> QED
  BY <1>1, <1>2 DEF Launch

\* What Exit resets keeps its type.
LEMMA ExitTyped ==
  ASSUME Types, NEW h \in Attempts, Exit(h)
  PROVE  /\ pc' \in [Attempts -> Pcs] /\ proc' \in [Attempts -> ProcStates]
         /\ lock' \in 0..MaxAttempts /\ toHelper' \in [Attempts -> Seq(Events)]
         /\ watch' \in [Attempts -> {"none", "reading", "cancel", "commit", "other", "failed"}]
         /\ disc' \in [Attempts -> TaskStates] /\ deliv' \in [Attempts -> TaskStates]
         /\ appr' \in [Attempts -> TaskStates] /\ expired' \in [Attempts -> BOOLEAN]
  BY Emptied, AttemptsAssumption
  DEF Types, WireTypeOK, AuthorityTypeOK, Exit, Goto, Pcs, TaskStates, ProcStates

\* Rows, tasks and places are only given the values they may have.
LEMMA ReadStartTyped ==
  ASSUME Types, NEW h \in Attempts, ReadStart(h)
  PROVE  /\ watch' \in [Attempts -> {"none", "reading", "cancel", "commit", "other", "failed"}]
         /\ disc' \in [Attempts -> TaskStates]
<1>1. disc' \in [Attempts -> TaskStates]
  BY DEF ReadStart, Types, AuthorityTypeOK, TaskStates
<1>2. watch' \in [Attempts -> {"none", "reading", "cancel", "commit", "other", "failed"}]
  BY DEF ReadStart, Types, AuthorityTypeOK
<1> QED
  BY <1>1, <1>2

LEMMA ConsumeTyped ==
  ASSUME Types, NEW h \in Attempts, Consume(h)
  PROVE  row' \in [Attempts -> Statuses]
  BY DEF Consume, Types, AuthorityTypeOK, Statuses

LEMMA CleanupTyped ==
  ASSUME Types, NEW h \in Attempts, Cleanup(h)
  PROVE  row' \in [Attempts -> Statuses] /\ pc' \in [Attempts -> Pcs]
<1>1. row' \in [Attempts -> Statuses]
  BY DEF Cleanup, Types, AuthorityTypeOK, Statuses
<1>2. \E l \in {"withdraw", "done"} : Goto(h, l)
  BY DEF Cleanup, Exit
<1>3. pc' \in [Attempts -> Pcs]
  BY <1>2 DEF Types, AuthorityTypeOK, Pcs, Goto
<1> QED
  BY <1>1, <1>3

\* Every action of the helpers keeps every variable well typed.
LEMMA HelpersStayTyped == ASSUME Types, HelperNext PROVE Types'
<1> USE ConfigsAssumption
       DEF Types, WireTypeOK, AuthorityTypeOK, wireVars, authorityVars, taskVars,
           Pcs, TaskStates, Statuses, ProcStates
<1>0. {"ready", "canceled", "executed", "error"} \subseteq Replies
  BY DEF Replies

<1>1. ASSUME NEW h \in Attempts, Exec(h) PROVE Types'
  BY <1>1, ZenonT(30) DEF Exec, Goto
<1>2. ASSUME NEW h \in Attempts, Boot(h) PROVE Types'
  BY <1>2 DEF Boot, AbandonedCanceled, Goto, Attempts
<1>3. ASSUME NEW h \in Attempts, BootRefused(h) PROVE Types'
  BY <1>3, ExitTyped DEF BootRefused
<1>4. ASSUME NEW h \in Attempts, ReadStart(h) PROVE Types'
  <2>1. toHelper' \in [Attempts -> Seq(Events)]
    BY <1>4, Popped DEF ReadStart
  <2>2. fromHelper' \in [Attempts -> Seq(Replies)]
    BY <1>4, <1>0, SayTyped DEF ReadStart, Abort
  <2>3. pc' \in [Attempts -> Pcs]
    <3>1. \E l \in {"discover", "cleanup"} : Goto(h, l)
      BY <1>4 DEF ReadStart, Abort
    <3> QED
      BY <3>1 DEF Goto
  <2> QED
    BY <1>4, <2>1, <2>2, <2>3, ReadStartTyped DEF ReadStart
<1>5. ASSUME NEW h \in Attempts, NoStart(h) PROVE Types'
  BY <1>5 DEF NoStart, Goto
<1>6. ASSUME NEW h \in Attempts, LeaveDiscover(h) PROVE Types'
  <2>1. fromHelper' \in [Attempts -> Seq(Replies)]
    BY <1>6, <1>0, SayTyped, VerdictTyped DEF LeaveDiscover, Abort
  <2>2. \E l \in {"deliver", "cleanup"} : Goto(h, l)
    BY <1>6 DEF LeaveDiscover, Abort
  <2>3. pc' \in [Attempts -> Pcs]
    BY <2>2 DEF Goto
  <2>4. row' \in [Attempts -> Statuses]
    BY <1>6, ZenonT(30) DEF LeaveDiscover
  <2>5. deliv' \in [Attempts -> TaskStates]
    BY <1>6, ZenonT(30) DEF LeaveDiscover
  <2> QED
    BY <1>6, <2>1, <2>3, <2>4, <2>5 DEF LeaveDiscover
<1>7. ASSUME NEW h \in Attempts, LeaveDeliver(h) PROVE Types'
  <2>1. fromHelper' \in [Attempts -> Seq(Replies)]
    BY <1>7, <1>0, SayTyped, VerdictTyped DEF LeaveDeliver, Abort
  <2>2. \E l \in {"approve", "cleanup"} : Goto(h, l)
    BY <1>7 DEF LeaveDeliver, Abort
  <2>3. pc' \in [Attempts -> Pcs]
    BY <2>2 DEF Goto
  <2> QED
    BY <1>7, <2>1, <2>3, ZenonT(30) DEF LeaveDeliver
<1>8. ASSUME NEW h \in Attempts, LeaveApprove(h) PROVE Types'
  <2>1. fromHelper' \in [Attempts -> Seq(Replies)]
    BY <1>8, <1>0, SayTyped, VerdictTyped DEF LeaveApprove, Abort
  <2>2. \E l \in {"cleanup", "commit"} : Goto(h, l)
    BY <1>8 DEF LeaveApprove, Abort
  <2>3. pc' \in [Attempts -> Pcs]
    BY <2>2 DEF Goto
  <2> QED
    BY <1>8, <2>1, <2>3, ZenonT(30) DEF LeaveApprove
<1>9. ASSUME NEW h \in Attempts, AcceptCommit(h) PROVE Types'
  BY <1>9, <1>0, SayTyped, VerdictTyped, ZenonT(30) DEF AcceptCommit, Goto, Abort
<1>10. ASSUME NEW h \in Attempts, Consume(h) PROVE Types'
  <2>1. fromHelper' \in [Attempts -> Seq(Replies)]
    BY <1>10, <1>0, SayTyped DEF Consume, Abort
  <2>2. \E l \in {"launch", "cleanup"} : Goto(h, l)
    BY <1>10 DEF Consume, Abort
  <2>3. pc' \in [Attempts -> Pcs]
    BY <2>2 DEF Goto
  <2> QED
    BY <1>10, <2>1, <2>3, ConsumeTyped DEF Consume
<1>11. ASSUME NEW h \in Attempts, Launch(h) PROVE Types'
  <2>1. fromHelper' \in [Attempts -> Seq(Replies)]
    BY <1>0, <1>11, SayTyped DEF Launch, Abort
  <2>2. launched' \in [Attempts -> Nat]
    BY <1>11, LaunchTyped
  <2>3. pc' \in [Attempts -> Pcs]
    <3>1. \E l \in {"record", "cleanup"} : Goto(h, l)
      BY <1>11 DEF Launch, Abort
    <3> QED
      BY <3>1 DEF Goto
  <2> QED
    BY <1>11, <2>1, <2>2, <2>3 DEF Launch
<1>12. ASSUME NEW h \in Attempts, Record(h) PROVE Types'
  <2>1. fromHelper' \in [Attempts -> Seq(Replies)]
    BY <1>12, <1>0, SayTyped DEF Record, Abort
  <2>2. \E l \in {"receipt", "cleanup"} : Goto(h, l)
    BY <1>12 DEF Record, Abort
  <2>3. pc' \in [Attempts -> Pcs]
    BY <2>2 DEF Goto
  <2> QED
    BY <1>12, <2>1, <2>3 DEF Record
<1>13. ASSUME NEW h \in Attempts, ReceiptDone(h) PROVE Types'
  BY <1>13, <1>0, SayTyped DEF ReceiptDone, Goto, Abort
<1>14. ASSUME NEW h \in Attempts, Cleanup(h) PROVE Types'
  <2>1. CASE row[h] \in {"pending", "ready"}
    <3>1. UNCHANGED <<proc, lock, toHelper, watch, disc, deliv, appr, expired>>
      BY <1>14, <2>1 DEF Cleanup, exitVars
    <3> QED
      BY <1>14, <3>1, CleanupTyped DEF Cleanup
  <2>2. CASE row[h] \notin {"pending", "ready"}
    BY <1>14, <2>2, ExitTyped DEF Cleanup
  <2> QED
    BY <2>1, <2>2
<1>15. ASSUME NEW h \in Attempts, WithdrawDone(h) PROVE Types'
  BY <1>15, ExitTyped, ZenonT(30) DEF WithdrawDone
<1>16. ASSUME NEW h \in Attempts, Close(h) PROVE Types'
  BY <1>16, ExitTyped DEF Close
<1>17. ASSUME NEW h \in Attempts, WatcherReads(h) PROVE Types'
  BY <1>17, Popped DEF WatcherReads
<1>18. ASSUME NEW h \in Attempts, WatcherFails(h) PROVE Types'
  BY <1>18 DEF WatcherFails
<1>19. ASSUME NEW h \in Attempts, DiscoveryEnds(h) PROVE Types'
  BY <1>19 DEF DiscoveryEnds
<1>20. ASSUME NEW h \in Attempts, DeliveryEnds(h) PROVE Types'
  BY <1>20 DEF DeliveryEnds
<1>21. ASSUME NEW h \in Attempts, ApprovalEnds(h) PROVE Types'
  BY <1>21 DEF ApprovalEnds
<1>22. ASSUME NEW h \in Attempts, Interrupt(h) PROVE Types'
  <2>1. CASE Exit(h) /\ UNCHANGED fromHelper
    BY <1>22, <2>1, ExitTyped DEF Interrupt
  <2>2. CASE UNCHANGED exitVars /\ \E l \in {"cleanup", "closing"} : Goto(h, l)
    <3>1. fromHelper' \in [Attempts -> Seq(Replies)]
      BY <1>0, <1>22, SayTyped DEF Interrupt, Abort
    <3>2. UNCHANGED <<proc, lock, toHelper, watch, disc, deliv, appr, expired>>
      BY <2>2 DEF exitVars
    <3>3. pc' \in [Attempts -> Pcs]
      BY <2>2 DEF Goto
    <3>4. signalled' \in [Attempts -> BOOLEAN]
      BY <1>22 DEF Interrupt
    <3> QED
      BY <1>22, <3>1, <3>2, <3>3, <3>4 DEF Interrupt
  <2> QED
    BY <1>22, <2>1, <2>2 DEF Interrupt, Abort
<1>23. ASSUME NEW h \in Attempts, Die(h) PROVE Types'
  BY <1>23, ExitTyped DEF Die
<1>24. ASSUME NEW h \in Attempts, Expire(h) PROVE Types'
  BY <1>24 DEF Expire
<1>25. ASSUME NEW h \in Attempts, PhoneStep(h) PROVE Types'
  BY <1>25, ZenonT(30) DEF PhoneStep
<1>26. ASSUME Configure PROVE Types'
  BY <1>26 DEF Configure
<1>27. ASSUME CheckAuthority PROVE Types'
  BY <1>27 DEF CheckAuthority, AbandonedCanceled
<1> QED
  BY <1>1, <1>2, <1>3, <1>4, <1>5, <1>6, <1>7, <1>8, <1>9, <1>10, <1>11, <1>12, <1>13, <1>14,
     <1>15, <1>16, <1>17, <1>18, <1>19, <1>20, <1>21, <1>22, <1>23, <1>24, <1>25, <1>26, <1>27
  DEF HelperNext, HandleStep, TaskStep

-----------------------------------------------------------------------------
(* The process lock and restart recovery.                                  *)

Idle == {"off", "boot", "done"}   \* places where a helper does not hold the lock

\* What a step does to the lock, the places and the rows: nothing; move one
\* helper that is past its boot; let a helper exit; let one reach its boot.
\* Boot and CheckAuthority are the steps that take the lock.
Quiet == UNCHANGED <<pc, row, lock>>
Inside(h) ==
  /\ pc[h] \notin Idle
  /\ \E l : pc' = [pc EXCEPT ![h] = l]
  /\ \E s : row' = [row EXCEPT ![h] = s]
  /\ UNCHANGED lock
Leave(h) ==
  /\ pc' = [pc EXCEPT ![h] = "done"]
  /\ lock' = IF lock = h THEN 0 ELSE lock
  /\ UNCHANGED row
Arrive(h) ==
  /\ pc' = [pc EXCEPT ![h] = "boot"]
  /\ UNCHANGED <<row, lock>>

LockMoves == Quiet \/ CheckAuthority \/ \E h \in Attempts : Inside(h) \/ Leave(h) \/ Arrive(h) \/ Boot(h)

\* Every step of the helpers is one of these.
LEMMA HelpersMoveTheLock == ASSUME Types, HelperNext PROVE LockMoves
<1>0. row \in [Attempts -> Statuses] /\ pc \in [Attempts -> Pcs]
  BY DEF Types, AuthorityTypeOK
<1>1. \A h \in Attempts : row = [row EXCEPT ![h] = row[h]]
  BY <1>0
<1>2. ASSUME NEW h \in Attempts,
             \/ NoStart(h) \/ LeaveDeliver(h) \/ AcceptCommit(h) \/ Launch(h) \/ Record(h)
             \/ ReadStart(h) \/ ReceiptDone(h)
      PROVE  Inside(h)
  BY <1>1, <1>2 DEF Inside, Idle, NoStart, LeaveDeliver, AcceptCommit, Launch, Record, ReadStart,
     ReceiptDone, Goto, Abort
<1>3. ASSUME NEW h \in Attempts, LeaveDiscover(h) \/ LeaveApprove(h) \/ Consume(h)
      PROVE  Inside(h)
  BY <1>1, <1>3 DEF Inside, Idle, LeaveDiscover, LeaveApprove, Consume, Goto, Abort
<1>4. ASSUME NEW h \in Attempts, BootRefused(h) \/ WithdrawDone(h) \/ Close(h) \/ Die(h)
      PROVE  Leave(h)
  BY <1>4 DEF Leave, BootRefused, WithdrawDone, Close, Die, Exit, Goto
<1>5. ASSUME NEW h \in Attempts, Cleanup(h)
      PROVE  Inside(h) \/ Leave(h)
  BY <1>5 DEF Inside, Leave, Idle, Cleanup, Exit, Goto, exitVars
<1>6. ASSUME NEW h \in Attempts, Interrupt(h)
      PROVE  Inside(h) \/ Leave(h)
  BY <1>1, <1>6 DEF Inside, Leave, Idle, Interrupt, Abort, Exit, Goto, exitVars
<1>7. ASSUME NEW h \in Attempts, Exec(h)
      PROVE  Arrive(h) \/ Quiet
  BY <1>7 DEF Arrive, Quiet, Exec, Goto
<1>8. ASSUME NEW h \in Attempts, TaskStep(h) \/ Expire(h) \/ PhoneStep(h)
      PROVE  Quiet
  BY <1>8 DEF Quiet, TaskStep, WatcherReads, WatcherFails, DiscoveryEnds, DeliveryEnds,
     ApprovalEnds, Expire, PhoneStep
<1>9. ASSUME Configure PROVE Quiet
  BY <1>9 DEF Quiet, Configure
<1> QED
  BY <1>2, <1>3, <1>4, <1>5, <1>6, <1>7, <1>8, <1>9 DEF HelperNext, HandleStep, LockMoves

\* A helper that is past its boot holds the lock alone, and no other request
\* is pending or ready.
OneHolder ==
  \A h \in Attempts :
    pc[h] \notin {"off", "boot", "done"} =>
      /\ lock = h
      /\ \A g \in Attempts \ {h} :
           pc[g] \in {"off", "boot", "done"} /\ row[g] \notin {"pending", "ready"}

\* Those steps keep the lock with the one helper that is past its boot.
LEMMA LockStep ==
  ASSUME Types, OneHolder, LockMoves
  PROVE  OneHolder'
<1>0. 0 \notin Attempts /\ pc \in [Attempts -> Pcs] /\ row \in [Attempts -> Statuses]
  BY DEF Types, AuthorityTypeOK, Attempts
<1>1. CASE Quiet
  BY <1>1 DEF Quiet, OneHolder
<1>2. ASSUME NEW h \in Attempts, Inside(h) PROVE OneHolder'
  BY <1>0, <1>2 DEF Inside, Idle, OneHolder
<1>3. ASSUME NEW h \in Attempts, Leave(h) PROVE OneHolder'
  BY <1>0, <1>3 DEF Leave, OneHolder
<1>4. ASSUME NEW h \in Attempts, Arrive(h) PROVE OneHolder'
  BY <1>0, <1>4 DEF Arrive, OneHolder
<1>5. ASSUME NEW h \in Attempts, Boot(h) PROVE OneHolder'
  <2>1. \A g \in Attempts \ {h} : pc[g] \in Idle /\ pc'[g] = pc[g]
    BY <1>0, <1>5 DEF Boot, Goto, Idle, OneHolder
  <2>2. \A g \in Attempts : row'[g] \notin {"pending", "ready"}
    BY <1>5 DEF Boot, AbandonedCanceled
  <2> QED
    BY <1>5, <2>1, <2>2 DEF Boot, Idle, OneHolder
<1>6. ASSUME CheckAuthority PROVE OneHolder'
  BY <1>0, <1>6 DEF CheckAuthority, AbandonedCanceled, OneHolder
<1> QED
  BY <1>1, <1>2, <1>3, <1>4, <1>5, <1>6 DEF LockMoves

-----------------------------------------------------------------------------
(* Approval, commitment and launch.                                        *)

\* What LaunchAuthorized rests on, helper by helper: no row before discovery
\* has ended, an approval task while its result is awaited, a verified
\* signature from ready to the launch, and a used-up row from the launch on.
LaunchInv(h) ==
  /\ proc[h] \in {"none", "forked"} => pc[h] = "off"
  /\ pc[h] \in {"off", "boot", "start", "discover"} => row[h] = "none"
  /\ pc[h] = "approve" => appr[h] # "none"
  /\ pc[h] \in {"commit", "consume", "launch"} => appr[h] = "ok"
  /\ pc[h] \in {"consume", "launch"} => watch[h] = "commit" /\ ~expired[h]
  /\ appr[h] = "ok" => phone[h] = "signed"
  /\ pc[h] = "launch" => row[h] = "consumed"
  /\ row[h] = "consumed" =>
       pc[h] \in {"launch", "record", "receipt", "cleanup", "closing", "done"}
  /\ pc[h] \in {"record", "receipt"} => launched[h] = 1
  /\ launched[h] <= 1
  /\ launched[h] = 1 => row[h] = "consumed" /\ phone[h] = "signed"
  /\ pc[h] \notin {"record", "receipt", "cleanup", "closing", "done"} => launched[h] = 0

\* What does not move keeps it.
LEMMA LaunchRests ==
  ASSUME NEW g, LaunchInv(g), pc'[g] = pc[g], row'[g] = row[g], proc'[g] = proc[g],
         watch'[g] = watch[g], appr'[g] = appr[g], expired'[g] = expired[g],
         UNCHANGED <<phone, launched>>
  PROVE  LaunchInv(g)'
  BY DEF LaunchInv

\* The end of one helper does not move another.
LEMMA CleanupApart ==
  ASSUME Types, NEW h \in Attempts, NEW g \in Attempts \ {h}, Cleanup(h)
  PROVE  /\ pc'[g] = pc[g] /\ row'[g] = row[g] /\ proc'[g] = proc[g]
         /\ watch'[g] = watch[g] /\ appr'[g] = appr[g] /\ expired'[g] = expired[g]
         /\ UNCHANGED <<phone, launched>>
<1>1. CASE row[h] \in {"pending", "ready"}
  BY <1>1 DEF Cleanup, Goto, exitVars, taskVars, Types, AuthorityTypeOK
<1>2. CASE row[h] \notin {"pending", "ready"}
  <2>1. Exit(h) /\ UNCHANGED <<row, phone, launched>>
    BY <1>2 DEF Cleanup
  <2>2. pc'[g] = pc[g]
    BY <2>1 DEF Exit, Goto, Types, AuthorityTypeOK
  <2>3. proc'[g] = proc[g]
    BY <2>1 DEF Exit, Types, WireTypeOK
  <2>4. watch'[g] = watch[g] /\ appr'[g] = appr[g] /\ expired'[g] = expired[g]
    BY <2>1 DEF Exit, Types, AuthorityTypeOK
  <2> QED
    BY <2>1, <2>2, <2>3, <2>4
<1> QED
  BY <1>1, <1>2

\* Every action of any helper keeps every helper's LaunchInv.
LEMMA HelpersLaunch ==
  ASSUME Types, \A g \in Attempts : LaunchInv(g), HelperNext, NEW g \in Attempts
  PROVE  LaunchInv(g)'
<1> USE DEF Types, WireTypeOK, AuthorityTypeOK, LaunchInv, Goto
<1>1. ASSUME NEW h \in Attempts, Exec(h) PROVE LaunchInv(g)'
  <2>1. CASE g = h
    <3>1. pc[h] = "off" /\ pc'[h] \in {"off", "boot"} /\ proc'[h] \in {"running", "failed"}
      BY <1>1 DEF Exec
    <3>2. UNCHANGED <<row, watch, appr, expired, phone, launched>>
      BY <1>1 DEF Exec, taskVars
    <3> QED
      BY <2>1, <3>1, <3>2
  <2>2. CASE g # h
    BY <1>1, <2>2 DEF Exec, taskVars, wireVars
  <2> QED
    BY <2>1, <2>2
<1>2. ASSUME NEW h \in Attempts, Boot(h) PROVE LaunchInv(g)'
  BY <1>2 DEF Boot, AbandonedCanceled, taskVars, wireVars
<1>3. ASSUME NEW h \in Attempts, BootRefused(h) PROVE LaunchInv(g)'
  BY <1>3 DEF BootRefused, Exit, taskVars, wireVars
<1>4. ASSUME NEW h \in Attempts, ReadStart(h) PROVE LaunchInv(g)'
  <2>1. CASE g = h
    BY <1>4, <2>1, ZenonT(30) DEF ReadStart, Abort, taskVars, wireVars
  <2>2. CASE g # h
    BY <1>4, <2>2 DEF ReadStart, Abort, taskVars, wireVars
  <2> QED
    BY <2>1, <2>2
<1>5. ASSUME NEW h \in Attempts, NoStart(h) PROVE LaunchInv(g)'
  BY <1>5 DEF NoStart, taskVars, wireVars
<1>6. ASSUME NEW h \in Attempts, LeaveDiscover(h) PROVE LaunchInv(g)'
  BY <1>6 DEF LeaveDiscover, Abort, taskVars, wireVars
<1>7. ASSUME NEW h \in Attempts, LeaveDeliver(h) PROVE LaunchInv(g)'
  <2>1. CASE g = h
    <3>1. CASE watch[h] # "reading" \/ deliv[h] = "failed"
      BY <1>7, <2>1, <3>1 DEF LeaveDeliver, Abort, taskVars, wireVars
    <3>2. CASE ~(watch[h] # "reading" \/ deliv[h] = "failed")
      <4>1. pc'[h] = "approve" /\ appr'[h] = "running"
        BY <1>7, <3>2 DEF LeaveDeliver
      <4> QED
        BY <1>7, <2>1, <4>1 DEF LeaveDeliver
    <3> QED
      BY <3>1, <3>2
  <2>2. CASE g # h
    BY <1>7, <2>2 DEF LeaveDeliver, Abort, taskVars, wireVars
  <2> QED
    BY <2>1, <2>2
<1>8. ASSUME NEW h \in Attempts, LeaveApprove(h) PROVE LaunchInv(g)'
  <2>1. CASE g = h
    <3>1. CASE watch[h] # "reading" \/ appr[h] = "failed"
      BY <1>8, <2>1, <3>1 DEF LeaveApprove, Abort, taskVars, wireVars
    <3>2. CASE ~(watch[h] # "reading" \/ appr[h] = "failed")
      <4>1. appr[h] = "ok" /\ phone[h] = "signed"
        BY <1>8, <3>2 DEF LeaveApprove, TaskStates
      <4>2. row'[h] \in {row[h], "ready"} /\ (row[h] = "consumed" => row'[h] = row[h])
        BY <1>8, <3>2 DEF LeaveApprove
      <4>3. pc'[h] \in {"commit", "cleanup"}
        BY <1>8, <3>2 DEF LeaveApprove
      <4>4. pc[h] = "approve" /\ UNCHANGED <<proc, watch, appr, expired, phone, launched>>
        BY <1>8 DEF LeaveApprove, taskVars
      <4> QED
        BY <2>1, <4>1, <4>2, <4>3, <4>4
    <3> QED
      BY <3>1, <3>2
  <2>2. CASE g # h
    BY <1>8, <2>2 DEF LeaveApprove, Abort, taskVars, wireVars
  <2> QED
    BY <2>1, <2>2
<1>9. ASSUME NEW h \in Attempts, AcceptCommit(h) PROVE LaunchInv(g)'
  <2>1. CASE g = h
    BY <1>9, <2>1, ZenonT(30) DEF AcceptCommit, Abort, taskVars, wireVars
  <2>2. CASE g # h
    BY <1>9, <2>2 DEF AcceptCommit, Abort, taskVars, wireVars
  <2> QED
    BY <2>1, <2>2
<1>10. ASSUME NEW h \in Attempts, Consume(h) PROVE LaunchInv(g)'
  <2>1. CASE g = h
    <3>1. /\ pc[h] = "consume" /\ pc'[h] \in {"launch", "cleanup"}
          /\ row'[h] = IF pc'[h] = "launch" THEN "consumed" ELSE row[h]
          /\ UNCHANGED <<proc, watch, appr, expired, phone, launched>>
      BY <1>10 DEF Consume, Abort, taskVars
    <3> QED
      BY <2>1, <3>1
  <2>2. CASE g # h
    BY <1>10, <2>2 DEF Consume, Abort, taskVars, wireVars
  <2> QED
    BY <2>1, <2>2
<1>11. ASSUME NEW h \in Attempts, Launch(h) PROVE LaunchInv(g)'
  <2>1. CASE g = h
    <3>1. /\ pc[h] = "launch" /\ UNCHANGED <<proc, watch, appr, expired, row, phone>>
          /\ \/ pc'[h] = "record" /\ launched'[h] = launched[h] + 1
             \/ pc'[h] = "cleanup" /\ launched'[h] = launched[h]
      BY <1>11 DEF Launch, Abort, taskVars
    <3>2. /\ appr[h] = "ok" /\ phone[h] = "signed" /\ row[h] = "consumed" /\ launched[h] = 0
          /\ proc[h] \notin {"none", "forked"}
      BY <3>1
    <3>3. \/ pc'[h] = "record" /\ launched'[h] = 1
          \/ pc'[h] = "cleanup" /\ launched'[h] = 0
      BY <3>1, <3>2
    <3> QED
      BY <2>1, <3>1, <3>2, <3>3
  <2>2. CASE g # h
    BY <1>11, <2>2 DEF Launch, Abort, taskVars, wireVars
  <2> QED
    BY <2>1, <2>2
<1>12. ASSUME NEW h \in Attempts, Record(h) PROVE LaunchInv(g)'
  <2>1. CASE g = h
    BY <1>12, <2>1 DEF Record, Abort, taskVars, wireVars
  <2>2. CASE g # h
    BY <1>12, <2>2 DEF Record, Abort, taskVars, wireVars
  <2> QED
    BY <2>1, <2>2
<1>13. ASSUME NEW h \in Attempts, ReceiptDone(h) PROVE LaunchInv(g)'
  BY <1>13 DEF ReceiptDone, Abort, taskVars, wireVars
<1>14. ASSUME NEW h \in Attempts, Cleanup(h) PROVE LaunchInv(g)'
  <2>1. CASE g = h
    BY <1>14, <2>1 DEF Cleanup, Abort, Exit, exitVars, taskVars, wireVars
  <2>2. CASE g # h
    <3> HIDE DEF Types, WireTypeOK, AuthorityTypeOK, LaunchInv, Goto
    <3> QED
      BY <1>14, <2>2, CleanupApart, LaunchRests
  <2> QED
    BY <2>1, <2>2
<1>15. ASSUME NEW h \in Attempts, WithdrawDone(h) PROVE LaunchInv(g)'
  BY <1>15 DEF WithdrawDone, Exit, taskVars, wireVars
<1>16. ASSUME NEW h \in Attempts, Close(h) PROVE LaunchInv(g)'
  BY <1>16 DEF Close, Exit, taskVars, wireVars
<1>17. ASSUME NEW h \in Attempts, WatcherReads(h) PROVE LaunchInv(g)'
  BY <1>17 DEF WatcherReads, taskVars, wireVars
<1>18. ASSUME NEW h \in Attempts, WatcherFails(h) PROVE LaunchInv(g)'
  BY <1>18 DEF WatcherFails, taskVars, wireVars
<1>19. ASSUME NEW h \in Attempts, DiscoveryEnds(h) PROVE LaunchInv(g)'
  BY <1>19 DEF DiscoveryEnds, taskVars, wireVars
<1>20. ASSUME NEW h \in Attempts, DeliveryEnds(h) PROVE LaunchInv(g)'
  BY <1>20 DEF DeliveryEnds, taskVars, wireVars
<1>21. ASSUME NEW h \in Attempts, ApprovalEnds(h) PROVE LaunchInv(g)'
  BY <1>21 DEF ApprovalEnds, taskVars, wireVars
<1>22. ASSUME NEW h \in Attempts, Interrupt(h) PROVE LaunchInv(g)'
  <2>1. CASE g = h
    BY <1>22, <2>1 DEF Interrupt, Abort, Exit, exitVars, taskVars, wireVars
  <2>2. CASE g # h
    BY <1>22, <2>2 DEF Interrupt, Abort, Exit, exitVars, taskVars, wireVars
  <2> QED
    BY <2>1, <2>2
<1>23. ASSUME NEW h \in Attempts, Die(h) PROVE LaunchInv(g)'
  BY <1>23 DEF Die, Exit, taskVars, wireVars
<1>24. ASSUME NEW h \in Attempts, Expire(h) PROVE LaunchInv(g)'
  BY <1>24 DEF Expire, taskVars, wireVars
<1>25. ASSUME NEW h \in Attempts, PhoneStep(h) PROVE LaunchInv(g)'
  BY <1>25 DEF PhoneStep, taskVars, wireVars
<1>26. ASSUME Configure PROVE LaunchInv(g)'
  BY <1>26 DEF Configure, taskVars, wireVars
<1>27. ASSUME CheckAuthority PROVE LaunchInv(g)'
  BY <1>27 DEF CheckAuthority, AbandonedCanceled, taskVars, wireVars
<1> QED
  BY <1>1, <1>2, <1>3, <1>4, <1>5, <1>6, <1>7, <1>8, <1>9, <1>10, <1>11, <1>12, <1>13, <1>14,
     <1>15, <1>16, <1>17, <1>18, <1>19, <1>20, <1>21, <1>22, <1>23, <1>24, <1>25, <1>26, <1>27
  DEF HelperNext, HandleStep, TaskStep

-----------------------------------------------------------------------------
(* What the helpers say.                                                   *)

Over == {"cleanup", "withdraw", "closing", "done"}   \* handle() has answered, or never will

Silent(s) == \A i \in 1..Len(s) : s[i] \notin Terminal
EndsOnce(s) == \A i, j \in 1..Len(s) : i < j => s[i] \notin Terminal

\* No helper ends its request before it is over, or twice, or falsely.
Speech(h) ==
  /\ pc[h] \notin Over => Silent(fromHelper[h])
  /\ EndsOnce(fromHelper[h])
  /\ \A i \in 1..Len(fromHelper[h]) :
       /\ fromHelper[h][i] = "executed" => launched[h] = 1
       /\ fromHelper[h][i] = "canceled" => row[h] # "consumed"

\* One more line after lines that end nothing.
LEMMA OneMoreLine ==
  ASSUME NEW s \in Seq(Replies), NEW r \in Replies, Silent(s)
  PROVE  /\ EndsOnce(Append(s, r))
         /\ \A i \in 1..Len(Append(s, r)) :
              Append(s, r)[i] = r \/ Append(s, r)[i] \notin Terminal
         /\ r \notin Terminal => Silent(Append(s, r))
<1>1. Len(Append(s, r)) = Len(s) + 1 /\ Len(s) \in Nat
  BY AppendProperties
<1>2. \A i \in 1..Len(s) : Append(s, r)[i] = s[i]
  BY AppendProperties
<1>3. Append(s, r)[Len(s) + 1] = r
  BY AppendProperties
<1>4. \A i \in 1..Len(Append(s, r)) : i \in 1..Len(s) \/ i = Len(s) + 1
  BY <1>1
<1>5. \A i, j \in 1..Len(Append(s, r)) : i < j => i \in 1..Len(s)
  BY <1>1
<1> QED
  BY <1>2, <1>3, <1>4, <1>5 DEF Silent, EndsOnce

\* Steps that say nothing, and settle nothing that was said.
LEMMA SilenceKeeps ==
  ASSUME NEW g \in Attempts, Speech(g), fromHelper'[g] = fromHelper[g],
         pc'[g] \notin Over => pc[g] \notin Over,
         \/ pc[g] \notin Over
         \/ launched'[g] = launched[g] /\ (row'[g] = "consumed" => row[g] = "consumed")
  PROVE  Speech(g)'
  BY DEF Speech, Silent, Terminal

\* The one line that ends a request, or that it is ready.
LEMMA SayKeeps ==
  ASSUME Types, NEW h \in Attempts, NEW g \in Attempts, Speech(g), Speech(h),
         pc[h] \notin Over, NEW r \in Replies, Say(h, r),
         pc' = [pc EXCEPT ![h] = "cleanup"] \/ (r = "ready" /\ pc' = [pc EXCEPT ![h] = "commit"]),
         launched' = launched, row'[g] = "consumed" => row[g] = "consumed",
         r = "executed" => launched[h] = 1, r = "canceled" => row[h] # "consumed"
  PROVE  Speech(g)'
<1> USE DEF Types, WireTypeOK, AuthorityTypeOK
<1>1. CASE g # h \/ fromClosed
  <2>1. fromHelper'[g] = fromHelper[g] /\ (pc'[g] \notin Over => pc[g] \notin Over)
    BY <1>1 DEF Say
  <2> QED
    BY <2>1, SilenceKeeps
<1>2. CASE g = h /\ ~fromClosed
  <2>1. fromHelper'[h] = Append(fromHelper[h], r) /\ Silent(fromHelper[h])
    BY <1>2 DEF Say, Speech
  <2>2. /\ EndsOnce(fromHelper'[h])
        /\ \A i \in 1..Len(fromHelper'[h]) : fromHelper'[h][i] = r \/ fromHelper'[h][i] \notin Terminal
        /\ r \notin Terminal => Silent(fromHelper'[h])
    <3>1. fromHelper[h] \in Seq(Replies)
      OBVIOUS
    <3> QED
      BY <2>1, <3>1, OneMoreLine
  <2>3. pc'[h] \in {"cleanup", "commit"} /\ (pc'[h] = "commit" => r = "ready")
    OBVIOUS
  <2>4. "ready" \notin Terminal /\ "executed" \in Terminal /\ "canceled" \in Terminal
    BY DEF Terminal
  <2> QED
    BY <1>2, <2>2, <2>3, <2>4 DEF Speech, Over
<1> QED
  BY <1>1, <1>2

\* Nothing a helper does makes it end its request early, twice or falsely.
LEMMA HelpersSpeak ==
  ASSUME Types, \A h \in Attempts : LaunchInv(h) /\ Speech(h), HelperNext, NEW g \in Attempts
  PROVE  Speech(g)'
<1> USE DEF Types, WireTypeOK, AuthorityTypeOK
<1>0. /\ {"ready", "canceled", "executed", "error"} \subseteq Replies
      /\ \A h \in Attempts : Verdict(h) \in {"canceled", "error"}
  BY DEF Replies, Verdict
<1>1. ASSUME NEW h \in Attempts, NEW r \in Replies, Abort(h, r), pc[h] \notin Over,
             launched' = launched, row' = row,
             r = "executed" => launched[h] = 1, r = "canceled" => row[h] # "consumed"
      PROVE  Speech(g)'
  BY <1>1, SayKeeps DEF Abort, Goto
<1>2. ASSUME UNCHANGED <<fromHelper, launched>>, row'[g] = "consumed" => row[g] = "consumed",
             pc'[g] \notin Over => pc[g] \notin Over
      PROVE  Speech(g)'
  BY <1>2, SilenceKeeps
<1>3. ASSUME NEW h \in Attempts, Exec(h) \/ Boot(h) \/ BootRefused(h) \/ NoStart(h) PROVE Speech(g)'
  BY <1>2, <1>3
  DEF Exec, Boot, BootRefused, NoStart, AbandonedCanceled, Exit, Goto, wireVars, LaunchInv, Over
<1>4. ASSUME NEW h \in Attempts, ReadStart(h) PROVE Speech(g)'
  <2>1. CASE Abort(h, "error")
    BY <1>0, <1>1, <1>4, <2>1 DEF ReadStart, Over
  <2>2. CASE Goto(h, "discover") /\ UNCHANGED fromHelper
    BY <1>2, <1>4, <2>2 DEF ReadStart, Goto, Over
  <2> QED
    BY <1>4, <2>1, <2>2 DEF ReadStart
<1>5. ASSUME NEW h \in Attempts, LeaveDiscover(h) PROVE Speech(g)'
  <2>1. pc[h] \notin Over /\ row[h] = "none"
    BY <1>5 DEF LeaveDiscover, LaunchInv, Over
  <2>2. ASSUME NEW r \in {"canceled", "error"}, Abort(h, r), UNCHANGED row PROVE Speech(g)'
    BY <1>0, <1>1, <1>5, <2>1, <2>2 DEF LeaveDiscover
  <2>3. CASE Goto(h, "deliver") /\ UNCHANGED fromHelper /\ row' = [row EXCEPT ![h] = "pending"]
    BY <1>2, <1>5, <2>1, <2>3 DEF LeaveDiscover, Goto
  <2> QED
    BY <1>0, <1>5, <2>2, <2>3 DEF LeaveDiscover
<1>6. ASSUME NEW h \in Attempts, LeaveDeliver(h) PROVE Speech(g)'
  <2>1. pc[h] \notin Over /\ row[h] # "consumed"
    BY <1>6 DEF LeaveDeliver, LaunchInv, Over
  <2>2. CASE Abort(h, Verdict(h))
    BY <1>0, <1>1, <1>6, <2>1, <2>2 DEF LeaveDeliver
  <2>3. CASE Goto(h, "approve") /\ UNCHANGED fromHelper
    BY <1>2, <1>6, <2>1, <2>3 DEF LeaveDeliver, Goto
  <2> QED
    BY <1>6, <2>2, <2>3 DEF LeaveDeliver
<1>7. ASSUME NEW h \in Attempts, LeaveApprove(h) PROVE Speech(g)'
  <2>1. pc[h] \notin Over /\ row[h] # "consumed"
    BY <1>7 DEF LeaveApprove, LaunchInv, Over
  <2>2. CASE Abort(h, Verdict(h)) /\ UNCHANGED row
    BY <1>0, <1>1, <1>7, <2>1, <2>2 DEF LeaveApprove
  <2>3. CASE /\ row' = [row EXCEPT ![h] = IF @ = "pending" THEN "ready" ELSE @]
             /\ Goto(h, IF fromClosed THEN "cleanup" ELSE "commit")
             /\ Say(h, "ready")
    <3>1. row'[g] = "consumed" => row[g] = "consumed"
      BY <2>3
    <3>2. pc' = [pc EXCEPT ![h] = "cleanup"] \/ pc' = [pc EXCEPT ![h] = "commit"]
      BY <2>3 DEF Goto
    <3>3. launched' = launched /\ "ready" \in Replies
      BY <1>0, <1>7 DEF LeaveApprove
    <3> QED
      BY <2>1, <2>3, <3>1, <3>2, <3>3, SayKeeps
  <2> QED
    BY <1>7, <2>2, <2>3 DEF LeaveApprove
<1>8. ASSUME NEW h \in Attempts, AcceptCommit(h) PROVE Speech(g)'
  <2>1. pc[h] \notin Over /\ row[h] # "consumed"
    BY <1>8 DEF AcceptCommit, LaunchInv, Over
  <2>2. CASE Abort(h, Verdict(h))
    BY <1>0, <1>1, <1>8, <2>1, <2>2 DEF AcceptCommit
  <2>3. CASE Goto(h, "consume") /\ UNCHANGED fromHelper
    BY <1>2, <1>8, <2>1, <2>3 DEF AcceptCommit, Goto
  <2> QED
    BY <1>8, <2>2, <2>3 DEF AcceptCommit
<1>9. ASSUME NEW h \in Attempts, Consume(h) \/ Launch(h) \/ Record(h) \/ ReceiptDone(h)
      PROVE  Speech(g)'
  <2>1. pc[h] \notin Over
    BY <1>9 DEF Consume, Launch, Record, ReceiptDone, Over
  <2>2. CASE Abort(h, "error") /\ UNCHANGED <<row, launched>>
    BY <1>0, <1>1, <2>1, <2>2
  <2>3. CASE ReceiptDone(h)
    BY <1>0, <1>1, <2>1, <2>3 DEF ReceiptDone, LaunchInv
  <2>4. CASE UNCHANGED fromHelper /\ \E l \in {"launch", "record", "receipt"} : Goto(h, l)
    <3>1. CASE g = h
      BY <2>1, <2>4, <3>1, SilenceKeeps
    <3>2. CASE g # h
      BY <1>9, <2>4, <3>2, SilenceKeeps DEF Consume, Launch, Record, ReceiptDone, Goto
    <3> QED
      BY <3>1, <3>2
  <2> QED
    BY <1>9, <2>2, <2>3, <2>4 DEF Consume, Launch, Record
<1>10. ASSUME NEW h \in Attempts, Cleanup(h) \/ WithdrawDone(h) \/ Close(h) \/ Die(h)
       PROVE  Speech(g)'
  BY <1>2, <1>10 DEF Cleanup, WithdrawDone, Close, Die, Exit, Goto, Over
<1>11. ASSUME NEW h \in Attempts, Interrupt(h) PROVE Speech(g)'
  <2>1. launched' = launched /\ row' = row
    BY <1>11 DEF Interrupt
  <2>2. CASE Abort(h, "error") /\ pc[h] \in {"discover", "deliver", "approve", "commit"}
    BY <1>0, <1>1, <2>1, <2>2 DEF Over
  <2>3. CASE Abort(h, "executed") /\ pc[h] = "receipt"
    BY <1>0, <1>1, <2>1, <2>3 DEF Over, LaunchInv
  <2>4. CASE UNCHANGED fromHelper /\ \E l \in Over : Goto(h, l)
    BY <1>2, <2>1, <2>4 DEF Goto, Over
  <2> QED
    BY <1>11, <2>2, <2>3, <2>4 DEF Interrupt, Exit, Over
<1>12. ASSUME NEW h \in Attempts, TaskStep(h) \/ Expire(h) \/ PhoneStep(h) PROVE Speech(g)'
  BY <1>2, <1>12
  DEF TaskStep, WatcherReads, WatcherFails, DiscoveryEnds, DeliveryEnds, ApprovalEnds, Expire,
      PhoneStep, wireVars
<1>13. ASSUME Configure \/ CheckAuthority PROVE Speech(g)'
  BY <1>2, <1>13 DEF Configure, CheckAuthority, AbandonedCanceled, wireVars
<1> QED
  BY <1>3, <1>4, <1>5, <1>6, <1>7, <1>8, <1>9, <1>10, <1>11, <1>12, <1>13
  DEF HelperNext, HandleStep

-----------------------------------------------------------------------------
(* Where a commit shows.                                                   *)

\* A trace of a commit: on the pipe, at the watcher, or what follows from it.
Spurred(h) ==
  \/ \E i \in 1..Len(toHelper[h]) : toHelper[h][i] = "commit"
  \/ watch[h] = "commit"
  \/ pc[h] \in {"consume", "launch", "record", "receipt"}
  \/ row[h] = "consumed"
  \/ launched[h] # 0

\* A line that is read was on the pipe.
LEMMA ReadingFinds ==
  ASSUME NEW s \in Seq(Events), s # <<>>
  PROVE  /\ \E i \in 1..Len(s) : s[i] = Head(s)
         /\ \A j \in 1..Len(Tail(s)) : \E i \in 1..Len(s) : s[i] = Tail(s)[j]
<1>1. Len(s) \in Nat /\ 1 \in 1..Len(s) /\ Head(s) = s[1]
  OBVIOUS
<1>2. Len(Tail(s)) = Len(s) - 1 /\ \A j \in 1..Len(Tail(s)) : Tail(s)[j] = s[j + 1]
  BY HeadTailProperties
<1>3. \A j \in 1..Len(Tail(s)) : j + 1 \in 1..Len(s)
  BY <1>1, <1>2
<1> QED
  BY <1>1, <1>2, <1>3

\* No helper acts as if it were told to commit unless it was.
LEMMA NoCommitOfTheirOwn ==
  ASSUME Types, \A h \in Attempts : LaunchInv(h), HelperNext, NEW g \in Attempts, Spurred(g)'
  PROVE  Spurred(g)
<1> USE DEF Types, WireTypeOK, AuthorityTypeOK
<1>1. ASSUME toHelper'[g] = toHelper[g], watch'[g] = "commit" => watch[g] = "commit",
             pc'[g] \in {"consume", "launch", "record", "receipt"} =>
               pc[g] \in {"consume", "launch", "record", "receipt"},
             row'[g] = "consumed" => row[g] = "consumed", launched'[g] = launched[g]
      PROVE  Spurred(g)
  BY <1>1 DEF Spurred
<1>2. ASSUME NEW h \in Attempts, h # g,
             HandleStep(h) \/ TaskStep(h) \/ Interrupt(h) \/ Die(h) \/ Expire(h) \/ PhoneStep(h)
      PROVE  Spurred(g)
  <2>1. /\ toHelper'[g] = toHelper[g] /\ watch'[g] = watch[g] /\ pc'[g] = pc[g]
        /\ launched'[g] = launched[g]
    BY <1>2
    DEF HandleStep, TaskStep, Exec, Boot, BootRefused, ReadStart, NoStart, LeaveDiscover,
        LeaveDeliver, LeaveApprove, AcceptCommit, Consume, Launch, Record, ReceiptDone, Cleanup,
        WithdrawDone, Close, WatcherReads, WatcherFails, DiscoveryEnds, DeliveryEnds,
        ApprovalEnds, Interrupt, Die, Expire, PhoneStep, Abort, Goto, Exit, exitVars, wireVars,
        taskVars
  <2>2. row'[g] = "consumed" => row[g] = "consumed"
    BY <1>2
    DEF HandleStep, TaskStep, Exec, Boot, BootRefused, ReadStart, NoStart, LeaveDiscover,
        LeaveDeliver, LeaveApprove, AcceptCommit, Consume, Launch, Record, ReceiptDone, Cleanup,
        WithdrawDone, Close, WatcherReads, WatcherFails, DiscoveryEnds, DeliveryEnds,
        ApprovalEnds, Interrupt, Die, Expire, PhoneStep, AbandonedCanceled
  <2> QED
    BY <1>1, <2>1, <2>2
<1>3. ASSUME Exec(g) \/ Boot(g) \/ NoStart(g) \/ LeaveDiscover(g) \/ LeaveDeliver(g) \/ LeaveApprove(g)
      PROVE  Spurred(g)
  BY <1>1, <1>3
  DEF Exec, Boot, NoStart, LeaveDiscover, LeaveDeliver, LeaveApprove, AbandonedCanceled, Abort,
      Goto, wireVars, taskVars
<1>4. ASSUME BootRefused(g) \/ Cleanup(g) \/ WithdrawDone(g) \/ Close(g) \/ Die(g) PROVE Spurred(g)
  <2>1. CASE Exit(g)
    <3>1. /\ Len(toHelper'[g]) = 0 /\ watch'[g] = "none" /\ pc'[g] = "done"
          /\ row'[g] = row[g] /\ launched'[g] = launched[g]
      BY <1>4, <2>1 DEF BootRefused, Cleanup, WithdrawDone, Close, Die, Exit, Goto, exitVars
    <3> QED
      BY <3>1 DEF Spurred
  <2>2. CASE ~Exit(g)
    BY <1>1, <1>4, <2>2 DEF BootRefused, Cleanup, WithdrawDone, Close, Die, Goto, exitVars, taskVars
  <2> QED
    BY <2>1, <2>2
<1>5. ASSUME ReadStart(g) PROVE Spurred(g)
  <2>1. /\ toHelper[g] # <<>> /\ toHelper'[g] = Tail(toHelper[g])
        /\ watch'[g] = "commit" => watch[g] = "commit"
        /\ pc'[g] \in {"discover", "cleanup"} /\ UNCHANGED <<row, launched>>
    BY <1>5 DEF ReadStart, Abort, Goto
  <2>2. \A j \in 1..Len(toHelper'[g]) :
          \E i \in 1..Len(toHelper[g]) : toHelper[g][i] = toHelper'[g][j]
    BY <2>1, ReadingFinds
  <2>3. pc'[g] \notin {"consume", "launch", "record", "receipt"}
    BY <2>1
  <2> QED
    BY <2>1, <2>2, <2>3, Zenon DEF Spurred
<1>6. ASSUME WatcherReads(g) PROVE Spurred(g)
  <2>1. /\ toHelper[g] # <<>> /\ toHelper'[g] = Tail(toHelper[g])
        /\ watch'[g] = "commit" => Head(toHelper[g]) = "commit"
        /\ UNCHANGED <<pc, row, launched>>
    BY <1>6 DEF WatcherReads
  <2> QED
    BY <2>1, ReadingFinds DEF Spurred
<1>7. ASSUME AcceptCommit(g) PROVE Spurred(g)
  <2>1. CASE watch[g] = "commit"
    BY <2>1 DEF Spurred
  <2>2. CASE watch[g] # "commit"
    BY <1>1, <1>7, <2>2 DEF AcceptCommit, Abort, Goto, taskVars
  <2> QED
    BY <2>1, <2>2
<1>8. ASSUME Consume(g) \/ Launch(g) \/ Record(g) \/ ReceiptDone(g) PROVE Spurred(g)
  BY <1>8 DEF Consume, Launch, Record, ReceiptDone, Spurred
<1>9. ASSUME Interrupt(g) PROVE Spurred(g)
  <2>1. CASE Exit(g)
    <3>1. /\ Len(toHelper'[g]) = 0 /\ watch'[g] = "none" /\ pc'[g] = "done"
          /\ row'[g] = row[g] /\ launched'[g] = launched[g]
      BY <1>9, <2>1 DEF Interrupt, Exit, Goto
    <3> QED
      BY <3>1 DEF Spurred
  <2>2. CASE UNCHANGED exitVars /\ \E l \in {"cleanup", "closing"} : Goto(g, l)
    BY <1>1, <1>9, <2>2 DEF Interrupt, Goto, exitVars, taskVars
  <2> QED
    BY <1>9, <2>1, <2>2 DEF Interrupt, Abort
<1>10. ASSUME WatcherFails(g) \/ DiscoveryEnds(g) \/ DeliveryEnds(g) \/ ApprovalEnds(g)
              \/ Expire(g) \/ PhoneStep(g)
       PROVE  Spurred(g)
  BY <1>1, <1>10
  DEF WatcherFails, DiscoveryEnds, DeliveryEnds, ApprovalEnds, Expire, PhoneStep, wireVars, taskVars
<1>11. ASSUME Configure \/ CheckAuthority PROVE Spurred(g)
  BY <1>1, <1>11 DEF Configure, CheckAuthority, AbandonedCanceled, wireVars, taskVars
<1> QED
  BY <1>2, <1>3, <1>4, <1>5, <1>6, <1>7, <1>8, <1>9, <1>10, <1>11
  DEF HelperNext, HandleStep, TaskStep

\* A helper that was not forked does not run.
LEMMA NoForkOfTheirOwn ==
  ASSUME Types, \A h \in Attempts : LaunchInv(h), HelperNext, NEW g \in Attempts, proc[g] = "none"
  PROVE  proc'[g] = "none"
<1> USE DEF Types, WireTypeOK, AuthorityTypeOK
<1>1. pc[g] = "off"
  BY DEF LaunchInv
<1>2. ASSUME NEW h \in Attempts,
             HandleStep(h) \/ TaskStep(h) \/ Interrupt(h) \/ Die(h) \/ Expire(h) \/ PhoneStep(h)
      PROVE  proc'[g] = "none"
  BY <1>1, <1>2
  DEF HandleStep, TaskStep, Exec, Boot, BootRefused, ReadStart, NoStart, LeaveDiscover,
      LeaveDeliver, LeaveApprove, AcceptCommit, Consume, Launch, Record, ReceiptDone, Cleanup,
      WithdrawDone, Close, WatcherReads, WatcherFails, DiscoveryEnds, DeliveryEnds,
      ApprovalEnds, Interrupt, Die, Expire, PhoneStep, Exit, exitVars, wireVars
<1>3. ASSUME Configure \/ CheckAuthority PROVE proc'[g] = "none"
  BY <1>3 DEF Configure, CheckAuthority, wireVars
<1> QED
  BY <1>2, <1>3 DEF HelperNext

\* The command is started by Popen alone, and once.
LEMMA LaunchesOnce ==
  ASSUME Types, \A h \in Attempts : LaunchInv(h), HelperNext
  PROVE  \/ UNCHANGED launched
         \/ \E h \in Attempts : /\ pc[h] = "launch" /\ launched[h] = 0
                                /\ launched' = [launched EXCEPT ![h] = 1]
<1>1. ASSUME NEW h \in Attempts, Launch(h), ~UNCHANGED launched
      PROVE  /\ pc[h] = "launch" /\ launched[h] = 0
             /\ launched' = [launched EXCEPT ![h] = 1]
  BY <1>1 DEF Launch, LaunchInv
<1> QED
  BY <1>1
  DEF HelperNext, HandleStep, TaskStep, Exec, Boot, BootRefused, ReadStart, NoStart,
      LeaveDiscover, LeaveDeliver, LeaveApprove, AcceptCommit, Consume, Record, ReceiptDone,
      Cleanup, WithdrawDone, Close, WatcherReads, WatcherFails, DiscoveryEnds, DeliveryEnds,
      ApprovalEnds, Interrupt, Die, Expire, PhoneStep, Configure, CheckAuthority
=============================================================================
