------------------------------ MODULE Authority ------------------------------
(***************************************************************************)
(* The protected helper: authorize.c up to its exec, then rootauth.py from *)
(* the process lock to exit.  handle() is one coroutine per process; pc[h] *)
(* is the await it is suspended at, or the synchronous stretch between two *)
(* of them that a crash or another process can still fall into.  The tasks *)
(* it starts (watcher, discovery, delivery, approval) finish on their own, *)
(* in any order, and are looked at only when the coroutine runs again.     *)
(***************************************************************************)
EXTENDS ExecWire

CONSTANTS
  Configs,    \* the enabled configurations an administrator may install
  Discovers   \* TRUE: the phone is looked up through KDE Connect first

Revoked == "revoked"
NoConfig == "none"

ASSUME ConfigsAssumption ==
  Configs # {} /\ Revoked \notin Configs /\ NoConfig \notin Configs
ASSUME DiscoversAssumption == Discovers \in BOOLEAN

VARIABLES
  pc,        \* where each helper's handle() is
  watch,     \* the watcher task, which reads one event after start
  disc,      \* the discovery task
  deliv,     \* the delivery task, which posts request.json
  appr,      \* the approval task, which polls response.json
  expired,   \* the 120 s deadline has passed
  row,       \* status of the request's row in executions.sqlite3
  digest,    \* the configuration read when the helper started
  lock,      \* holder of authority.lock, 0 when free
  refusedBy, \* holder that made this helper give up at the lock
  config,    \* what CONFIG holds now
  phone,     \* what the phone knows of the request
  launched   \* how many times the command was started for the request

taskVars == <<watch, disc, deliv, appr, expired>>
authorityVars == <<pc, taskVars, row, digest, lock, refusedBy, config, phone, launched>>

Pcs == {"off", "boot", "start", "discover", "deliver", "approve", "commit", "consume",
        "launch", "record", "receipt", "cleanup", "withdraw", "closing", "done"}
TaskStates == {"none", "running", "ok", "failed"}
Statuses == {"none", "pending", "ready", "consumed", "canceled"}

AuthorityTypeOK ==
  /\ pc \in [Attempts -> Pcs]
  /\ watch \in [Attempts -> {"none", "reading", "cancel", "commit", "other", "failed"}]
  /\ disc \in [Attempts -> TaskStates]
  /\ deliv \in [Attempts -> TaskStates]
  /\ appr \in [Attempts -> TaskStates]
  /\ expired \in [Attempts -> BOOLEAN]
  /\ row \in [Attempts -> Statuses]
  /\ digest \in [Attempts -> Configs \cup {NoConfig}]
  /\ lock \in 0..MaxAttempts
  /\ refusedBy \in [Attempts -> 0..MaxAttempts]
  /\ config \in Configs \cup {Revoked}
  /\ phone \in [Attempts -> {"unseen", "asked", "signed", "withdrawn"}]
  /\ launched \in [Attempts -> Nat]

AuthorityInit ==
  /\ pc = [h \in Attempts |-> "off"]
  /\ watch = [h \in Attempts |-> "none"]
  /\ disc = [h \in Attempts |-> "none"]
  /\ deliv = [h \in Attempts |-> "none"]
  /\ appr = [h \in Attempts |-> "none"]
  /\ expired = [h \in Attempts |-> FALSE]
  /\ row = [h \in Attempts |-> "none"]
  /\ digest = [h \in Attempts |-> NoConfig]
  /\ lock = 0
  /\ refusedBy = [h \in Attempts |-> 0]
  /\ config \in Configs
  /\ phone = [h \in Attempts |-> "unseen"]
  /\ launched = [h \in Attempts |-> 0]

-----------------------------------------------------------------------------
(* Helpers of the actions.                                                 *)

Goto(h, l) == pc' = [pc EXCEPT ![h] = l]

\* send(): one flushed line, or a broken pipe when kdesu has gone.
Say(h, r) == fromHelper' = IF fromClosed THEN fromHelper
                           ELSE [fromHelper EXCEPT ![h] = Append(@, r)]

\* Mutant: terminal_sent is never set.
AbortTwice(h, r) ==
  /\ Goto(h, "cleanup")
  /\ fromHelper' = IF fromClosed THEN fromHelper
                   ELSE [fromHelper EXCEPT ![h] = Append(Append(@, r), "error")]

\* The except clause: report, then run the finally clause.
Abort(h, r) == Goto(h, "cleanup") /\ Say(h, r)

\* What the early exits answer: canceled to a cancel, error to anything else.
Verdict(h) == IF watch[h] = "cancel" THEN "canceled" ELSE "error"

AtEof(h) == toClosed[h] /\ toHelper[h] = <<>>

\* Mutant: the started command inherits the lock's descriptor.
ExitLockInherited(h) ==
  /\ Goto(h, "done") /\ proc' = [proc EXCEPT ![h] = "exited"]
  /\ lock' = IF lock = h /\ launched[h] = 0 THEN 0 ELSE lock
  /\ UNCHANGED <<toHelper, taskVars>>

\* Process exit, however it comes: the lock is freed, the tasks and what was
\* not read from stdin are gone; what was printed stays in the pipe.
Exit(h) ==
  /\ Goto(h, "done")
  /\ proc' = [proc EXCEPT ![h] = "exited"]
  /\ lock' = IF lock = h THEN 0 ELSE lock
  /\ toHelper' = [toHelper EXCEPT ![h] = <<>>]
  /\ watch' = [watch EXCEPT ![h] = "none"]
  /\ disc' = [disc EXCEPT ![h] = "none"]
  /\ deliv' = [deliv EXCEPT ![h] = "none"]
  /\ appr' = [appr EXCEPT ![h] = "none"]
  /\ expired' = [expired EXCEPT ![h] = FALSE]

exitVars == <<proc, lock, toHelper, taskVars>>

-----------------------------------------------------------------------------
(* Process start.                                                          *)

\* fork and exec of the setuid program, which QProcess may also fail to do.
Exec(h) ==
  /\ proc[h] = "forked"
  /\ \/ proc' = [proc EXCEPT ![h] = "running"] /\ Goto(h, "boot")
     \/ proc' = [proc EXCEPT ![h] = "failed"] /\ UNCHANGED pc
  /\ UNCHANGED <<toHelper, toClosed, fromHelper, fromClosed, signalled, taskVars, row,
                 digest, lock, refusedBy, config, phone, launched>>

\* Mutant: rows a dead helper left behind are kept.
BootKeepsRows(h) ==
  /\ pc[h] = "boot" /\ lock = 0 /\ config # Revoked
  /\ lock' = h /\ digest' = [digest EXCEPT ![h] = config] /\ Goto(h, "start")
  /\ UNCHANGED <<wireVars, taskVars, row, refusedBy, config, phone, launched>>

\* Authority() cancels the rows that a dead predecessor left behind.
AbandonedCanceled ==
  row' = [g \in Attempts |-> IF row[g] \in {"pending", "ready"} THEN "canceled" ELSE row[g]]

\* main() takes the lock without waiting; Authority() reads the configuration.
Boot(h) ==
  /\ pc[h] = "boot" /\ lock = 0 /\ config # Revoked
  /\ lock' = h
  /\ digest' = [digest EXCEPT ![h] = config]
  /\ AbandonedCanceled
  /\ Goto(h, "start")
  /\ UNCHANGED <<wireVars, taskVars, refusedBy, config, phone, launched>>

\* LOCK_NB fails, or the authority is revoked: nothing is printed.
BootRefused(h) ==
  /\ pc[h] = "boot" /\ (lock # 0 \/ config = Revoked)
  /\ refusedBy' = [refusedBy EXCEPT ![h] = lock]
  /\ Exit(h)
  /\ UNCHANGED <<toClosed, fromHelper, fromClosed, signalled, row, digest, config, phone,
                 launched>>

-----------------------------------------------------------------------------
(* handle(), in the order of its awaits.                                   *)

\* read_event and validate_start; a bad first event is answered with error.
ReadStart(h) ==
  /\ pc[h] = "start" /\ toHelper[h] # <<>>
  /\ toHelper' = [toHelper EXCEPT ![h] = Tail(@)]
  /\ \/ /\ Head(toHelper[h]) = "start"
        /\ Goto(h, "discover")
        /\ watch' = [watch EXCEPT ![h] = "reading"]
        /\ disc' = [disc EXCEPT ![h] = IF Discovers THEN "running" ELSE "none"]
        /\ UNCHANGED fromHelper
     \/ Abort(h, "error") /\ UNCHANGED <<watch, disc>>
  /\ UNCHANGED <<toClosed, fromClosed, proc, signalled, deliv, appr, expired, row, digest,
                 lock, refusedBy, config, phone, launched>>

\* Five seconds, end of file or an unreadable line: no id to answer to.
NoStart(h) ==
  /\ pc[h] = "start"
  /\ Goto(h, "cleanup")
  /\ UNCHANGED <<wireVars, taskVars, row, digest, lock, refusedBy, config, phone, launched>>

\* asyncio.wait({watcher, discovery}), the early exits, then the signed
\* request: its row is pending before the phone hears of it.
LeaveDiscover(h) ==
  /\ pc[h] = "discover"
  /\ watch[h] # "reading" \/ disc[h] # "running"
  /\ \/ /\ watch[h] # "reading" \/ expired[h] \/ AtEof(h) \/ disc[h] = "failed"
        /\ Abort(h, Verdict(h))
        /\ UNCHANGED <<row, deliv>>
     \/ /\ watch[h] = "reading" /\ ~expired[h] /\ disc[h] # "failed"
        /\ \/ /\ row' = [row EXCEPT ![h] = "pending"]
              /\ deliv' = [deliv EXCEPT ![h] = "running"]
              /\ Goto(h, "deliver")
              /\ UNCHANGED fromHelper
           \/ Abort(h, "error") /\ UNCHANGED <<row, deliv>>    \* the working directory has gone
  /\ UNCHANGED <<toHelper, toClosed, fromClosed, proc, signalled, watch, disc, appr, expired,
                 digest, lock, refusedBy, config, phone, launched>>

\* asyncio.wait({watcher, delivery}); the watcher is looked at first.
LeaveDeliver(h) ==
  /\ pc[h] = "deliver"
  /\ watch[h] # "reading" \/ deliv[h] # "running"
  /\ IF watch[h] # "reading" \/ deliv[h] = "failed"
     THEN Abort(h, Verdict(h)) /\ UNCHANGED appr
     ELSE /\ appr' = [appr EXCEPT ![h] = "running"]
          /\ Goto(h, "approve")
          /\ UNCHANGED fromHelper
  /\ UNCHANGED <<toHelper, toClosed, fromClosed, proc, signalled, watch, disc, deliv, expired,
                 row, digest, lock, refusedBy, config, phone, launched>>

\* asyncio.wait({watcher, approval}); a verified signature makes the row ready.
LeaveApprove(h) ==
  /\ pc[h] = "approve"
  /\ watch[h] # "reading" \/ appr[h] # "running"
  /\ IF watch[h] # "reading" \/ appr[h] = "failed"
     THEN Abort(h, Verdict(h)) /\ UNCHANGED row
     ELSE /\ row' = [row EXCEPT ![h] = IF @ = "pending" THEN "ready" ELSE @]
          /\ Goto(h, IF fromClosed THEN "cleanup" ELSE "commit")
          /\ Say(h, "ready")
  /\ UNCHANGED <<toHelper, toClosed, fromClosed, proc, signalled, taskVars, digest, lock,
                 refusedBy, config, phone, launched>>

\* Mutant: whatever the watcher ended with counts as a commit.
AcceptAnything(h) ==
  /\ pc[h] = "commit" /\ watch[h] # "reading"
  /\ Goto(h, "consume")
  /\ UNCHANGED <<wireVars, taskVars, row, digest, lock, refusedBy, config, phone, launched>>

\* Mutant: the deadline is not looked at again before the commit is accepted.
AcceptLate(h) ==
  /\ pc[h] = "commit" /\ watch[h] # "reading"
  /\ \/ /\ watch[h] # "commit" \/ AtEof(h) \/ config # digest[h]
        /\ Abort(h, Verdict(h))
     \/ /\ watch[h] = "commit" /\ config = digest[h]
        /\ Goto(h, "consume")
        /\ UNCHANGED fromHelper
  /\ UNCHANGED <<toHelper, toClosed, fromClosed, proc, signalled, taskVars, row, digest, lock,
                 refusedBy, config, phone, launched>>

\* The event the watcher read, then deadline, disconnection and configuration.
AcceptCommit(h) ==
  /\ pc[h] = "commit" /\ watch[h] # "reading"
  /\ \/ /\ watch[h] # "commit" \/ expired[h] \/ AtEof(h) \/ config # digest[h]
        /\ Abort(h, Verdict(h))
     \/ /\ watch[h] = "commit" /\ ~expired[h] /\ config = digest[h]
        /\ Goto(h, "consume")
        /\ UNCHANGED fromHelper
  /\ UNCHANGED <<toHelper, toClosed, fromClosed, proc, signalled, taskVars, row, digest, lock,
                 refusedBy, config, phone, launched>>

\* The proof is used up before anything runs.
Consume(h) ==
  /\ pc[h] = "consume"
  /\ IF row[h] = "ready"
     THEN /\ row' = [row EXCEPT ![h] = "consumed"]
          /\ Goto(h, "launch")
          /\ UNCHANGED fromHelper
     ELSE Abort(h, "error") /\ UNCHANGED row
  /\ UNCHANGED <<toHelper, toClosed, fromClosed, proc, signalled, taskVars, digest, lock,
                 refusedBy, config, phone, launched>>

\* Mutant: a failed Popen is reported like a launch.
LaunchAssumed(h) ==
  /\ pc[h] = "launch"
  /\ \/ launched' = [launched EXCEPT ![h] = @ + 1] /\ Goto(h, "record") /\ UNCHANGED fromHelper
     \/ Abort(h, "executed") /\ UNCHANGED launched
  /\ UNCHANGED <<toHelper, toClosed, fromClosed, proc, signalled, taskVars, row, digest, lock,
                 refusedBy, config, phone>>

\* Popen, which may fail, as may opening the log before it.
Launch(h) ==
  /\ pc[h] = "launch"
  /\ \/ /\ launched' = [launched EXCEPT ![h] = @ + 1]
        /\ Goto(h, "record")
        /\ UNCHANGED fromHelper
     \/ Abort(h, "error") /\ UNCHANGED launched
  /\ UNCHANGED <<toHelper, toClosed, fromClosed, proc, signalled, taskVars, row, digest, lock,
                 refusedBy, config, phone>>

\* The signed receipt and last-execution.json.
Record(h) ==
  /\ pc[h] = "record"
  /\ \/ Goto(h, "receipt") /\ UNCHANGED fromHelper
     \/ Abort(h, "error")
  /\ UNCHANGED <<toHelper, toClosed, fromClosed, proc, signalled, taskVars, row, digest, lock,
                 refusedBy, config, phone, launched>>

\* deliver(receipt.json): executed is sent whether or not the phone got it.
ReceiptDone(h) ==
  /\ pc[h] = "receipt"
  /\ Abort(h, "executed")
  /\ UNCHANGED <<toHelper, toClosed, fromClosed, proc, signalled, taskVars, row, digest, lock,
                 refusedBy, config, phone, launched>>

\* Mutant: finally withdraws the request although it was committed.
CleanupAlwaysCancels(h) ==
  /\ pc[h] = "cleanup" /\ disc[h] # "running" /\ deliv[h] # "running"
  /\ row' = [row EXCEPT ![h] = IF @ = "none" THEN @ ELSE "canceled"]
  /\ Goto(h, "withdraw")
  /\ UNCHANGED <<wireVars, taskVars, digest, lock, refusedBy, config, phone, launched>>

\* finally: the network threads end first, then an unused request is canceled.
\* The watcher and the approval task are canceled here; nothing looks at them.
Cleanup(h) ==
  /\ pc[h] = "cleanup" /\ disc[h] # "running" /\ deliv[h] # "running"
  /\ IF row[h] \in {"pending", "ready"}
     THEN /\ row' = [row EXCEPT ![h] = "canceled"]
          /\ Goto(h, "withdraw")
          /\ UNCHANGED exitVars
     ELSE Exit(h) /\ UNCHANGED row
  /\ UNCHANGED <<toClosed, fromHelper, fromClosed, signalled, digest, refusedBy, config, phone,
                 launched>>

\* deliver(cancel.json): a failure is only logged.
WithdrawDone(h) ==
  /\ pc[h] = "withdraw"
  /\ phone' = [phone EXCEPT ![h] = IF @ = "unseen" THEN @ ELSE "withdrawn"] \/ UNCHANGED phone
  /\ Exit(h)
  /\ UNCHANGED <<toClosed, fromHelper, fromClosed, signalled, row, digest, refusedBy, config,
                 launched>>

\* asyncio.run waits for the worker threads before the lock is released.
Close(h) ==
  /\ pc[h] = "closing" /\ disc[h] # "running" /\ deliv[h] # "running"
  /\ Exit(h)
  /\ UNCHANGED <<toClosed, fromHelper, fromClosed, signalled, row, digest, refusedBy, config,
                 phone, launched>>

-----------------------------------------------------------------------------
(* The tasks.                                                              *)

WatcherReads(h) ==
  /\ watch[h] = "reading" /\ pc[h] \in {"discover", "deliver", "approve", "commit"}
  /\ toHelper[h] # <<>>
  /\ toHelper' = [toHelper EXCEPT ![h] = Tail(@)]
  /\ watch' = [watch EXCEPT ![h] = IF Head(toHelper[h]) \in {"cancel", "commit"}
                                   THEN Head(toHelper[h]) ELSE "other"]
  /\ UNCHANGED <<toClosed, fromHelper, fromClosed, proc, signalled, pc, disc, deliv, appr,
                 expired, row, digest, lock, refusedBy, config, phone, launched>>

\* End of file, or read_event's own wait_for at the deadline.
WatcherFails(h) ==
  /\ watch[h] = "reading" /\ pc[h] \in {"discover", "deliver", "approve", "commit"}
  /\ AtEof(h) \/ expired[h]
  /\ watch' = [watch EXCEPT ![h] = "failed"]
  /\ UNCHANGED <<wireVars, pc, disc, deliv, appr, expired, row, digest, lock, refusedBy,
                 config, phone, launched>>

DiscoveryEnds(h) ==
  /\ disc[h] = "running" /\ proc[h] = "running"
  /\ \E outcomeOf \in {"ok", "failed"} : disc' = [disc EXCEPT ![h] = outcomeOf]
  /\ UNCHANGED <<wireVars, pc, watch, deliv, appr, expired, row, digest, lock, refusedBy,
                 config, phone, launched>>

\* deliver(): a write the phone acknowledged, or a failure after which the
\* request may have reached the phone all the same.
DeliveryEnds(h) ==
  /\ deliv[h] = "running" /\ proc[h] = "running"
  /\ \/ phone[h] # "unseen" /\ deliv' = [deliv EXCEPT ![h] = "ok"]
     \/ deliv' = [deliv EXCEPT ![h] = "failed"]
  /\ UNCHANGED <<wireVars, pc, watch, disc, appr, expired, row, digest, lock, refusedBy,
                 config, phone, launched>>

\* response(): a signature that verifies before the deadline, or anything else.
ApprovalEnds(h) ==
  /\ appr[h] = "running" /\ pc[h] = "approve"
  /\ \/ phone[h] = "signed" /\ ~expired[h] /\ appr' = [appr EXCEPT ![h] = "ok"]
     \/ appr' = [appr EXCEPT ![h] = "failed"]
  /\ UNCHANGED <<wireVars, pc, watch, disc, deliv, expired, row, digest, lock, refusedBy,
                 config, phone, launched>>

TaskStep(h) == \/ WatcherReads(h) \/ WatcherFails(h) \/ DiscoveryEnds(h)
               \/ DeliveryEnds(h) \/ ApprovalEnds(h)

-----------------------------------------------------------------------------
(* Signals, time, the administrator and the phone.                         *)

\* Mutant: a receipt that is interrupted is not followed by executed.
InterruptUnshielded(h) ==
  /\ signalled[h] /\ signalled' = [signalled EXCEPT ![h] = FALSE]
  /\ pc[h] \in {"discover", "deliver", "approve", "commit", "receipt"} /\ Abort(h, "error")
  /\ UNCHANGED <<exitVars, toClosed, fromClosed, row, digest, refusedBy, config, phone, launched>>

\* Mutant: there is an await between the row's use and Popen.
InterruptInLaunch(h) ==
  /\ signalled[h] /\ signalled' = [signalled EXCEPT ![h] = FALSE]
  /\ pc[h] \in {"discover", "deliver", "approve", "commit", "launch"} /\ Abort(h, "error")
  /\ UNCHANGED <<exitVars, toClosed, fromClosed, row, digest, refusedBy, config, phone, launched>>

\* SIGTERM cancels the handle task: at an await it raises CancelledError, and
\* inside the finally clause it skips what is left of it.
Interrupt(h) ==
  /\ signalled[h]
  /\ signalled' = [signalled EXCEPT ![h] = FALSE]
  /\ \/ /\ pc[h] = "start" /\ Goto(h, "cleanup")
        /\ UNCHANGED <<fromHelper, exitVars>>
     \/ /\ pc[h] \in {"discover", "deliver", "approve", "commit"}
        /\ Abort(h, "error")
        /\ UNCHANGED exitVars
     \/ /\ pc[h] = "receipt" /\ Abort(h, "executed")
        /\ UNCHANGED exitVars
     \/ /\ pc[h] \in {"cleanup", "withdraw"} /\ Goto(h, "closing")
        /\ UNCHANGED <<fromHelper, exitVars>>
     \/ /\ pc[h] = "boot" /\ Exit(h)
        /\ UNCHANGED fromHelper
  /\ UNCHANGED <<toClosed, fromClosed, row, digest, refusedBy, config, phone, launched>>

\* alarm(180), SIGKILL or a crash: nothing of the finally clause runs.
Die(h) ==
  /\ proc[h] = "running"
  /\ Exit(h)
  /\ UNCHANGED <<toClosed, fromHelper, fromClosed, signalled, row, digest, refusedBy, config,
                 phone, launched>>

Expire(h) ==
  /\ ~expired[h] /\ pc[h] \in {"discover", "deliver", "approve", "commit"}
  /\ expired' = [expired EXCEPT ![h] = TRUE]
  /\ UNCHANGED <<wireVars, pc, watch, disc, deliv, appr, row, digest, lock, refusedBy, config,
                 phone, launched>>

\* configure-authority.py: revoke, or install a configuration; the previous one
\* may come back unchanged.
Configure ==
  /\ config' \in (Configs \cup {Revoked}) \ {config}
  /\ UNCHANGED <<wireVars, pc, taskVars, row, digest, lock, refusedBy, phone, launched>>

\* rootauth.py --check, which the configurator runs last: the same lock and the
\* same Authority(), and no request.
CheckAuthority ==
  /\ lock = 0 /\ config # Revoked
  /\ AbandonedCanceled
  /\ UNCHANGED <<wireVars, pc, taskVars, digest, lock, refusedBy, config, phone, launched>>

\* The request reaches the phone, possibly after the helper gave up or died, and
\* the user approves it there.
PhoneStep(h) ==
  /\ \/ row[h] # "none" /\ phone[h] = "unseen" /\ phone' = [phone EXCEPT ![h] = "asked"]
     \/ phone[h] = "asked" /\ phone' = [phone EXCEPT ![h] = "signed"]
  /\ UNCHANGED <<wireVars, pc, taskVars, row, digest, lock, refusedBy, config, launched>>

HandleStep(h) ==
  \/ Exec(h) \/ Boot(h) \/ BootRefused(h) \/ ReadStart(h) \/ NoStart(h) \/ LeaveDiscover(h)
  \/ LeaveDeliver(h) \/ LeaveApprove(h) \/ AcceptCommit(h) \/ Consume(h) \/ Launch(h)
  \/ Record(h) \/ ReceiptDone(h) \/ Cleanup(h) \/ WithdrawDone(h)
  \/ Close(h)

HelperNext ==
  \/ \E h \in Attempts : \/ HandleStep(h) \/ TaskStep(h) \/ Interrupt(h) \/ Die(h)
                         \/ Expire(h) \/ PhoneStep(h)
  \/ Configure \/ CheckAuthority
=============================================================================
