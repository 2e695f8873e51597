----------------------------- MODULE AnyDesktop -----------------------------
(***************************************************************************)
(* The helpers alone, started by desktops that may write any line, close   *)
(* any pipe, vanish or send SIGTERM at any time.  Nobody reads what the    *)
(* helpers print, so fromHelper[h] is everything helper h ever said.       *)
(***************************************************************************)
EXTENDS Authority

CONSTANTS
  MaxUnread,      \* lines a desktop leaves unread in one helper's stdin
  DesktopEvents,  \* the lines a desktop may write
  Impatient       \* the helpers that may get a SIGTERM or lose their desktop

ASSUME EnvironmentAssumption ==
  MaxUnread \in Nat /\ DesktopEvents \subseteq Events /\ Impatient \subseteq Attempts

vars == <<wireVars, authorityVars>>

Fork(h) ==
  /\ proc[h] = "none" /\ proc' = [proc EXCEPT ![h] = "forked"]
  /\ UNCHANGED <<authorityVars, toHelper, toClosed, fromHelper, fromClosed, signalled>>

DesktopWrites(h) ==
  /\ pc[h] = "start" \/ watch[h] = "reading"     \* nothing else is ever read
  /\ ~toClosed[h] /\ Len(toHelper[h]) < MaxUnread
  /\ \E e \in DesktopEvents : toHelper' = [toHelper EXCEPT ![h] = Append(@, e)]
  /\ UNCHANGED <<authorityVars, toClosed, fromHelper, fromClosed, proc, signalled>>

DesktopCloses(h) ==
  /\ proc[h] = "running" /\ ~toClosed[h] /\ toClosed' = [toClosed EXCEPT ![h] = TRUE]
  /\ UNCHANGED <<authorityVars, toHelper, fromHelper, fromClosed, proc, signalled>>

DesktopVanishes ==
  /\ Impatient # {} /\ ~fromClosed /\ fromClosed' = TRUE
  /\ toClosed' = [h \in Attempts |-> TRUE]
  /\ UNCHANGED <<authorityVars, toHelper, fromHelper, proc, signalled>>

Terminate(h) ==
  /\ h \in Impatient /\ proc[h] = "running" /\ ~signalled[h]
  /\ signalled' = [signalled EXCEPT ![h] = TRUE]
  /\ UNCHANGED <<authorityVars, toHelper, toClosed, fromHelper, fromClosed, proc>>

Init == AuthorityInit /\ WireInit
Next == \/ HelperNext
        \/ DesktopVanishes
        \/ \E h \in Attempts : Fork(h) \/ DesktopWrites(h) \/ DesktopCloses(h) \/ Terminate(h)

\* The coroutine and its threads are scheduled, and the alarm rings.
Fairness ==
  \A h \in Attempts : WF_vars(HandleStep(h)) /\ WF_vars(TaskStep(h)) /\ WF_vars(Die(h))

Spec == Init /\ [][Next]_vars /\ Fairness

-----------------------------------------------------------------------------
Said(h, r) == \E i \in DOMAIN fromHelper[h] : fromHelper[h][i] = r

(* A command runs at most once per request, and only after the user signed *)
(* that request, the desktop committed to it in time and its row was used  *)
(* up.  From the last look at the deadline to Popen it does not pass: that *)
(* stretch of handle() has no await.                                       *)
LaunchAuthorized ==
  \A h \in Attempts :
    /\ launched[h] <= 1
    /\ launched[h] = 1 => row[h] = "consumed" /\ phone[h] = "signed"
    /\ pc[h] \in {"consume", "launch"} => watch[h] = "commit" /\ appr[h] = "ok" /\ ~expired[h]
    /\ pc[h] \notin {"record", "receipt", "cleanup", "closing", "done"} => launched[h] = 0

(* Restart recovery: a helper that is past its boot is the only one, and   *)
(* no other request is still pending or ready, however its helper ended.   *)
NoAbandonedRequest ==
  \A h \in Attempts :
    pc[h] \notin {"off", "boot", "done"} =>
      /\ lock = h
      /\ \A g \in Attempts \ {h} :
           pc[g] \in {"off", "boot", "done"} /\ row[g] \notin {"pending", "ready"}

(* One terminal line per request, and it is the last: executed means the   *)
(* command was started, canceled that it never will be, and error that it  *)
(* was not started unless the approval had been used up.                   *)
RepliesHonest ==
  \A h \in Attempts :
    /\ \A i, j \in DOMAIN fromHelper[h] :
         fromHelper[h][i] \in Terminal /\ i < j => FALSE
    /\ Said(h, "executed") => launched[h] = 1
    /\ Said(h, "canceled") => row[h] # "consumed"
    /\ Said(h, "error") /\ launched[h] = 1 => row[h] = "consumed"

(* A used-up approval is not given up: unless opening the log, Popen or the *)
(* record fails, handle() ends with executed, whatever became of the       *)
(* receipt, and no SIGTERM makes it end otherwise (no await from the row's *)
(* use to the record; the finally clause around the receipt).              *)
StartReported ==
  [][\A h \in Attempts :
       row[h] = "consumed" /\ pc[h] # "cleanup" /\ pc'[h] = "cleanup" =>
         \/ launched[h] = 1 /\ (fromClosed \/ Said(h, "executed")')
         \/ pc[h] \in {"launch", "record"} /\ signalled'[h] = signalled[h]]_vars

(* consumed and canceled are final, whatever restarts, and a request is    *)
(* used up only by the helper that holds the lock and only from ready.     *)
RowsSettle ==
  [][\A h \in Attempts :
       row'[h] # row[h] =>
         /\ row[h] \notin {"consumed", "canceled"}
         /\ row'[h] = "consumed" => row[h] = "ready" /\ lock = h]_vars
=============================================================================
