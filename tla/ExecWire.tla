------------------------------ MODULE ExecWire ------------------------------
(***************************************************************************)
(* The wire between kdesu and the protected helpers it starts: for every   *)
(* attempt one setuid process (authorize.c, which becomes rootauth.py) and *)
(* the two pipes of its newline-framed JSON protocol.  A line is           *)
(* abstracted to its "event"; "other" is a line with the wrong shape,      *)
(* protocol, request id or an event nobody expects.                        *)
(***************************************************************************)
EXTENDS Naturals, Sequences

CONSTANT MaxAttempts   \* how many helpers one dialog may start (Retry)

ASSUME AttemptsAssumption == MaxAttempts \in Nat \ {0}

Attempts == 1..MaxAttempts

Events  == {"start", "commit", "cancel", "other"}
Replies == {"ready", "canceled", "executed", "error", "other"}
Terminal == {"canceled", "executed", "error"}   \* the replies that end a request

VARIABLES
  toHelper,    \* lines written to the helper's stdin and not yet read
  toClosed,    \* kdesu has closed its end of the helper's stdin
  fromHelper,  \* lines written to the helper's stdout and not yet read
  fromClosed,  \* kdesu has gone: nothing reads the helper's stdout
  proc,        \* the helper process: none, forked, running, failed, exited
  signalled    \* a SIGTERM is on its way to the helper

wireVars == <<toHelper, toClosed, fromHelper, fromClosed, proc, signalled>>

ProcStates == {"none", "forked", "running", "failed", "exited"}

WireTypeOK ==
  /\ toHelper \in [Attempts -> Seq(Events)]
  /\ toClosed \in [Attempts -> BOOLEAN]
  /\ fromHelper \in [Attempts -> Seq(Replies)]
  /\ fromClosed \in BOOLEAN
  /\ proc \in [Attempts -> ProcStates]
  /\ signalled \in [Attempts -> BOOLEAN]

WireInit ==
  /\ toHelper = [h \in Attempts |-> <<>>]
  /\ toClosed = [h \in Attempts |-> FALSE]
  /\ fromHelper = [h \in Attempts |-> <<>>]
  /\ fromClosed = FALSE
  /\ proc = [h \in Attempts |-> "none"]
  /\ signalled = [h \in Attempts |-> FALSE]
=============================================================================
