------------------------------ MODULE KdeShare ------------------------------
(***************************************************************************)
(* kdeconnect_transport.py: one KdeConnectPhone, the worker process it     *)
(* starts as the desktop user, the two pipes between them, and the KDE     *)
(* Connect daemon that the worker hands files to.  Several threads of the  *)
(* client may call it: the authority leaves a read behind when it          *)
(* withdraws a request.                                                    *)
(***************************************************************************)
EXTENDS Naturals, SequencesExt

CONSTANTS
  Threads,      \* threads of the client
  QueueMax,     \* the receive queue, deque(maxlen=8) in the worker
  MaxCalls,     \* bound: calls of one transport
  MaxHeard      \* bound: files that look like an answer to the request

ASSUME ShareAssumption ==
  Threads \subseteq Nat \ {0} /\ QueueMax \in Nat \ {0} /\ MaxCalls \in Nat /\ MaxHeard \in Nat

VARIABLES
  client,   \* self._process as the client knows it, or the client is dead
  lock,     \* the thread in self._lock
  call,     \* the call that thread makes: its operation and its number
  calls,    \* how many calls were made
  asked,    \* self.request_id is set
  got,      \* answers that read() returned
  accepted, \* messages whose write() returned
  stdin,    \* commands in the worker's stdin
  replies,  \* replies in the worker's stdout
  worker,   \* where the worker is
  command,  \* the command the worker is carrying out
  queue,    \* the worker's receive queue
  heard,    \* answers KDE Connect announced to the worker
  spooled,  \* this request's files in the spool directory
  shared    \* what the worker handed to KDE Connect, in order

clientVars == <<client, lock, call, calls, asked, got, accepted>>
workerVars == <<worker, command, queue, heard, spooled, shared>>
shareVars == <<clientVars, stdin, replies, workerVars>>

NoThread == 0
Mails == {"request", "receipt", "cancel"}
Operations == Mails \cup {"hello", "check", "read"}
NoCall == [op |-> "none", id |-> 0]
Calls == [op : Operations, id : 1..MaxCalls]

\* An answer is known by its place among those that were announced.
NoAnswer == 0
ReplyTo(c, ok, value) == [id |-> c.id, ok |-> ok, value |-> value]
Replies == [id : 1..MaxCalls, ok : BOOLEAN, value : Nat]

ShareTypeOK ==
  /\ client \in {"new", "opening", "open", "closing", "closed", "dead"}
  /\ lock \in Threads \cup {NoThread}
  /\ call \in Calls \cup {NoCall}
  /\ calls \in 0..MaxCalls
  /\ asked \in BOOLEAN
  /\ got \in Seq(Nat)
  /\ accepted \subseteq Mails
  /\ stdin \in Seq(Calls)
  /\ replies \in Seq(Replies)
  /\ worker \in {"none", "booting", "idle", "spooling", "sharing", "calling", "exited"}
  /\ command \in Calls \cup {NoCall}
  /\ queue \in Seq(Nat)
  /\ heard \in 0..MaxHeard
  /\ spooled \subseteq Mails
  /\ shared \in Seq(Mails)

ShareInit ==
  /\ client = "new" /\ lock = NoThread /\ call = NoCall /\ calls = 0 /\ asked = FALSE
  /\ got = <<>> /\ accepted = {} /\ stdin = <<>> /\ replies = <<>>
  /\ worker = "none" /\ command = NoCall /\ queue = <<>> /\ heard = 0
  /\ spooled = {} /\ shared = <<>>

-----------------------------------------------------------------------------
(* The client: a call takes the lock, writes its command and waits.        *)

Begins(t, op) ==
  /\ lock = NoThread /\ lock' = t
  /\ calls < MaxCalls /\ calls' = calls + 1
  /\ call' = [op |-> op, id |-> calls + 1]

\* __init__ starts the worker and waits for its hello like for a reply.
Open(t) ==
  /\ client = "new" /\ client' = "opening"
  /\ worker' = "booting"
  /\ Begins(t, "hello")
  /\ UNCHANGED <<asked, got, accepted, stdin, replies, command, queue, heard, spooled, shared>>

\* write() keeps one request per transport, and its terminal messages need it;
\* read() of a transport without a request returns None without a call.
Permitted(op) ==
  IF op = "request" THEN ~asked ELSE op = "check" \/ asked

\* _rpc: the command is written, or the full pipe takes only part of the line.
Sends(t, op) ==
  /\ client = "open" /\ Permitted(op)
  /\ Begins(t, op)
  /\ asked' = (asked \/ op = "request")
  /\ stdin' = Append(stdin, call') \/ UNCHANGED stdin
  /\ UNCHANGED <<client, got, accepted, replies, workerVars>>

\* _receive: the first line in the pipe is taken for the reply.
Receive(t) ==
  /\ lock = t /\ client \in {"opening", "open"} /\ replies # <<>>
  /\ replies' = Tail(replies)
  /\ IF Head(replies).ok
     THEN /\ client' = "open" /\ lock' = NoThread /\ call' = NoCall
          /\ got' = IF Head(replies).value = NoAnswer THEN got
                    ELSE Append(got, Head(replies).value)
          /\ accepted' = accepted \cup ({call.op} \cap Mails)
     ELSE client' = "closing" /\ UNCHANGED <<lock, call, got, accepted>>
  /\ UNCHANGED <<calls, asked, stdin, workerVars>>

\* Mutant: a call that timed out leaves the transport open.
GiveUpOpen(t) ==
  /\ lock = t /\ client = "open"
  /\ lock' = NoThread /\ call' = NoCall
  /\ UNCHANGED <<client, calls, asked, got, accepted, stdin, replies, workerVars>>

\* Ten seconds, a broken pipe or end of file: the transport is closed, so that
\* the reply cannot be taken for that of the next call.
GiveUp(t) ==
  /\ lock = t /\ client \in {"opening", "open"}
  /\ client' = "closing"
  /\ UNCHANGED <<lock, call, calls, asked, got, accepted, stdin, replies, workerVars>>

\* close() called by the owner of the transport.
Close(t) ==
  /\ client = "open" /\ lock = NoThread
  /\ client' = "closing" /\ lock' = t
  /\ UNCHANGED <<call, calls, asked, got, accepted, stdin, replies, workerVars>>

\* Mutant: close() does not wait for the process.
ClosedUnwaited(t) ==
  /\ lock = t /\ client = "closing"
  /\ client' = "closed" /\ lock' = NoThread /\ call' = NoCall
  /\ UNCHANGED <<calls, asked, got, accepted, stdin, replies, workerVars>>

\* close() returns once the process has been waited for.
Closed(t) ==
  /\ lock = t /\ client = "closing" /\ worker = "exited"
  /\ client' = "closed" /\ lock' = NoThread /\ call' = NoCall
  /\ UNCHANGED <<calls, asked, got, accepted, stdin, replies, workerVars>>

\* alarm(180), SIGKILL or a crash of the client.
ClientDies ==
  /\ client \notin {"new", "closed", "dead"}
  /\ client' = "dead" /\ lock' = NoThread /\ call' = NoCall
  /\ UNCHANGED <<calls, asked, got, accepted, stdin, replies, workerVars>>

-----------------------------------------------------------------------------
(* The worker: one GLib loop; a command runs to its end before the next.   *)

WorkerAt(w) == worker' = w

\* emit(): nobody reads the replies of a dead client, and the loop ends.
Emits(r) ==
  /\ command' = NoCall
  /\ IF client = "dead" THEN WorkerAt("exited") /\ UNCHANGED replies
     ELSE WorkerAt("idle") /\ replies' = Append(replies, r)

\* Subscribed to shareReceived, the phone reachable: hello.  Or there is no
\* daemon, no phone, no sharing: an error line and the end.
Boot ==
  /\ worker = "booting"
  /\ \/ Emits(ReplyTo([op |-> "hello", id |-> 1], TRUE, NoAnswer))
     \/ /\ client # "dead"
        /\ replies' = Append(replies, ReplyTo([op |-> "hello", id |-> 1], FALSE, NoAnswer))
        /\ WorkerAt("exited") /\ UNCHANGED command
  /\ UNCHANGED <<clientVars, stdin, queue, heard, spooled, shared>>

Takes(ops) ==
  /\ worker = "idle" /\ stdin # <<>> /\ Head(stdin).op \in ops
  /\ stdin' = Tail(stdin)

\* "read" pops the oldest answer.
TakeRead ==
  /\ Takes({"read"})
  /\ Emits(ReplyTo(Head(stdin), TRUE, IF queue = <<>> THEN NoAnswer ELSE Head(queue)))
  /\ queue' = IF queue = <<>> THEN queue ELSE Tail(queue)
  /\ UNCHANGED <<clientVars, heard, spooled, shared>>

\* "check" asks the daemon, "send" first writes the spool file.
TakeOther ==
  /\ Takes(Mails \cup {"check"})
  /\ command' = Head(stdin)
  /\ WorkerAt(IF Head(stdin).op = "check" THEN "calling" ELSE "spooling")
  /\ UNCHANGED <<clientVars, replies, queue, heard, spooled, shared>>

\* _spool_file: a new file (O_EXCL), or the spool is full or unsafe.
Spool ==
  /\ worker = "spooling"
  /\ \/ /\ command.op \notin spooled
        /\ spooled' = spooled \cup {command.op} /\ WorkerAt("sharing")
        /\ UNCHANGED <<replies, command>>
     \/ Emits(ReplyTo(command, FALSE, NoAnswer)) /\ UNCHANGED spooled
  /\ UNCHANGED <<clientVars, stdin, queue, heard, shared>>

\* shareUrl goes out on the bus.
Share ==
  /\ worker = "sharing"
  /\ shared' = Append(shared, command.op) /\ WorkerAt("calling")
  /\ UNCHANGED <<clientVars, stdin, replies, command, queue, heard, spooled>>

\* The daemon's answer, or none within five seconds.
DaemonReturns ==
  /\ worker = "calling"
  /\ \E ok \in BOOLEAN : Emits(ReplyTo(command, ok, NoAnswer))
  /\ UNCHANGED <<clientVars, stdin, queue, heard, spooled, shared>>

\* Mutant: a full queue refuses what is new.
HearsIfRoom ==
  /\ worker = "idle" /\ shared # <<>> /\ heard < MaxHeard
  /\ heard' = heard + 1
  /\ queue' = IF Len(queue) < QueueMax - 1 THEN Append(queue, heard + 1) ELSE queue
  /\ UNCHANGED <<clientVars, stdin, replies, worker, command, spooled, shared>>

\* shareReceived with a readable file of this request's name and id: the phone's
\* answer, a copy of it, or another file that says so.  The queue keeps the last
\* QueueMax of them; every other file is dropped by _read_shared_file.
Hears ==
  /\ worker = "idle" /\ shared # <<>> /\ heard < MaxHeard
  /\ heard' = heard + 1
  /\ queue' = IF Len(queue) < QueueMax THEN Append(queue, heard + 1)
              ELSE Append(Tail(queue), heard + 1)
  /\ UNCHANGED <<clientVars, stdin, replies, worker, command, spooled, shared>>

\* Mutant: the loop ignores the end of its stdin.
EndOfInputIgnored == worker = "idle" /\ client = "closing" /\ WorkerAt("exited") /\ UNCHANGED
  <<clientVars, stdin, replies, command, queue, heard, spooled, shared>>

\* Its stdin has ended.
EndOfInput ==
  /\ worker = "idle" /\ stdin = <<>> /\ client \in {"closing", "dead"}
  /\ WorkerAt("exited")
  /\ UNCHANGED <<clientVars, stdin, replies, command, queue, heard, spooled, shared>>

\* terminate() and kill() of close(), or the session ends under the worker.
Killed ==
  /\ worker \notin {"none", "exited"}
  /\ WorkerAt("exited") /\ command' = NoCall
  /\ UNCHANGED <<clientVars, stdin, replies, queue, heard, spooled, shared>>

WorkerStep ==
  Boot \/ TakeRead \/ TakeOther \/ Spool \/ Share \/ DaemonReturns \/ EndOfInput

ClientStep(t) ==
  \/ Open(t) \/ Receive(t) \/ GiveUp(t) \/ Close(t) \/ Closed(t)
  \/ \E op \in Operations \ {"hello"} : Sends(t, op)

ShareNext ==
  \/ \E t \in Threads : ClientStep(t)
  \/ ClientDies \/ WorkerStep \/ Hears \/ Killed

\* The worker is scheduled and its D-Bus calls time out; an RPC has ten seconds,
\* and close() waits at most two and a half before the process is killed.
ShareFairness ==
  /\ WF_shareVars(WorkerStep)
  /\ \A t \in Threads : WF_shareVars(Receive(t) \/ GiveUp(t)) /\ WF_shareVars(Closed(t))
  /\ WF_shareVars(client = "closing" /\ Killed)

ShareSpec == ShareInit /\ [][ShareNext]_shareVars /\ ShareFairness
-----------------------------------------------------------------------------
\* "A timed-out command cannot leave its reply for the next call": the line that
\* a waiting call finds in the pipe answers that call and no earlier one, even
\* if another thread made it (_rpc, _receive).
ReplyIsOwn ==
  lock \in Threads /\ client \in {"opening", "open"} /\ replies # <<>>
    => Head(replies).id = call.id

\* What is on its way to the caller, oldest first: answers, and replies without one.
Answers == got \o [i \in DOMAIN replies |-> replies[i].value] \o queue

\* An answer that the worker heard of is lost only when QueueMax later ones have
\* pushed it out, and the caller sees them in the order they came, each once
\* (the deque of _worker, _rpc("read")).
AnswersKept ==
  client # "dead" =>
    /\ \A i, j \in DOMAIN Answers :
         i < j /\ NoAnswer \notin {Answers[i], Answers[j]} => Answers[i] < Answers[j]
    /\ \A s \in 1..heard : s + QueueMax > heard => s \in Range(Answers)

\* After close() has returned nothing more is spooled or handed to KDE Connect,
\* so a request cannot be posted behind its withdrawal (handle()'s finally).
ClosedIsQuiet == [][client = "closed" => UNCHANGED <<spooled, shared>>]_shareVars

\* No worker is left behind, not even by a client that was killed (_worker's
\* stdin_ready, close()).
WorkerGoes == client \in {"closing", "dead"} ~> worker = "exited"

\* A call returns or raises, and close() returns.
ShareCallsEnd == \A t \in Threads : lock = t ~> lock # t
=============================================================================
