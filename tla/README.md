# A verification project for Navi phone authorization

This directory holds TLA+ models of the program in this repository: a phone with
a biometric key approves a command, and a protected helper runs it as root for
KDE's `kdesu`. The models are written from the source; TLC checks them on small
instances and TLAPS proves the central facts for all instances.

## 1. The system

| Part | Source | State it keeps | Operations |
| --- | --- | --- | --- |
| kdesu dialog (`KDEsuDialog`, `startApp`) | `kdesu-gui-6.7.2-r2-navi.patch` (sudlg.cpp, kdesu.cpp), Retry in `-r3-retry.patch` | pending fallback, committed, cancelled, authenticating, fatal error, result | show, Authorize, Run as me, Cancel/Close, Retry, password check, slots of the client's signals |
| `PhoneAuthClient` | same patches (phoneauthclient.cpp) | state enum, process, request id, ready/committed/cancel flags, three timers | start, commit, cancel, withdraw, finish, fail, readMessages, destructor, releaseHelper |
| setuid launcher | `authorize.c` | none; arms `alarm(180)` | check pipes and caller, become root, exec |
| protected authority | `rootauth.py` | `authority.lock`, `executions.sqlite3`, configuration digest, four asyncio tasks | `Authority.__init__`, `handle`, `deliver`, `response`, `run_stdio`, `--check` |
| configurator | `configure-authority.py` | `config.json`, key files | install, revoke |
| CLI | `host.py` | `session.lock`, `machine-key.pem`, `machine-cert.pem`, `approvals.sqlite3`, `last-verification.json` | init, status, enroll, authenticate, revoke |
| LAN transport | `host.py` `NetworkPhone`, `kdeconnect_endpoint` | one TLS connection per call, watchdog, address, whether it was refreshed | check, write, read; one reconnect per request |
| KDE Connect transport | `kdeconnect_transport.py` | client lock, worker process, two pipes, receive queue of 8, spool | check, write, read, close |
| phone mailbox and LAN service | `Bridge.java`, `NetworkService.java` | request/response/receipt/cancel slots, withdrawn ids | validate, sign, decline, cancel, receipt, reset |
| phone UI and keys | `MainActivity.java`, `RequestReceiver.java`, `SigningKey.java`, `NetworkIdentity.java`, `Challenge.java` | the request on screen, biometric key | poll, prompt, complete, cancel, reset key |
| phone inbox and documents provider | `KdeConnectInbox.java`, `AuthDocumentsProvider.java` | received files | receive, create, open, consume |

How they interact. One dialog owns one client. The client starts one helper per
attempt and talks to it over two pipes with newline-framed JSON: `start`,
`commit`, `cancel` one way, `ready`, `canceled`, `executed`, `error` the other. End
of file is a message too. All helpers of a machine share one lock file, taken
without waiting, one database and one configuration. A helper reaches the phone
through one of two transports and only posts and polls files there: request,
response, receipt, cancel.

What is hard here:

- **Two parties may run the command.** The phone branch and the password/Run-as-me
  branch race, and `ready`, clicks, timers, lost lines and process exit come in
  any order. One owner has to be chosen before `commit` is written, and for good.
- **Signals do not cross.** The GUI may not kill a helper that became root: it can
  only close the pipe and wait, so a pending fallback depends on the helper.
- **Helpers overlap.** A released helper cleans up for up to half a minute beside
  the attempt that Retry started.
- **Four tasks, one coroutine.** In `handle()` the watcher, discovery, delivery and
  approval end in any order; SIGTERM cancels the coroutine at any await, also in
  its `finally` clause; `alarm(180)` ends it without one.
- **Restart.** A dead helper leaves rows `pending` or `ready`; the next one cancels
  them, and must not touch a live or a settled row.
- **Three kinds of threads on the phone.** The listener's clients and the inbox's
  workers fill the slots under one lock; the main thread polls and answers, partly
  without it; a reset deletes the files on a worker without it.
- **Deadlines inside deadlines.** A LAN call has fifteen seconds for TCP, handshake,
  a discovery refresh and a second connection; the watchdog that cuts it runs in a
  thread of its own beside the socket it cuts.
- **A worker behind two pipes.** Threads that were left behind, time-outs and kills
  must not mix up replies, lose answers or leave the worker running.
- **Files replaced one by one.** The machine's identity and the protected authority's
  three files are each renamed into place alone; any run may be killed in between.
- **One slot for every computer.** A request, its withdrawal and its receipt travel
  apart and may be lost or overtake one another; the slot may only change hands when
  the old request is finished.

## 2. Modules

| Module | What it is |
| --- | --- |
| `ExecWire` | the pipes and the processes between the two halves: shared variables, their types and initial values |
| `Desktop` | `KDEsuDialog` + `PhoneAuthClient` + Retry; one action per event handler |
| `AnyHelper` | `Desktop` against a helper that may say anything and die at any time; the desktop's own guarantees |
| `Authority` | `authorize.c` + `rootauth.py`, one helper per attempt; the configurator's two writes and its check |
| `AnyDesktop` | `Authority` against desktops that may write anything, close, vanish or send SIGTERM; the helpers' own guarantees |
| `ExecOwner` | the abstract promise: one execution owner |
| `KdesuExec` | `Desktop` and `Authority` composed; implements `ExecOwner` |
| `HelperProofs`, `DesktopProofs` | lemmas about the steps of the helpers and of the dialog, whatever is on the other side |
| `AuthorityProofs`, `AnyHelperProofs`, `ExecProofs` | the theorems about `AnyDesktop`, `AnyHelper` and `KdesuExec` |
| `PhonePromise` | the abstract promise: a request is put to the user, then answered once |
| `Mailbox` | `Bridge.java` and `Challenge.java`: the slots, keys, pairings and what `validate` decides |
| `MailService` | what brings mail in: `NetworkService`, `KdeConnectInbox`, `RequestReceiver`, the ADB push |
| `PhoneApp` | `MainActivity`: polling, notification taps, the fingerprint, reset, the network switch |
| `Phone` | the phone and the computers that know it; implements `PhonePromise` |
| `MCPhone` | instances: which computer makes which request |
| `Courier` | the abstract promise of a transport: in order, once, and truly reported |
| `LanSession` | `NetworkPhone` and `kdeconnect_endpoint`: connections, deadlines, the refresh, one RPC |
| `KdeShare` | `kdeconnect_transport.py`: client, worker, pipes, spool, queue |
| `PhoneRoute` | the transport of one request, either of the two; implements `Courier` |
| `HostCli` | `host.py` as a command: sessions over one state directory |
| `Configurator` | `HostCli` and `configure-authority.py` beside it |
| `PhoneProofs`, `RouteProofs`, `EnrollmentProofs` | the theorems about `Phone`, `PhoneRoute` and `Configurator` |

The parts meet through promises. `HostCli` and `Authority` do not contain a transport:
their deliveries succeed, fail, or fail although the message was accepted, and that is
what `PhoneRoute` is shown to give (`Courier`: what is reported was posted, once, behind its
request). `Phone` takes messages as `Courier` hands them out, or through the ADB push,
with files overtaking one another on KDE Connect's side.

### Desktop

Everything here runs on the GUI thread, so a handler with every signal it emits
is one action: `ReadReady` contains the dialog's `ready` slot and the
`commit()` or `cancel()` it calls; `Fail` contains `finish()`, `releaseHelper()` and
the slot of whichever signal it emits, and that slot the `accept()` or
`runAsUser()` of a pending fallback. The variables carry the names of the
members (`m_committed` is `committed`); `m_phoneFallback` is `fallback`, the result of
`dlg.exec()` is `outcome`. `process` is `m_process` with QProcess's Starting and Running.
The three timers are the actions `OnTimeout` (start and lifetime timer, whose effect
is the same) and `OnShutdownGrace`; `OnReleasedGrace` is the timer `releaseHelper` arms.
A timer may fire at any time while it is armed.

Lines are their `event`; a line of another shape, protocol, request id, or with a
bad pid is `other`. `ReadUnexpected` drops any number of lines that arrived with
the bad one, because `fail()` clears `m_input`. Writes to a live helper do not fail: a
pipe takes the three short lines; a helper that died is seen by `OnWriteError` or
`OnProcessEnded`. Dialog layout, focus, keep-password and the notification context are
left out. The password itself is the three-way outcome of `CheckPassword`, which runs from
the event queue, possibly after the dialog was closed, and looks at `cancelled` as the code does.

`AnyHelper` remembers in `rang` whether the desktop's last step was a timer, because a timer is
the one event that may give up a helper whose answer is already in the pipe.

### Authority

`pc[h]` names the await at which `handle()` of helper `h` is suspended, or one of
the synchronous stretches (`consume`, `launch`, `record`) that only a crash, another
process or the administrator can fall between. The four tasks have a
variable each. `Boot` is the lock, the configuration and the recovery UPDATE, which
no other helper can see half done; `BootRefused` is LOCK_NB failing or a revoked
configuration. `Abort` is the `except` clause, `Cleanup` and `WithdrawDone` the
`finally` clause, `Close` the end of `asyncio.run` after a second cancellation. `Exit`
frees the lock and resets what is local to the process, `Die` is alarm(180), SIGKILL or
a crash. Cryptography is what it decides: `ApprovalEnds` is `ok` only if the phone has
signed this request and the deadline has not passed. The phone is an environment here
(`PhoneStep`): a request may reach it after the delivery was given up, and an approval may
come at any time or never. Conditions that read the outside (a deleted working
directory, a full disk, a failing Popen) are free choices.

### What a configuration is

`config` is what CONFIG holds: one of `Configs`, or `Revoked`. The administrator may
change it at any time, and may bring an earlier one back unchanged, which has
the same digest.

### The phone

A slot (`request.json` and so on) holds the id of the request it is about, because
every body is bound to its request by a signed hash; `response` also has its status.
"replaced" is the decline with the message of `pollComputer`. A certificate stands for
the generation of the phone key it certifies: `key` is what the keystore holds, `svcKey`
and `appKey` what the listener and the activity prepared, `paired` what `pairings.json`
names, `bound` what the request was made for. Two certificates of the same key are not
told apart.

`job` is the thread that holds `Bridge.MAILBOX`. Taking a message in is its checks
(`LanTakes`, `ShareTakes`), then one step for each file it writes, in the code's order:
`JobWritesBack` writes the copy of `pairings.json` that `receipt()` has read (`job.back`),
`JobRemembers` writes `kde-cancellations.json`, `JobWrites` the slot; `JobChecks` and `JobPosts` are the two
halves of `refreshNotification`. Everything that takes no lock, a reset for one, and a kill may
come between any two of them. One thing is joined: when a KDE Connect request is stored, the pruned
withdrawals are written back together with the slot (`KdeConnectInbox.java:115-116`); only
withdrawals of expired requests can be missing between the two.

`AdbPushes` is the move of the file. Its broadcast is a message of its own (`ready`, `canceled`),
which `Received` takes on a thread that holds no lock, and `posting` is that thread between its
checks and the notification.

Messages are a set, `mail`. Nothing makes the phone take one, so any may overtake another, be late,
or be lost for good; one that a check, the inbox's limit or the 64 remembered withdrawals refuse
simply stays. Those of `Repeats` stay although they were taken in, so they are received again and again. The phone
remembers no request it answered: one that has lost the slot comes back
and may be answered again (`told` is then `"again"`), while one in the slot is left alone
(`MayEnter`). The computers send nothing twice (`NetworkPhone` repeats only a connection, before
anything was sent), so it is KDE Connect's files that `phone_routes` repeats.

Main-thread handlers are single actions that wait for `Idle`, because nothing runs
inside a poll; the poll is `PollRead`, `PollLook` and `PollRest`, because it reads files
that change meanwhile. `attempt` is `active` and how far it is; its request is always
`pending`. `opened` is `openedRequestId`, `seen` is `seenEnvelope`, `tapped` an intent
that the system has not delivered. `intents` are the requests whose notification has opened the
activity: `onCreate` reads its intent again, which is the first it was started with, or the last that was
tapped, or none (`Created`). `WipeStep` deletes one thing at a time in the code's
order. `Fingerprint` writes the pairing of an enrolment and then the response in one step: the main thread does
both under the lock, so what lies between them is seen by a kill only, and `Kill`
has that case. The network identity's own prompt is part of `TurnOn`.

Two things are left out. `Recreate` waits for a running reset: a new activity would have `busy` false
and could prepare a key while the old worker still deletes files, which needs two activities in
the model. And the poll's own `receipt()` writes `pairings.json` back without the lock, on the
main thread: neither `signed()` nor a reset, which both need that thread to begin, comes between its read
and its write, and a `receipt()` on a service's thread writes the same.

The computers are as `host.py` `approve` is: a receipt after a verified answer, a withdrawal
when they give up. A computer may have several requests out at once, because
`session.lock` and `authority.lock` do not exclude each other and a killed session leaves one behind.

### The transports

In `LanSession` a call is `Begin`, then `Tcp`, `Hello`, `Rpc`, with `Find` between two
connections; `Fails` is `_connect`'s `except OSError` and `Raises` every error that is not
retried. `clock` counts the call's time in units of five seconds: TCP one, the watchdog
two, the call three; each step takes any number of units that its own limit allows. A
call that ended has `clock` 0. `NoWatch` is a watchdog that fired while `sockets[0]` still was the socket
that `wrap_socket` had emptied, which only one that is armed with no time left can do;
from then on a wait of the socket is taken to last one socket time-out, although the code
allows one per read. The phone's address (`home`) changes at will; at any other address
may be anyone, who is refused, breaks the connection or is silent. `late` holds messages
the phone has received on a connection that is gone and has not looked at.

In `KdeShare` the client's threads and the worker are separate: `Sends` puts a whole line
into the pipe or, when the pipe is full, none; `Receive` takes the first line that is there,
as `_receive` does. `GiveUp` is any exception of `_rpc`, a time-out among them, which leads
to `close()`; `Closed` is its end, when the process has been waited for. The worker is one GLib loop, so nothing
happens inside a command but the command's own steps: the spool file, the D-Bus message,
the daemon's answer. An answer of the phone is known by its place in the order in which
KDE Connect announced it; two files with the same text are two answers.

### The command line and the configurator

Each `HostCli` session is a process; sessions are numbered as they come and make one
request at most. `step` is the place in `main()` and `approve()`; what one
sqlite transaction does is one step. A key is known by the number under which init generated
it; the certificate, an approved certificate and the configuration name it. `lost`
records that the user deleted a file, which happens only while no session runs.
`Interrupt` is SIGTERM's KeyboardInterrupt: inside the `try` of `approve()` it leads to `finally`,
inside `finally` and before the `try` straight out. `status` does what every command does at
its start and prints; it has no action of its own.

`Configurator` adds one administrator. Reading certificate and key is one step, because
each is compared with the reviewed key, which a lost identity never gets back.
`Stop` is any refusal, signal or kill; `--check` changes no file, whatever it finds.

## 3. Runs

| Run | Instance | Distinct states | What it shows |
| --- | --- | --- | --- |
| `desktop_any_helper` | 2 attempts, 2 unread replies | 79 thousand | commit excludes the alternatives, one verdict per helper, withdrawal precedes an alternative, the last line is read before the exit, a pending fallback is released |
| `helpers_any_desktop` | 2 helpers, discovery, signals, all events, 1 configuration | 1.7 million | launches are authorized and in time, replies are honest, a used-up approval is reported, exclusion, restart recovery, settled rows stay settled |
| `exec_liveness` | 1 attempt, discovery, 1 configuration | 120 thousand | success is true, a commit is answered, a fallback is carried out, helpers end |
| `exec_retry` | 2 attempts, 1 configuration, no discovery | 4.3 million | the composition implements `ExecOwner`; released attempts are harmless |
| `retry_served` | as `exec_retry` | stops at the violation | Retry can be refused at the lock (section 6) |
| `phone_routes` | 2 computers, one request over the LAN and one by files that are received again and again, 1 kill | 1.3 million | answered once for every arrival; the slot, the withdrawals and the screen agree |
| `phone_reset` | 1 computer, one request over the LAN and one enrolment over ADB with its notification tapped, 1 reset | 3.1 million | signed with the right key only, pairings not lost |
| `phone_reset_race` | 1 computer, 2 requests, 1 reset | stops at the violation | a receipt brings deleted pairings back (section 6) |
| `phone_reopened` | 1 computer, 2 requests | stops at the violation | a request stays hidden after an outdated tap (section 6) |
| `phone_route` | 2 addresses; 2 threads, 6 calls, queue of 2, 4 answers | 150 thousand | both transports implement `Courier`; deadlines, replies, answers; calls and worker end |
| `lan_time_bound` | the LAN half | stops at the violation | a missed watchdog breaks the time bound (section 6) |
| `enrollment` | 3 sessions, 1 phone key, 2 machine keys, the administrator | 0.8 million | one usable challenge, honest messages, identity and authority consistent, only enrolled keys |

The bounds. Two attempts are enough for everything that relates an attempt to
its successor: helpers interact only through the lock, the rows and the
configuration, and no variable relates three of them; the theorems of section 5
hold for any number. Two unread replies let a bad line destroy a good one behind
it. One unread event (`MaxUnread`) is enough in `AnyDesktop` because the helper never
looks at the second line before it has acted on the first, and desktops write
only while something reads. One configuration, revoked and brought back, is what a
helper can tell apart from its own: another one is refused like a revoked one. In
`exec_retry` discovery is switched off: it adds one more task of the same shape, which
the other two runs cover. Deadlock is not
checked: a dialog that was closed and helpers that ended are the intended end.

For the phone, two requests are what its hazards are about: one in the slot, the
other arriving, being withdrawn or tapped; both slots that outlive a request
(`cancel`, `response`) can then belong to the other one. One reset gives two
keys; one kill falls into any step. The bounds are `Taps` (whose notification is tapped), `Repeats`
(what is received again), `Resets` and `Kills`. A run with a reset and a kill together is too
large: `phone_reset` has no kill and `phone_routes` no reset, and the theorems of section 5 cover both at
once. The 64 remembered withdrawals and 192 inbox
files are not counted out; a message that is refused at a limit is never taken.

For the transports: a session makes at most one call of each message, and its state does
not grow with its readings, so `LanSession` needs no bound; two addresses are "right" and "wrong".
Six calls are hello, check, request, a reading, and both terminal messages or one more
reading; a queue of two with four answers overflows twice. For the command line,
three sessions are a dead one, its successor and one that is turned away; two machine
keys are before and after a loss; with one phone key every session competes for it.

Fairness. `AnyHelper`: the event loop handles what is posted (stated over the desktop's own
variables, without the history `rang`), and a helper that
was forked starts and ends (alarm). `AnyDesktop`: coroutines and worker
threads are scheduled (every network call of theirs has a timeout), and the alarm
rings. `KdesuExec`: the same for both, and an armed lifetime timer fires; here the
alarm is *not* assumed, so the liveness properties hold because end of file and
cancel reach the helper, not because it is killed. `Phone`: the thread in the mailbox, the reset's
worker and the poll of a visible activity go on, while a message need never be taken in; only `phone_reopened` also has the user
open the app. `PhoneRoute`: sockets, the watchdog, discovery and D-Bus calls time out, the
worker's loop runs, and `close()` escalates to SIGKILL after two and a half seconds; that a
killed client's worker goes needs no kill, only the end of its stdin. `Configurator`: a session goes on,
because its calls end (`CallsEnd`) and its polling has a deadline. Nothing is assumed of the
user, the phone, the administrator, signals or crashes.

Each property has a mutant, a small change of one definition that resembles a
plausible bug (a guard that forgets `m_committed`, a recovery that keeps rows, a
lock inherited by the started command); mutants stand before the definition they
replace and are used by no specification. `InterruptInLaunch` in `Authority`, an await between the
row's use and Popen, is a second one for `StartReported`, which finds it too.

## 4. Properties

- `CommitExcludesAlternatives`, `CommitIsFinal`, `OneVerdict`,
  `AlternativeOnlyAfterWithdrawal`, `LastLineIsRead`, `FallbackReleased` (`AnyHelper`): what the dialog promises
  even if the helper misbehaves.
- `LaunchAuthorized`, `RepliesHonest`, `StartReported`, `NoAbandonedRequest`, `RowsSettle`
  (`AnyDesktop`): what the helpers promise even if the desktop misbehaves.
- `OneExecutionOwner` (refinement of `ExecOwner`), `SuccessIsTrue`, `OldAttemptsSpent`,
  `CommitResolves`, `FallbackReleased`, `HelpersEnd` (`KdesuExec`): what only both together give.
- `AnsweredOnce` (refinement of `PhonePromise`), `LiveRequestKept`, `WithdrawnStaysOut`,
  `WithdrawnUnsigned`, `WithdrawalSeen`, `SignsForThisKey`, `PairingsKept` (`Phone`).
- `CarriesInOrder` (refinement of `Courier`), `CallInTime`, `ReplyIsOwn`, `AnswersKept`,
  `ClosedIsQuiet`, `CallsEnd`, `WorkerGoes` (`PhoneRoute`).
- `OneChallenge`, `MessagesHonest`, `IdentityStands`, `SessionsEnd` (`HostCli`), `ConfigMatchesKeys`,
  `ApprovedWasEnrolled` (`Configurator`).

`LaunchAuthorized` includes the deadline and the absence of an await: from the last look at the clock
to Popen it has not passed, because the helper does not stop in between. `StartReported` is its
counterpart on the way out: once the row is used up, only a log, a Popen or a record that fails
can keep `executed` from being said, a SIGTERM or a receipt that cannot be delivered cannot.
`LastLineIsRead` is about an exit that overtakes the last line inside the desktop: the client
would call a command uncertain that it knows to have started.

`AnsweredOnce` says once for every time the request came into the slot. Without redelivery that
is once; a request that is received again after it lost the slot is a new question to the
user, since nothing remembers that it was answered, and its computer has stopped reading.

`CallInTime` is what is left of the time bound: it holds but for the last connection
of a call whose watchdog was missed. `AnswersKept` says what the bounded queue costs: an
answer goes only when as many later ones have come as the queue holds.

`WithdrawnUnsigned` is as strong as the code: there is one `cancel.json`, so a prompt for a
withdrawn request that has lost the slot to another withdrawn one can still sign
until the next poll. Its computer has given up and uses no answer.
A kill between `kde-cancellations.json` and `cancel.json` (`KdeConnectInbox.java:90-93`) has a like effect:
the withdrawal is remembered, so its request will not be taken in again, but the one on screen can
still be approved. The model has that kill; `heard` counts a withdrawal from the later of the
two steps, so no property forbids it.

The refinement mapping `Owner` lets an alternative that was taken count before a
commit, so a dialog that took both would show as a step from "phone" to "password",
which the abstract specification does not have.

## 5. Proofs

Every safety property that a passing run checks is also a theorem, for every value of the
constants that the named assumptions admit; so are the types of the desktop and of the helpers, which
need no run of their own. Each rests on an inductive invariant that TLC
checked on the small instances before it was proved.

### The desktop and the helpers

The steps of either side are reasoned about once, apart from what is on the other side of
the pipes: `HelperProofs` about `HelperNext`, `DesktopProofs` about `DesktopNext`. Three
modules cite them, for desktops that may write anything, for helpers that may say anything,
and for the two together. Assumed are `AttemptsAssumption`, `ConfigsAssumption` and
`EnvironmentAssumption`.

`AuthorityProofs`, about `AnyDesktop`: `TypesHold`, `LockExcludes` (`NoAbandonedRequest`),
`LaunchesAreAuthorized`, `RepliesAreHonest` and the action properties `StartIsReported` and
`SettledRowsStay`.
`HelpersMoveTheLock` sorts the thirty-odd actions by what they do to the lock, the places and
the rows: nothing, move the helper inside, let it leave, let it arrive, or take the lock. With
that `NoAbandonedRequest` is inductive by itself (`LockStep`). `LaunchAuthorized` is not: at
`launch` it must be known that the row is used up and that the approval task ended well, at
`commit` that a signature was verified, and at `cleanup` that a request that was not launched
may still be withdrawn. `LaunchInv` says so helper by helper. For `RepliesHonest` it must be
known as well where a helper has said nothing final yet, and why it is silent after it has
(`Speech`). `RowsSettle` follows step by step: only five actions and the configurator's
check write a row.

`AnyHelperProofs`, about `AnyHelper`: `DesktopIsTyped`, `CommitExcludes`, `VerdictIsOne`,
`WithdrawalComesFirst` and the action properties `CommitStays` and `ExecutedIsHeard`. Three invariants
carry them. `DesktopInv` relates the client's state, its flags, the pending fallback and the outcome;
`LivingInv` says that a client believes its helper to run only once it was started; `PipeInv` reads what
each helper was sent from the state of the client: a conversation is start and then at most one
verdict, only the present helper of a committed client was sent commit, and a pipe with a request
is open only while the client waits for it or has committed.

`ExecProofs`, about `KdesuExec`: `SuccessMeansLaunched`, `OldAttemptsStaySpent`, and `OneOwner`,
the refinement `OneExecutionOwner` of `ExecOwner`. `JoinInv` is what neither side has alone: a
helper that a commit can still spur, by its pipe or by having read it, is the present helper of
a client that has committed. So a launch is the phone's (`LaunchIsPromised`), and a decision of the dialog is a
step of `ExecOwner` or none (`DecisionsArePromised`).

### The phone

`PhoneProofs`, about `Phone`, from `MailboxAssumption`, which says of the constants only what they are,
for any number of computers, requests, resets and kills:

- `PhoneTypes`; `PhonePromises`, the refinement `AnsweredOnce` of `PhonePromise`; and the action
  properties `SignaturesAreForThisKey` and `PairingsStand`, for every build of the app. `PhoneInv` has five parts.
  `Types` bounds the keys by the resets that are left. `Screen` is what the main thread keeps to
  while something is shown. `Arrivals`: until a request was asked for nothing is on its way, and one that is not of `Repeats`
  comes once: while a thread writes it its message is no more on its way. `Answers`: the last answer
  stays in its slot as long as the request it is for, and the one that is shown has none; that is
  why an answer cannot be given twice for one arrival. `Paired`: pairings are for keys that existed, and
  a thread that holds a copy of `pairings.json` writes back what is there or what a reset has
  deleted meanwhile, and that is older than the key anything is shown for.
- `LiveRequestsStay`, `WithdrawnNeverArrives` and `WithdrawnIsNotSigned`, for the released app
  (`~Development`: no ADB push). `ReleasedInv` says that what lies in the slots is what happened,
  that a thread about to write a request found the slot empty or done with, and that a verified
  withdrawal is remembered until its request has expired or its key is gone. `WithdrawnNeverArrives` and
  `WithdrawnIsNotSigned` also assume `Repeats \subseteq Share`: over the LAN nothing remembers a
  withdrawal, so a LAN request that were sent again after it was withdrawn and lost the slot would be
  taken in, but `NetworkPhone` sends nothing again. The other hypothesis is
  needed as well: the debug build's push replaces files under no lock and leaves no trace in the
  memory of withdrawals, so mixed with the other routes it breaks all three. `phone_routes`, which
  checks them, has no enrolment either.

### The transports

`RouteProofs` proves about `PhoneRoute`, for all limits with the TCP time-out below the call's
(`LanAssumption`) and any number of threads, calls and answers (`ShareAssumption`):

- `RouteIsTyped`;
- `CallsInTime` and the invariant `TimeInv`: a step spends at most what its limit leaves; the
  only call that can outlive its deadline is on its second connection, because the first
  cannot use up more than the TCP time-out;
- `RepliesAreOwn` and `ClosedStaysQuiet`, from `FlowInv`: one command at a time, either in one
  pipe, or with the worker, or answered in the other, and it is the waiting call's as long as
  the transport is open;
- `AnswersAreKept`, from `KeptInv`: the queue holds the last answers heard, with no gap; what
  left it was returned, in order, or is the one reply in the pipe, unless as many later ones
  have come as the queue holds. `FlowInv` is needed for "the one";
- `RouteCarries`: the refinement `CarriesInOrder`. `Carrying` is the courier's step on plain
  values; `MailStep` shows it of the LAN, where each message has one call (`MailInv`), and
  `SharedWorker` of KDE Connect, where each has one spool file (`SharedInv`).

### The command line and the configurator

`EnrollmentProofs` proves about `Configurator`, for any number of sessions and keys
(`CliAssumption`): `EnrollmentTyped`, `OneChallengeOut`, `HonestMessages`, `IdentityAgrees`,
`ConfigurationAgrees` and `OnlyTheEnrolled`. Their invariant says who is inside (`LockHeld`),
that a session that has not asked has left nothing (`Fresh`), that recovery leaves no challenge
out but the session's own (`SoleChallenge`), that what is used up was signed (`Signed`), how
place and row go together (`Rows`), and how far the administrator's files agree (`AdmInv`,
`ApprovalInv`); `OneChallenge` alone is not inductive, because `Prepare` needs that nothing is
pending when it asks.

### Only model-checked

What holds under fairness, because neither liveness nor ENABLED is within the prover's reach:
`CommitResolves`, `FallbackReleased`, `HelpersEnd`, `WithdrawalSeen`, `CallsEnd`, `WorkerGoes`
and `SessionsEnd`. Their safety halves are proved where they have one: that a committed client
stays so, that a closed transport has no worker.

## 6. Findings

`RetryIsServed` fails. On a precommit `error` line the client finishes at once and
shows Retry, while the helper that sent the line is still in its `finally` clause,
which may take half a minute of network work, and holds `authority.lock`. The helper
that Retry starts then fails `flock(LOCK_EX | LOCK_NB)` and exits without printing
anything; the dialog reports that the helper exited, and the new attempt never put
a request to the phone. `docs/VERIFICATION.md:23` says of Retry "It starts a fresh request
after a terminal precommit failure". No safety property is affected.

`PairingsForThisKey` fails. `Bridge.receipt` reads `pairings.json` and writes it back on a
service thread under the mailbox lock; the reset's worker deletes it without that lock. A
receipt in between brings the pairings of the deleted key back, against the
dialog's "The signing key and all pairings will be deleted" (`MainActivity.java:98`). The
phone refuses every request they would admit (`SignsForThisKey`), but lists the
computers and lets the network be switched on.

`LatestIsReviewed` fails. After the tap on an outdated notification the app says "Open the app
again to review the latest request" (`MainActivity.java:198`), but the poll has already
put that request into `seenEnvelope`, which opening the app does not clear: it is shown
only if its own notification is tapped, or if a new activity is created whose intent is not the
outdated one (`onCreate` takes the `request_id` of its intent again).

`TimeBoundKept` fails. When refresh and second TCP connection have used up the fifteen
seconds, the watchdog is armed with zero and may fire while `wrap_socket` has already
emptied the socket that `sockets[0]` names. `shutdown` raises, `expire` swallows it, and
nothing bounds handshake, greeting and RPC but the socket's time-out per operation: a
peer that sends a byte now and then holds the call. The comment of the retry says "keep
the original time bound" (`host.py:216-217`). No message is lost or sent twice.

## 7. Not modelled yet, and the plan

| Next | Sources | Aim |
| --- | --- | --- |
| history of configurations | `rootauth.py`, `configure-authority.py` | relate a launch to the configuration in force at its commit |
| two administrators | `configure-authority.py` | one `.tmp` name, no lock; the code promises nothing about it |

The transports' promise and the phone are joined on paper only (section 2): composing
`PhoneRoute`, `Authority` and `Phone` in one run is out of TLC's reach.

Left out for good: drawing, layout, icons and settings screens; key storage and
cryptographic primitives (only whether a signature or certificate verifies);
JSON shape checks (accepted or refused); the packaging copies, which are identical
to the modelled files; `PhoneNotification`, which carries display metadata only.
