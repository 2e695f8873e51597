----------------------------- MODULE MailService -----------------------------
(***************************************************************************)
(* Everything that brings mail into the phone's mailbox: the LAN listener  *)
(* (NetworkService), KDE Connect's inbox (KdeConnectInbox) and the ADB     *)
(* push of a development build (host.py Phone, RequestReceiver).           *)
(* The first two work under Bridge.MAILBOX; job is the thread inside it.   *)
(* The activity's polling, a reset and ADB take no lock, and the process   *)
(* may be killed, so every file a job reads or writes is a step.           *)
(***************************************************************************)
EXTENDS Mailbox

VARIABLES
  mail,       \* messages the computers sent that may be taken in; one that is refused (by
              \* a check, a full inbox, 64 remembered withdrawals) or lost stays here for good
  enabled,    \* the user wants the LAN listener
  listening,  \* it runs
  svcKey,     \* the signing key it was started with
  job         \* the message a thread inside the mailbox lock is working on

serviceVars == <<mail, enabled, listening, svcKey, job>>

Files == {"request", "cancel", "receipt"}
Broadcasts == {"ready", "canceled", "posting"}
Messages == [name : Files \cup Broadcasts, id : Requests]
Message(name, r) == [name |-> name, id |-> r]

Stages == {"free", "back", "tomb", "write", "check", "post"}
NoJob == [at |-> "free", name |-> "request", id |-> NoRequest, back |-> <<>>]

ServiceTypeOK ==
  /\ mail \subseteq Messages
  /\ enabled \in BOOLEAN /\ listening \in BOOLEAN /\ svcKey \in Keys
  /\ job.at \in Stages /\ job.name \in Files /\ job.id \in Slot
  /\ job.back \in [Computers -> Keys \cup {0}] \cup {<<>>}

ServiceInit ==
  /\ mail = {} /\ enabled = TRUE /\ listening = TRUE /\ svcKey = 1 /\ job = NoJob

\* receipt() is called for a receipt, and to see whether the old request is done.
Confirms(m) ==
  \/ m.name = "receipt"
  \/ /\ m.name = "request" /\ ConfirmedFinish(request)
     /\ cancel # request /\ ~ThrowsExpired(request)

\* Mutant: a thread that has not read the pairings writes them all the same.
WritesUnread(m, confirms) == IF m.name = "cancel" THEN "write" ELSE "back"

\* What it writes first: receipt() writes the pairings back that it has read, and a
\* KDE Connect withdrawal is remembered before anything else.
FirstWrite(m, confirms) ==
  IF confirms THEN "back" ELSE IF m.name = "cancel" /\ m.id \in Share THEN "tomb" ELSE "write"

\* A thread takes a message; what may be received again stays.
TakeIn(m, confirms) ==
  /\ mail' = IF m.id \in Repeats THEN mail ELSE mail \ {m}
  /\ job' = [at |-> FirstWrite(m, confirms), name |-> m.name, id |-> m.id,
             back |-> IF confirms THEN paired ELSE <<>>]
  /\ UNCHANGED <<mailboxVars, enabled, listening, svcKey>>

\* Mutant: a request that is in the slot is written once more.
RepostsAnyway(m, k) == SlotOpen(k)

\* A request that is in the slot is left alone, another must be done with.
MayEnter(m, k) == request # m.id /\ SlotOpen(k)

\* A withdrawal or a receipt for what is in the slot.
Matches(m, k) ==
  /\ request = m.id /\ ValidEver(m.id, k)
  /\ m.name = "receipt" => response = [id |-> m.id, status |-> "signed"]

\* handle() and the checks of exchange().  The listener keeps the key it was
\* started with.
LanTakes(m) ==
  /\ job = NoJob /\ m \in mail /\ m.id \in Lan /\ listening
  /\ paired[ComputerOf[m.id]] # 0
  /\ \/ m.name = "request" /\ Valid(m.id, svcKey) /\ MayEnter(m, svcKey)
     \/ m.name \in {"cancel", "receipt"} /\ Matches(m, svcKey)
  /\ TakeIn(m, Confirms(m))

\* receive(): the same for a file; a withdrawal may come before its request.
ShareTakes(m) ==
  /\ job = NoJob /\ m \in mail /\ m.id \in Share
  /\ \/ m.name = "request" /\ m.id \notin tombs /\ Valid(m.id, key) /\ MayEnter(m, key)
     \/ m.name = "cancel" /\ ValidEver(m.id, key)
     \/ m.name = "receipt" /\ Matches(m, key)
  /\ TakeIn(m, Confirms(m))

\* A remembered withdrawal is dropped half a minute after the request expired.
Pruned(T) == {T, T \ expired}

\* Mutant: a withdrawal is remembered only if its request is there.
TombsCurrentOnly(r) == Pruned(IF request = r THEN tombs \cup {r} ELSE tombs)

Tombs(r) == Pruned(tombs \cup {r})

\* The pairings it has read, with a fresh display name.
JobWritesBack ==
  /\ job.at = "back" /\ paired' = job.back
  /\ job' = [job EXCEPT !.at = "write", !.back = <<>>]
  /\ UNCHANGED <<slotVars, key, clockVars, historyVars, note, mail, enabled, listening, svcKey>>

\* kde-cancellations.json, before it looks whether the request is in the slot.
JobRemembers ==
  /\ job.at = "tomb" /\ tombs' \in Tombs(job.id)
  /\ job' = [job EXCEPT !.at = "write"]
  /\ UNCHANGED <<request, response, receipt, cancel, idVars, clockVars, historyVars, note, mail, enabled,
                 listening, svcKey>>

\* The slot, after which the lock is kept for the notification only.  A KDE Connect
\* request also writes the remembered withdrawals back.
JobWrites ==
  /\ job.at = "write"
  /\ \/ /\ job.name = "request" /\ request' = job.id /\ job' = [job EXCEPT !.at = "check"]
        /\ Offered(job.id)
        /\ tombs' \in IF job.id \in Share THEN Pruned(tombs) ELSE {tombs}
        /\ UNCHANGED <<receipt, cancel, heard>>
     \/ /\ job.name = "receipt" /\ receipt' = job.id /\ job' = NoJob
        /\ UNCHANGED <<request, cancel, tombs, historyVars>>
     \/ /\ job.name = "cancel" /\ (job.id \in Share => request = job.id)
        /\ cancel' = job.id /\ job' = [job EXCEPT !.at = "check"]
        /\ heard' = heard \cup {job.id}
        /\ UNCHANGED <<request, receipt, tombs, told>>
     \/ /\ job.name = "cancel" /\ job.id \in Share /\ request # job.id /\ job' = NoJob
        /\ heard' = heard \cup {job.id}
        /\ UNCHANGED <<request, receipt, cancel, tombs, told>>
  /\ UNCHANGED <<response, idVars, clockVars, note, mail, enabled, listening, svcKey>>

\* refreshNotification(): a verified withdrawal takes the notification away; a
\* request that is current, unanswered and in time gets one.
Current(r) == request = r /\ Valid(r, key)
Refreshes(r) == note' = IF Current(r) /\ cancel = r THEN note \ {r} ELSE note
Announces(r) == Current(r) /\ cancel # r /\ response.id # r

\* Older notifications are retired; the user may have forbidden new ones.
Announced(r) == \E shown \in {{}, {r}} : note' = shown

JobChecks ==
  /\ job.at = "check" /\ Refreshes(job.id)
  /\ job' = IF job.name = "request" /\ Announces(job.id) THEN [job EXCEPT !.at = "post"] ELSE NoJob
  /\ UNCHANGED <<slotVars, idVars, clockVars, historyVars, mail, enabled, listening, svcKey>>

JobPosts ==
  /\ job.at = "post" /\ job' = NoJob /\ Announced(job.id)
  /\ UNCHANGED <<slotVars, idVars, clockVars, historyVars, mail, enabled, listening, svcKey>>

\* host.py Phone: a file is moved into place, unchecked, and a broadcast sent for it
\* unless it is a receipt.
AdbPushes(m) ==
  /\ m \in mail /\ m.id \in Pushed
  /\ \/ /\ m.name = "request" /\ request' = m.id /\ Offered(m.id)
        /\ mail' = (mail \ {m}) \cup {Message("ready", m.id)}
        /\ UNCHANGED <<cancel, receipt, heard>>
     \/ /\ m.name = "cancel" /\ cancel' = m.id /\ heard' = heard \cup {m.id}
        /\ mail' = (mail \ {m}) \cup {Message("canceled", m.id)}
        /\ UNCHANGED <<request, receipt, told>>
     \/ /\ m.name = "receipt" /\ receipt' = m.id /\ mail' = mail \ {m}
        /\ UNCHANGED <<request, cancel, historyVars>>
  /\ UNCHANGED <<response, tombs, idVars, clockVars, note, enabled, listening, svcKey, job>>

\* RequestReceiver: a thread of its own, which holds no lock.
Received(m) ==
  /\ m \in mail /\ m.name \in {"ready", "canceled"} /\ Refreshes(m.id)
  /\ mail' = (mail \ {m}) \cup (IF m.name = "ready" /\ Announces(m.id)
                               THEN {Message("posting", m.id)} ELSE {})
  /\ UNCHANGED <<slotVars, idVars, clockVars, historyVars, enabled, listening, svcKey, job>>

ReceiverPosts(m) ==
  /\ m \in mail /\ m.name = "posting" /\ mail' = mail \ {m} /\ Announced(m.id)
  /\ UNCHANGED <<slotVars, idVars, clockVars, historyVars, enabled, listening, svcKey, job>>

\* The listener's thread starts, and needs a pairing and an approved identity.
Listen ==
  /\ enabled /\ ~listening /\ (\E c \in Computers : paired[c] # 0)
  /\ listening' = TRUE /\ svcKey' = key
  /\ UNCHANGED <<mailboxVars, mail, enabled, job>>

\* onDestroy() waits for the mailbox before it turns clients away.
StopListening ==
  /\ ~enabled /\ listening /\ job = NoJob
  /\ listening' = FALSE
  /\ UNCHANGED <<mailboxVars, mail, enabled, svcKey, job>>

JobStep == JobWritesBack \/ JobRemembers \/ JobWrites \/ JobChecks \/ JobPosts

ServiceNext ==
  \/ \E m \in mail : \/ LanTakes(m) \/ ShareTakes(m)
                     \/ AdbPushes(m) \/ Received(m) \/ ReceiverPosts(m)
  \/ JobStep \/ Listen
=============================================================================
