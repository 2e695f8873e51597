------------------------------ MODULE PhoneApp ------------------------------
(***************************************************************************)
(* The phone's one activity (MainActivity.java).  Its handlers run on the  *)
(* main thread, one at a time; a poll is three steps of it because it      *)
(* reads files that the service's threads write.  Opening a signature and  *)
(* the wipe of a reset run on the activity's worker.                       *)
(***************************************************************************)
EXTENDS MailService, Sequences

CONSTANTS
  Taps,   \* the requests whose notification the user taps (a bound)
  Kills   \* how often Android kills the process (a bound)

ASSUME AppAssumption == Taps \subseteq Requests /\ Kills \in Nat

VARIABLES
  visible,    \* between onStart and onStop
  appKey,     \* the signing key the activity prepared, 0 for none
  pending,    \* the request on screen that waits for an answer
  awaiting,   \* the signed request that waits for its receipt
  attempt,    \* the approval of pending: "no", "begun", "prompt"
  seen,       \* the request.json the last poll looked at
  opened,     \* the request of the notification that opened the app
  tapped,     \* a notification that was tapped and is not delivered yet
  intents,    \* the notifications that have opened it so far
  polling,    \* where the poll is: "no", "look", "rest"
  envelope,   \* what it read from request.json
  wiping,     \* how far the worker of a reset is
  kills       \* kills so far

screenVars == <<pending, awaiting, attempt, seen, opened>>
pollVars == <<polling, envelope>>
appVars == <<visible, appKey, screenVars, tapped, intents, pollVars, wiping, kills>>

\* The files bridge.reset() deletes, in its order, after the key.
Wipes == <<"key", "pairings", "request", "response", "receipt", "cancel", "tombs">>

AppTypeOK ==
  /\ visible \in BOOLEAN /\ appKey \in Keys \cup {0}
  /\ {pending, awaiting, seen, opened, tapped, envelope} \subseteq Slot
  /\ attempt \in {"no", "begun", "prompt"} /\ intents \subseteq Requests
  /\ polling \in {"no", "look", "rest"} /\ wiping \in 0..Len(Wipes) /\ kills \in 0..Kills

AppInit ==
  /\ visible = FALSE /\ appKey = 1 /\ attempt = "no" /\ polling = "no"
  /\ pending = NoRequest /\ awaiting = NoRequest /\ seen = NoRequest
  /\ opened = NoRequest /\ tapped = NoRequest /\ envelope = NoRequest
  /\ intents = {} /\ wiping = 0 /\ kills = 0

Busy == wiping # 0
Idle == polling = "no"

-----------------------------------------------------------------------------
\* cancel(): whatever is on screen is declined, and the computer is told why.
Cancels(status) ==
  IF pending = NoRequest THEN UNCHANGED <<pending, attempt, note, response, paired, told>>
  ELSE /\ pending' = NoRequest /\ attempt' = "no"
       /\ note' = note \ {pending}
       /\ Respond(pending, status)

KeepsMail == UNCHANGED <<request, receipt, cancel, tombs, key, clockVars, heard, serviceVars>>

\* onStart(), and loadKey() when no key was prepared yet.
OnStart ==
  /\ Idle /\ ~visible
  /\ visible' = TRUE
  /\ appKey' = IF appKey = 0 /\ ~Busy THEN key ELSE appKey
  /\ UNCHANGED <<mailboxVars, serviceVars, screenVars, tapped, intents, pollVars, wiping, kills>>

\* onStop(): an approval that has begun is declined, a mere display is not.
OnStop ==
  /\ Idle /\ visible
  /\ visible' = FALSE
  /\ IF attempt # "no" THEN Cancels("declined")
     ELSE UNCHANGED <<pending, attempt, note, response, paired, told>>
  /\ KeepsMail
  /\ UNCHANGED <<appKey, awaiting, seen, opened, tapped, intents, pollVars, wiping, kills>>

\* onCreate() shows what its intent is for: the one the activity was first started
\* with or the last one it was opened with, as Android restores it.
Created == opened' \in intents \cup {NoRequest}

\* The stopped activity is destroyed and created again.
Recreate ==
  /\ Idle /\ ~visible /\ ~Busy
  /\ pending' = NoRequest /\ awaiting' = NoRequest /\ seen' = NoRequest
  /\ Created /\ appKey' = 0
  /\ UNCHANGED <<mailboxVars, serviceVars, visible, attempt, tapped, intents, pollVars, wiping, kills>>

\* The user taps a notification; the system takes it away and delivers it later.
TapNotification(r) ==
  /\ r \in note \cap Taps /\ tapped = NoRequest
  /\ tapped' = r /\ note' = note \ {r}
  /\ UNCHANGED <<slotVars, idVars, clockVars, historyVars, serviceVars, visible, appKey, screenVars,
                 intents, pollVars, wiping, kills>>

\* onNewIntent(): show it again, unless it is on screen.
OnNewIntent ==
  /\ Idle /\ tapped # NoRequest
  /\ tapped' = NoRequest /\ intents' = intents \cup {tapped}
  /\ IF tapped \in {pending, awaiting} THEN opened' = NoRequest /\ UNCHANGED seen
     ELSE opened' = tapped /\ seen' = NoRequest
  /\ UNCHANGED <<mailboxVars, serviceVars, visible, appKey, pending, awaiting, attempt, pollVars,
                 wiping, kills>>

-----------------------------------------------------------------------------
\* pollComputer(), first read: a new request replaces what is on screen.
PollRead ==
  /\ Idle /\ visible /\ appKey # 0 /\ ~Busy
  /\ IF request \in {NoRequest, seen}
     THEN /\ polling' = "rest"
          /\ UNCHANGED <<pending, attempt, note, response, paired, told, awaiting, seen, envelope>>
     ELSE /\ polling' = "look" /\ envelope' = request /\ seen' = request
          /\ awaiting' = NoRequest
          /\ Cancels("replaced")
  /\ KeepsMail
  /\ UNCHANGED <<visible, appKey, opened, tapped, intents, wiping, kills>>

\* What a valid request has come to.
Standing ==
  IF cancel = envelope THEN "withdrawn"
  ELSE IF response.id # envelope THEN "new"
  ELSE IF response.status = "signed" THEN "signed" ELSE "stopped"

\* The request is verified and put on screen.  One that does not verify, or is
\* not the one the user tapped, is not shown; only an invalid one leaves the
\* expected notification standing.
PollLook ==
  /\ polling = "look" /\ envelope' = NoRequest
  /\ LET good == Valid(envelope, appKey)
         expected == good => opened \in {NoRequest, envelope}
         shows == good /\ expected
     IN /\ opened' = IF good THEN NoRequest ELSE opened
        /\ note' = IF shows /\ Standing = "withdrawn" THEN note \ {envelope} ELSE note
        /\ pending' = IF shows /\ Standing = "new" THEN envelope ELSE NoRequest
        /\ awaiting' = IF shows /\ Standing = "signed" THEN envelope ELSE NoRequest
        /\ polling' = IF shows /\ Standing # "withdrawn" THEN "rest" ELSE "no"
  /\ UNCHANGED <<slotVars, idVars, clockVars, historyVars, serviceVars, visible, appKey, attempt,
                 seen, tapped, intents, wiping, kills>>

\* Mutant: the withdrawal is looked for only once the request is signed.
WithdrawnWhenSigned == awaiting # NoRequest /\ cancel = awaiting

Shown == IF pending # NoRequest THEN pending ELSE awaiting
Withdrawn == Shown # NoRequest /\ cancel = Shown

\* The rest of every poll: expiry, withdrawal, receipt, giving up the receipt.
PollRest ==
  /\ polling = "rest" /\ polling' = "no"
  /\ \/ /\ pending \in expired
        /\ Cancels("declined") /\ UNCHANGED awaiting
     \/ /\ pending \notin expired /\ Withdrawn
        /\ awaiting' = NoRequest
        /\ IF pending # NoRequest THEN Cancels("declined")
           ELSE /\ note' = note \ {awaiting}
                /\ UNCHANGED <<pending, attempt, response, paired, told>>
     \/ /\ pending \notin expired /\ ~Withdrawn
        /\ \/ /\ receipt = awaiting
              /\ awaiting' = NoRequest /\ note' = note \ {awaiting}
           \/ receipt # awaiting /\ UNCHANGED <<awaiting, note>>
           \/ awaiting \in expired /\ receipt # awaiting /\ awaiting' = NoRequest /\ UNCHANGED note
        /\ UNCHANGED <<pending, attempt, response, paired, told>>
  /\ KeepsMail
  /\ UNCHANGED <<visible, appKey, seen, opened, tapped, intents, envelope, wiping, kills>>

Poll == PollRead \/ PollLook \/ PollRest

-----------------------------------------------------------------------------
\* begin(): the worker opens a signature for the request on screen.
TapApprove ==
  /\ Idle /\ visible /\ ~Busy /\ attempt = "no" /\ pending # NoRequest
  /\ IF pending \in expired THEN Cancels("declined")
     ELSE attempt' = "begun" /\ UNCHANGED <<pending, note, response, paired, told>>
  /\ KeepsMail
  /\ UNCHANGED <<visible, appKey, awaiting, seen, opened, tapped, intents, pollVars, wiping, kills>>

\* prompt(), back on the main thread.
ShowPrompt ==
  /\ Idle /\ attempt = "begun"
  /\ IF pending \in expired THEN Cancels("declined")
     ELSE attempt' = "prompt" /\ UNCHANGED <<pending, note, response, paired, told>>
  /\ KeepsMail
  /\ UNCHANGED <<visible, appKey, awaiting, seen, opened, tapped, intents, pollVars, wiping, kills>>

\* Mutant: the fingerprint is taken without a last look at the withdrawal.
StopsUnlooked == pending \in expired

\* completeLocked() looks once more, under the mailbox lock.
Stops == pending \in expired \/ cancel = pending

\* Mutant: complete() does not take the lock.
LockForgotten == TRUE

\* complete() takes the lock that the service and the inbox hold.
LockFree == job = NoJob

\* completeLocked(): the fingerprint signs the request on screen.
Fingerprint ==
  /\ Idle /\ attempt = "prompt" /\ LockFree
  /\ IF Stops THEN Cancels("declined") /\ UNCHANGED awaiting
     ELSE /\ Respond(pending, "signed") /\ note' = note \ {pending}
          /\ awaiting' = pending /\ pending' = NoRequest /\ attempt' = "no"
  /\ KeepsMail
  /\ UNCHANGED <<visible, appKey, seen, opened, tapped, intents, pollVars, wiping, kills>>

\* Cancel, a biometric error, a failing key, or the timer of the attempt.
Decline ==
  /\ Idle /\ attempt # "no" /\ Cancels("declined")
  /\ KeepsMail
  /\ UNCHANGED <<visible, appKey, awaiting, seen, opened, tapped, intents, pollVars, wiping, kills>>

-----------------------------------------------------------------------------
\* resetKey(): the screen at once, the files by the worker.
ResetKey ==
  /\ Idle /\ visible /\ attempt = "no" /\ ~Busy /\ key \in 1..Resets
  /\ enabled' = FALSE /\ wiping' = 1 /\ appKey' = 0 /\ note' = {}
  /\ IF pending = NoRequest THEN UNCHANGED <<response, paired, told>>
     ELSE Respond(pending, "declined")
  /\ pending' = NoRequest /\ awaiting' = NoRequest /\ seen' = NoRequest
  /\ UNCHANGED <<request, receipt, cancel, tombs, key, clockVars, heard, mail, listening, svcKey, job,
                 visible, attempt, opened, tapped, intents, pollVars, kills>>

Wipe(what, slot) == IF Wipes[wiping] = what THEN NoRequest ELSE slot

\* SigningKey.reset() and bridge.reset(), file by file, without the lock; after
\* the last one the activity prepares a new key.
WipeStep ==
  /\ Busy
  /\ key' = IF Wipes[wiping] = "key" THEN key + 1 ELSE key
  /\ paired' = IF Wipes[wiping] = "pairings" THEN [c \in Computers |-> 0] ELSE paired
  /\ request' = Wipe("request", request)
  /\ response' = IF Wipes[wiping] = "response" THEN NoResponse ELSE response
  /\ receipt' = Wipe("receipt", receipt) /\ cancel' = Wipe("cancel", cancel)
  /\ tombs' = IF Wipes[wiping] = "tombs" THEN {} ELSE tombs
  /\ IF wiping < Len(Wipes) THEN wiping' = wiping + 1 /\ UNCHANGED appKey
     ELSE wiping' = 0 /\ appKey' = IF visible THEN key ELSE 0
  /\ UNCHANGED <<clockVars, historyVars, note, serviceVars, visible, screenVars, tapped, intents,
                 pollVars, kills>>

-----------------------------------------------------------------------------
\* toggleNetwork(), on: the identity is approved with the present key.
TurnOn ==
  /\ Idle /\ visible /\ ~Busy /\ attempt = "no" /\ appKey # 0 /\ ~enabled /\ ~listening
  /\ \E c \in Computers : paired[c] # 0
  /\ enabled' = TRUE
  /\ UNCHANGED <<mailboxVars, mail, listening, svcKey, job, appVars>>

TurnOff ==
  /\ Idle /\ visible /\ ~Busy /\ attempt = "no" /\ appKey # 0 /\ enabled
  /\ enabled' = FALSE
  /\ UNCHANGED <<mailboxVars, mail, listening, svcKey, job, appVars>>

\* NetworkService.onDestroy() is on the main thread too.
OnDestroy == Idle /\ StopListening /\ UNCHANGED appVars

\* Android kills the process; files, key and notifications stay.  Within signed()
\* the pairing of an approved enrolment may be written and the response not.
Kill ==
  /\ kills < Kills /\ kills' = kills + 1
  /\ \/ UNCHANGED paired
     \/ Idle /\ attempt = "prompt" /\ LockFree /\ ~Stops /\ Pairs(pending)
  /\ job' = NoJob /\ listening' = FALSE /\ mail' = {m \in mail : m.name # "posting"}
  /\ visible' = FALSE /\ appKey' = 0 /\ attempt' = "no" /\ polling' = "no"
  /\ pending' = NoRequest /\ awaiting' = NoRequest /\ seen' = NoRequest
  /\ Created /\ envelope' = NoRequest /\ wiping' = 0
  /\ UNCHANGED <<slotVars, key, clockVars, historyVars, note, enabled, svcKey, tapped, intents>>

AppNext ==
  \/ OnStart \/ OnStop \/ Recreate \/ OnNewIntent \/ Poll
  \/ TapApprove \/ ShowPrompt \/ Fingerprint \/ Decline
  \/ ResetKey \/ WipeStep \/ TurnOn \/ TurnOff \/ OnDestroy \/ Kill
  \/ \E r \in Requests : TapNotification(r)
=============================================================================
