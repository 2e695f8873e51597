----------------------------- MODULE PhoneProofs -----------------------------
(***************************************************************************)
(* What the phone keeps, however many computers and requests there are and *)
(* however often its key is reset and its process killed: one invariant in *)
(* five parts for every build, three more for a released one, to which no  *)
(* request can be pushed over ADB.                                         *)
(***************************************************************************)
EXTENDS Phone, TLAPS

-----------------------------------------------------------------------------
(* The inductive invariant, in five parts.                                 *)

Backs == [Computers -> Keys \cup {0}] \cup {<<>>}
Jobs == [at : Stages, name : Files, id : Slot, back : Backs]

\* The type invariant, its Boolean variables apart, with the job as a whole and the
\* keys a reset may still make.
Flags == visible \in BOOLEAN /\ enabled \in BOOLEAN /\ listening \in BOOLEAN
JobSort ==
  /\ mail \subseteq Messages /\ svcKey \in Keys /\ job \in Jobs
  /\ job.at # "free" => job.id \in Requests \ Pushed
  /\ job.at = "free" => job = NoJob
  /\ job.at = "back" => job.back \in [Computers -> Keys \cup {0}]
  /\ job.at = "tomb" => job.name = "cancel" /\ job.id \in Share
  /\ job.at = "back" => job.name # "cancel"
AppSort ==
  /\ appKey \in Keys \cup {0}
  /\ {pending, awaiting, seen, opened, tapped, envelope} \subseteq Slot
  /\ attempt \in {"no", "begun", "prompt"}
  /\ polling \in {"no", "look", "rest"} /\ wiping \in 0..7 /\ kills \in 0..Kills
  /\ wiping = 1 => key \in 1..Resets
  /\ intents \subseteq Requests
  /\ attempt # "no" => visible /\ pending # NoRequest
  /\ polling = "look" => pending = NoRequest
SentSort == sent \in [Requests -> {"new", "asked", "refused", "withdrawn", "confirmed"}]
Types == Flags /\ MailboxTypeOK /\ JobSort /\ AppSort /\ SentSort

\* What the main thread keeps to while something is on screen.
Screen ==
  /\ appKey \in {0, key}
  /\ polling # "no" => ~Busy
  /\ polling = "look" => envelope # NoRequest /\ appKey = key
  /\ Busy => pending = NoRequest /\ appKey = 0

\* A request is on its way to the phone once, if it is not one that is repeated; no
\* thread writes what is in the slot already.
Writing == job.at \in {"back", "tomb", "write"}
Arriving(r) == Writing /\ job.name = "request" /\ job.id = r
Coming(r) == Message("request", r) \in mail \/ Arriving(r)
Once(r) ==
  /\ sent[r] = "new" => told[r] = "unseen" /\ job.id # r /\ \A m \in mail : m.id # r
  /\ Coming(r) /\ r \notin Repeats => told[r] = "unseen"
  /\ Arriving(r) => request # r /\ (r \notin Repeats => Message("request", r) \notin mail)
Arrivals == \A r \in Requests : Once(r)

\* The last answer stays in its slot while the request it is for does; the one that
\* is shown has none, nor has another that took the slot meanwhile.
Unanswered == request # NoRequest => Asked(request)
Answered(r) == told[r] # "unseen" /\ (~Asked(r) => response.id = r)
Answers ==
  /\ request # NoRequest => Answered(request)
  /\ pending # NoRequest => Asked(pending) /\ (request # pending => Unanswered)
  /\ polling = "look" => Answered(envelope) /\ (request # envelope => Unanswered)
  /\ wiping \in 4..7 => Unanswered

\* Pairings are for keys that existed; a thread that read them writes the same
\* back, or writes what a reset has deleted meanwhile.
ForKey(r) == bound[r] = key /\ (r \notin Enrolls => paired[ComputerOf[r]] = key)
Paired ==
  /\ \A c \in Computers : paired[c] <= key
  /\ job.at = "back" => /\ \A c \in Computers : job.back[c] <= key
                        /\ paired = job.back \/ paired = [c \in Computers |-> 0]
  /\ pending # NoRequest => ForKey(pending)

PhoneInv == Types /\ Screen /\ Arrivals /\ Answers /\ Paired

-----------------------------------------------------------------------------
(* Types.                                                                  *)

\* In which order the worker of a reset deletes.
LEMMA WipesAre ==
  /\ Len(Wipes) = 7
  /\ \A i \in 1..7 : /\ Wipes[i] = "key" <=> i = 1
                     /\ Wipes[i] = "pairings" <=> i = 2
                     /\ Wipes[i] = "request" <=> i = 3
                     /\ Wipes[i] = "response" <=> i = 4
  BY DEF Wipes

\* What a response may be, and what it does to the pairings.
LEMMA ResponseTyped ==
  ASSUME MailboxTypeOK, NEW r \in Requests, NEW status \in {"signed", "declined", "replaced"},
         Respond(r, status)
  PROVE  /\ response' \in [id : Slot, status : Statuses]
         /\ paired' \in [Computers -> Keys \cup {0}]
         /\ told' \in [Requests -> {"unseen", "asked", "signed", "declined", "again"}]
<1>1. ComputerOf[r] \in Computers /\ bound[r] \in Keys \cup {0}
  BY MailboxAssumption DEF MailboxTypeOK
<1> QED
  BY <1>1 DEF Respond, Pairs, MailboxTypeOK, Slot, Statuses

\* The same for cancel(), which also clears the screen.
LEMMA CancelsTyped ==
  ASSUME MailboxTypeOK, AppSort, NEW status \in {"declined", "replaced"}, Cancels(status)
  PROVE  /\ response' \in [id : Slot, status : Statuses]
         /\ paired' \in [Computers -> Keys \cup {0}]
         /\ told' \in [Requests -> {"unseen", "asked", "signed", "declined", "again"}]
         /\ note' \subseteq Requests
         /\ pending' \in Slot /\ attempt' \in {"no", "begun", "prompt"}
         /\ attempt' # "no" => pending' # NoRequest
<1>1. CASE pending = NoRequest
  BY <1>1 DEF Cancels, MailboxTypeOK, AppSort
<1>2. CASE pending # NoRequest
  <2>1. pending \in Requests
    BY <1>2 DEF AppSort, Slot
  <2>2. Respond(pending, status) /\ pending' = NoRequest /\ attempt' = "no" /\ note' = note \ {pending}
    BY <1>2 DEF Cancels
  <2> QED
    BY <2>1, <2>2, ResponseTyped DEF MailboxTypeOK, Slot
<1> QED
  BY <1>1, <1>2

\* What a thread does beside the job: nothing but notifications, broadcasts and
\* the listener.
Calls == {n \in Messages : n.name \in Broadcasts /\ \E m \in mail : m.id = n.id}
Aside ==
  /\ UNCHANGED <<slotVars, idVars, clockVars, historyVars, job>> /\ note' \subseteq note \cup Requests
  /\ mail' \subseteq mail \cup Calls /\ svcKey' \in {svcKey, key}

\* Everything that brings mail in is one of these.
LEMMA ServiceSteps ==
  ASSUME mail \subseteq Messages, ServiceNext
  PROVE  \/ \E m \in mail : LanTakes(m) \/ ShareTakes(m)
         \/ \E m \in mail : AdbPushes(m)
         \/ JobWritesBack \/ JobRemembers \/ JobWrites \/ JobChecks \/ JobPosts
         \/ Aside
<1>1. ASSUME NEW m \in mail, Received(m) PROVE Aside
  <2>1. m \in Messages /\ m.id \in Requests /\ Message("posting", m.id) \in Messages
    BY DEF Messages, Message, Broadcasts
  <2>2. Message("posting", m.id) \in Calls
    BY <2>1 DEF Calls, Message, Broadcasts
  <2>3. mail' \subseteq mail \cup Calls
    BY <1>1, <2>2 DEF Received
  <2>4. note' \subseteq note
    BY <1>1 DEF Received, Refreshes
  <2> QED
    BY <1>1, <2>3, <2>4 DEF Received, Aside
<1>2. ASSUME NEW m \in mail, ReceiverPosts(m) PROVE Aside
  <2>1. m.id \in Requests
    BY DEF Messages
  <2> QED
    BY <1>2, <2>1 DEF ReceiverPosts, Announced, Aside
<1>3. CASE Listen
  BY <1>3 DEF Listen, Aside, mailboxVars
<1> QED
  BY <1>1, <1>2, <1>3, Zenon DEF ServiceNext, JobStep

\* The Boolean variables.
LEMMA FlagsKeep ==
  ASSUME Flags, [Next]_vars PROVE Flags'
<1> USE DEF Flags
<1>1. CASE ServiceNext /\ UNCHANGED <<appVars, sent>>
  BY <1>1, Zenon DEF ServiceNext, LanTakes, ShareTakes, TakeIn, AdbPushes, Received, ReceiverPosts,
     JobStep, JobWritesBack, JobRemembers, JobWrites, JobChecks, JobPosts, Listen, appVars
<1>2. CASE HostNext
  BY <1>2, Zenon DEF HostNext, Ask, HostReads, HostWithdraws, Expire, appVars, serviceVars
<1>3. CASE Poll \/ TapApprove \/ ShowPrompt \/ Fingerprint \/ Decline \/ OnStart \/ OnStop
  BY <1>3, Zenon DEF Poll, PollRead, PollLook, PollRest, TapApprove, ShowPrompt, Fingerprint,
     Decline, OnStart, OnStop, KeepsMail, serviceVars
<1>4. CASE Recreate \/ OnNewIntent \/ ResetKey \/ WipeStep \/ TurnOn \/ TurnOff \/ OnDestroy \/ Kill
  BY <1>4, Zenon DEF Recreate, OnNewIntent, ResetKey, WipeStep, TurnOn, TurnOff, OnDestroy,
     StopListening, Kill, serviceVars, appVars
<1>5. ASSUME NEW r \in Requests, TapNotification(r)
      PROVE  Flags'
  BY <1>5, Zenon DEF TapNotification, serviceVars
<1>6. CASE UNCHANGED vars
  BY <1>6, Zenon DEF vars, phoneVars, serviceVars, appVars
<1> QED
  BY <1>1, <1>2, <1>3, <1>4, <1>5, <1>6, Zenon DEF Next, AppNext

\* Everything but the Boolean variables.
Sorts == MailboxTypeOK /\ JobSort /\ AppSort /\ SentSort

\* The job is finished, or moves on.
LEMMA JobMoves ==
  ASSUME JobSort, job.at # "free",
         \/ job' = NoJob
         \/ job.at # "back" /\ \E stage \in {"write", "check", "post"} : job' = [job EXCEPT !.at = stage]
         \/ job' = [job EXCEPT !.at = "write", !.back = <<>>],
         UNCHANGED <<mail, svcKey>>
  PROVE  JobSort'
<1> USE DEF JobSort, Jobs, Stages
<1>1. NoJob \in Jobs
  BY DEF NoJob, Files, Slot, Backs
<1>2. CASE job' = NoJob
  BY <1>1, <1>2 DEF NoJob
<1>3. ASSUME NEW stage \in {"write", "check", "post"}, job.at # "back", job' = [job EXCEPT !.at = stage]
      PROVE  JobSort'
  <2>1. job' \in Jobs /\ job'.at = stage /\ job'.id = job.id /\ job'.name = job.name /\ job'.back = job.back
    BY <1>3
  <2> QED
    BY <1>3, <2>1
<1>4. CASE job' = [job EXCEPT !.at = "write", !.back = <<>>]
  <2>1. <<>> \in Backs
    BY DEF Backs
  <2>2. job' \in Jobs /\ job'.at = "write" /\ job'.id = job.id /\ job'.name = job.name /\ job'.back = <<>>
    BY <1>4, <2>1
  <2> QED
    BY <1>4, <2>2
<1> QED
  BY <1>2, <1>3, <1>4

\* The threads that take mail in keep them,
LEMMA SortsOfService ==
  ASSUME Sorts, ServiceNext, UNCHANGED <<appVars, sent>> PROVE Sorts'
<1> USE DEF Sorts
<1>1. AppSort' /\ SentSort'
  <2>1. key' = key
    BY DEF ServiceNext, LanTakes, ShareTakes, TakeIn, AdbPushes, Received, ReceiverPosts, JobStep,
       JobWritesBack, JobRemembers, JobWrites, JobChecks, JobPosts, Listen, idVars, mailboxVars
  <2> QED
    BY <2>1 DEF appVars, screenVars, pollVars, AppSort, SentSort
<1>2. ASSUME NEW m \in mail, LanTakes(m) \/ ShareTakes(m)
      PROVE  MailboxTypeOK' /\ JobSort'
  <2>1. m \in Messages /\ m.name \in Files /\ m.id \in Requests \ Pushed
    BY <1>2, MailboxAssumption DEF JobSort, Messages, LanTakes, ShareTakes, Files, Lan
  <2>2. PICK confirms \in BOOLEAN : TakeIn(m, confirms) /\ (confirms => m.name # "cancel")
    <3>1. Confirms(m) \in BOOLEAN /\ (Confirms(m) => m.name # "cancel")
      BY DEF Confirms
    <3> QED
      BY <1>2, <3>1 DEF LanTakes, ShareTakes
  <2>3. (IF confirms THEN paired ELSE <<>>) \in Backs /\ paired \in [Computers -> Keys \cup {0}]
    BY DEF Backs, MailboxTypeOK
  <2>4. FirstWrite(m, confirms) \in {"back", "tomb", "write"}
    BY DEF FirstWrite
  <2>5. job' \in Jobs
    BY <2>1, <2>2, <2>3, <2>4 DEF TakeIn, Jobs, Slot, Stages
  <2>6. /\ job'.at = FirstWrite(m, confirms) /\ job'.name = m.name /\ job'.id = m.id
        /\ job'.back = IF confirms THEN paired ELSE <<>>
    BY <2>2 DEF TakeIn
  <2>7. JobSort'
    BY <2>1, <2>2, <2>3, <2>4, <2>5, <2>6 DEF TakeIn, JobSort, FirstWrite
  <2> QED
    BY <2>2, <2>7 DEF TakeIn, MailboxTypeOK, mailboxVars, slotVars, idVars, clockVars, historyVars
<1>3. ASSUME NEW m \in mail, AdbPushes(m) PROVE MailboxTypeOK' /\ JobSort'
  <2>1. m \in Messages /\ m.id \in Requests /\ m.id \in Slot
    BY DEF JobSort, Messages, Slot
  <2>2. mail' \subseteq mail \cup {Message("ready", m.id), Message("canceled", m.id)}
    BY <1>3 DEF AdbPushes
  <2>3. mail' \subseteq Messages
    BY <2>1, <2>2 DEF JobSort, Messages, Message, Broadcasts
  <2>4. told' \in [Requests -> {"unseen", "asked", "signed", "declined", "again"}]
    BY <1>3, <2>1 DEF AdbPushes, Offered, MailboxTypeOK, historyVars
  <2>5. MailboxTypeOK'
    BY <1>3, <2>1, <2>4 DEF AdbPushes, MailboxTypeOK, idVars, clockVars, historyVars
  <2> QED
    BY <1>3, <2>3, <2>5 DEF AdbPushes, JobSort
<1>4. CASE JobWritesBack \/ JobRemembers
  <2>1. job.at \in {"back", "tomb"} /\ job.id \in Requests
    BY <1>4 DEF JobWritesBack, JobRemembers, JobSort
  <2>2. CASE JobWritesBack
    <3>1. job.back \in [Computers -> Keys \cup {0}]
      BY <2>2 DEF JobWritesBack, JobSort
    <3> QED
      BY <1>1, <2>1, <2>2, <3>1, JobMoves DEF JobWritesBack, MailboxTypeOK, slotVars, clockVars, historyVars
  <2>3. CASE JobRemembers
    <3>1. job.id \in Share
      BY <2>3 DEF JobRemembers, JobSort
    <3>2. tombs' \subseteq Share
      BY <2>3, <3>1 DEF JobRemembers, Tombs, Pruned, MailboxTypeOK
    <3>3. MailboxTypeOK'
      BY <2>3, <3>2 DEF JobRemembers, MailboxTypeOK, idVars, clockVars, historyVars
    <3> QED
      BY <1>1, <2>1, <2>3, <3>3, JobMoves DEF JobRemembers
  <2> QED
    BY <1>4, <2>2, <2>3
<1>5. CASE JobWrites
  <2>1. job.id \in Requests /\ job.id \in Slot
    BY <1>5 DEF JobWrites, JobSort, Slot
  <2>2. tombs' \subseteq Share
    BY <1>5 DEF JobWrites, Pruned, MailboxTypeOK
  <2>3. told' \in [Requests -> {"unseen", "asked", "signed", "declined", "again"}]
    BY <1>5, <2>1 DEF JobWrites, Offered, MailboxTypeOK, historyVars
  <2>4. MailboxTypeOK'
    BY <1>5, <2>1, <2>2, <2>3 DEF JobWrites, MailboxTypeOK, idVars, clockVars, historyVars
  <2>5. JobSort'
    BY <1>5, JobMoves DEF JobWrites
  <2> QED
    BY <1>1, <2>4, <2>5
<1>6. CASE JobChecks \/ JobPosts
  <2>1. job.id \in Requests /\ job.at \notin {"free", "back"}
    BY <1>6 DEF JobChecks, JobPosts, JobSort
  <2>2. MailboxTypeOK'
    BY <1>6, <2>1 DEF JobChecks, JobPosts, Refreshes, Announced, MailboxTypeOK, slotVars, idVars, clockVars,
       historyVars
  <2>3. job' = NoJob \/ job' = [job EXCEPT !.at = "post"]
    BY <1>6, Zenon DEF JobChecks, JobPosts
  <2> QED
    BY <1>1, <1>6, <2>1, <2>2, <2>3, JobMoves DEF JobChecks, JobPosts
<1>7. CASE Aside
  <2>1. mail' \subseteq Messages /\ svcKey' \in Keys
    BY <1>7 DEF Aside, Calls, JobSort, MailboxTypeOK
  <2> QED
    BY <1>1, <1>7, <2>1 DEF Aside, MailboxTypeOK, JobSort, slotVars, idVars, clockVars, historyVars
<1>8. mail \subseteq Messages
  BY DEF JobSort
<1> QED
  BY <1>1, <1>2, <1>3, <1>4, <1>5, <1>6, <1>7, <1>8, ServiceSteps

\* and the computers,
LEMMA SortsOfHosts == ASSUME Sorts, HostNext PROVE Sorts'
<1> USE DEF Sorts
<1> SUFFICES ASSUME NEW r \in Requests, Ask(r) \/ HostReads(r) \/ HostWithdraws(r) \/ Expire(r)
             PROVE  Sorts'
  BY DEF HostNext
<1>1. \A name \in Files : Message(name, r) \in Messages
  BY DEF Message, Messages
<1>2. AppSort'
  BY DEF Ask, HostReads, HostWithdraws, Expire, AppSort, appVars, screenVars, pollVars, mailboxVars, idVars
<1>3. SentSort'
  BY DEF Ask, HostReads, HostWithdraws, Expire, SentTo, SentSort
<1>4. JobSort'
  BY <1>1 DEF Ask, HostReads, HostWithdraws, Expire, JobSort, serviceVars, Files
<1>5. \A k \in 1..key : k \in Keys
  BY MailboxAssumption DEF MailboxTypeOK, Keys
<1>6. Approved(r) \subseteq Keys \cup {0}
  BY MailboxAssumption DEF Approved, Keys, MailboxTypeOK, Mine
<1>7. MailboxTypeOK'
  <2>1. CASE Ask(r)
    BY <2>1, <1>5, <1>6 DEF Ask, MailboxTypeOK, slotVars, idVars, historyVars
  <2>2. CASE HostReads(r) \/ HostWithdraws(r) \/ Expire(r)
    BY <2>2 DEF HostReads, HostWithdraws, Expire, MailboxTypeOK, mailboxVars, slotVars, idVars, historyVars, clockVars
  <2> QED
    BY <2>1, <2>2
<1> QED
  BY <1>2, <1>3, <1>4, <1>7

\* and a handler that may answer the request on screen, and writes no other slot,
LEMMA SortsOfAnswers ==
  ASSUME Sorts, UNCHANGED sent,
         PollRead \/ PollRest \/ TapApprove \/ ShowPrompt \/ Decline \/ OnStop \/ Fingerprint
  PROVE  Sorts'
<1> USE DEF Sorts
<1>1. KeepsMail /\ UNCHANGED <<appKey, tapped, intents, wiping, kills>>
  BY Zenon DEF PollRead, PollRest, TapApprove, ShowPrompt, Decline, OnStop, Fingerprint, pollVars
<1>2. JobSort'
  BY <1>1 DEF KeepsMail, serviceVars, JobSort
<1> DEFINE Typed ==
      /\ response' \in [id : Slot, status : Statuses]
      /\ paired' \in [Computers -> Keys \cup {0}]
      /\ told' \in [Requests -> {"unseen", "asked", "signed", "declined", "again"}]
      /\ note' \subseteq Requests
      /\ pending' \in Slot /\ attempt' \in {"no", "begun", "prompt"}
      /\ attempt' # "no" => pending' # NoRequest
<1>3. Typed
  <2>1. ASSUME NEW status \in {"declined", "replaced"}, Cancels(status) PROVE Typed
    BY <2>1, CancelsTyped
  <2>2. CASE /\ UNCHANGED <<response, paired, told, pending>> /\ note' \subseteq note
             /\ attempt' \in {attempt, "begun", "prompt"}
             /\ attempt' # attempt => pending # NoRequest
    <3>1. pending' \in Slot /\ attempt' \in {"no", "begun", "prompt"}
      BY <2>2 DEF AppSort
    <3>2. attempt' # "no" => pending' # NoRequest
      BY <2>2 DEF AppSort
    <3> QED
      BY <2>2, <3>1, <3>2 DEF MailboxTypeOK
  <2>3. CASE Fingerprint /\ ~Stops
    <3>1. Respond(pending, "signed") /\ note' = note \ {pending} /\ pending' = NoRequest /\ attempt' = "no"
      BY <2>3 DEF Fingerprint
    <3>2. pending \in Requests
      BY <2>3 DEF Fingerprint, AppSort, Slot
    <3> QED
      BY <3>1, <3>2, ResponseTyped DEF MailboxTypeOK, Slot
  <2>4. CASE PollRead
    BY <2>1, <2>2, <2>4 DEF PollRead
  <2>5. CASE PollRest
    BY <2>1, <2>2, <2>5 DEF PollRest
  <2>6. CASE TapApprove \/ ShowPrompt
    BY <2>1, <2>2, <2>6 DEF TapApprove, ShowPrompt, AppSort
  <2>7. CASE Decline \/ OnStop
    BY <2>1, <2>2, <2>7 DEF Decline, OnStop
  <2>8. CASE Fingerprint /\ Stops
    BY <2>1, <2>8 DEF Fingerprint
  <2> QED
    BY <2>3, <2>4, <2>5, <2>6, <2>7, <2>8
<1>4. MailboxTypeOK'
  BY <1>1, <1>3 DEF KeepsMail, clockVars, MailboxTypeOK
<1>5. {awaiting', seen', opened', envelope'} \subseteq Slot /\ polling' \in {"no", "look", "rest"}
  BY DEF PollRead, PollRest, TapApprove, ShowPrompt, Decline, OnStop, Fingerprint, pollVars, AppSort,
     MailboxTypeOK, Slot
<1>6. AppSort'
  <2>1. key' = key
    BY <1>1 DEF KeepsMail
  <2>2. attempt' # "no" => visible'
    <3>1. CASE OnStop
      BY <3>1 DEF OnStop, Cancels, AppSort
    <3>2. CASE Fingerprint
      BY <3>2 DEF Fingerprint, Cancels, AppSort
    <3>3. CASE Decline \/ TapApprove \/ ShowPrompt
      BY <3>3 DEF Decline, TapApprove, ShowPrompt, Cancels, AppSort
    <3>4. CASE PollRead \/ PollRest
      BY <3>4 DEF PollRead, PollRest, Cancels, AppSort
    <3> QED
      BY <3>1, <3>2, <3>3, <3>4
  <2>3. polling' = "look" => pending' = NoRequest
    BY DEF PollRead, PollRest, TapApprove, ShowPrompt, Decline, OnStop, Fingerprint, pollVars, Idle, Cancels
  <2> QED
    BY <1>1, <1>3, <1>5, <2>1, <2>2, <2>3 DEF AppSort
<1> QED
  BY <1>2, <1>4, <1>6 DEF SentSort

\* and the other handlers and the death of the process.
LEMMA SortsOfApp == ASSUME Sorts, UNCHANGED sent, AppNext PROVE Sorts'
<1> USE DEF Sorts
<1>1. SentSort'
  BY DEF SentSort
<1>2. CASE OnStart \/ Recreate \/ OnNewIntent \/ TurnOn \/ TurnOff \/ OnDestroy
  <2>1. UNCHANGED mailboxVars
    BY <1>2, Zenon DEF OnStart, Recreate, OnNewIntent, TurnOn, TurnOff, OnDestroy, StopListening
  <2>2. MailboxTypeOK'
    BY <2>1 DEF mailboxVars, slotVars, idVars, clockVars, historyVars, MailboxTypeOK
  <2>3. JobSort'
    BY <1>2 DEF OnStart, Recreate, OnNewIntent, TurnOn, TurnOff, OnDestroy, StopListening, serviceVars, JobSort
  <2>4. key' = key
    BY <2>1 DEF mailboxVars, idVars
  <2>5. AppSort'
    <3>1. CASE OnStart \/ Recreate \/ OnNewIntent
      BY <2>4, <3>1 DEF OnStart, Recreate, Created, OnNewIntent, AppSort, MailboxTypeOK, Slot, screenVars,
         pollVars
    <3>2. CASE UNCHANGED appVars
      BY <2>4, <3>2 DEF AppSort, appVars, screenVars, pollVars
    <3> QED
      BY <1>2, <3>1, <3>2 DEF TurnOn, TurnOff, OnDestroy
  <2> QED
    BY <1>1, <2>2, <2>3, <2>5
<1>3. ASSUME NEW r \in Requests, TapNotification(r) PROVE Sorts'
  <2>1. MailboxTypeOK'
    BY <1>3 DEF TapNotification, MailboxTypeOK, slotVars, idVars, clockVars, historyVars
  <2>2. JobSort' /\ AppSort'
    BY <1>3 DEF TapNotification, JobSort, AppSort, serviceVars, screenVars, pollVars, idVars, Slot
  <2> QED
    BY <1>1, <2>1, <2>2
<1>4. CASE PollLook
  <2>1. MailboxTypeOK'
    BY <1>4 DEF PollLook, MailboxTypeOK, slotVars, idVars, clockVars, historyVars
  <2>2. JobSort'
    BY <1>4 DEF PollLook, JobSort, serviceVars
  <2>3. key' = key /\ attempt' = attempt
    BY <1>4 DEF PollLook, idVars
  <2>4. {pending', awaiting', opened'} \subseteq Slot /\ polling' \in {"no", "rest"}
    BY <1>4 DEF PollLook, AppSort, Slot
  <2>5. AppSort'
    BY <1>4, <2>3, <2>4 DEF PollLook, AppSort, Slot
  <2> QED
    BY <1>1, <2>1, <2>2, <2>5
<1>5. CASE ResetKey
  <2>1. MailboxTypeOK'
    <3>1. CASE pending = NoRequest
      BY <1>5, <3>1 DEF ResetKey, MailboxTypeOK, clockVars
    <3>2. CASE pending # NoRequest
      <4>1. pending \in Requests /\ Respond(pending, "declined")
        BY <1>5, <3>2 DEF ResetKey, AppSort, Slot
      <4>2. /\ response' \in [id : Slot, status : Statuses]
            /\ paired' \in [Computers -> Keys \cup {0}]
            /\ told' \in [Requests -> {"unseen", "asked", "signed", "declined", "again"}]
        BY <4>1, ResponseTyped
      <4> QED
        BY <1>5, <4>2 DEF ResetKey, MailboxTypeOK, clockVars
    <3> QED
      BY <3>1, <3>2
  <2>2. JobSort'
    BY <1>5 DEF ResetKey, JobSort
  <2>3. AppSort'
    BY <1>5 DEF ResetKey, AppSort, Slot, pollVars
  <2> QED
    BY <1>1, <2>1, <2>2, <2>3
<1>6. CASE WipeStep
  <2>1. wiping \in 1..7 /\ (Wipes[wiping] = "key" <=> wiping = 1)
    BY <1>6, WipesAre DEF WipeStep, Busy, AppSort
  <2>2. key' \in Keys
    BY <1>6, <2>1, MailboxAssumption DEF WipeStep, AppSort, MailboxTypeOK, Keys
  <2>3. {request', receipt', cancel'} \subseteq Slot /\ response' \in [id : Slot, status : Statuses]
    BY <1>6 DEF WipeStep, Wipe, MailboxTypeOK, Slot, Statuses, NoResponse
  <2>4. MailboxTypeOK'
    BY <1>6, <2>2, <2>3 DEF WipeStep, MailboxTypeOK, clockVars, historyVars
  <2>5. JobSort'
    BY <1>6 DEF WipeStep, JobSort, serviceVars
  <2>6. wiping' \in 0..7 /\ wiping' # 1 /\ appKey' \in Keys \cup {0}
    BY <1>6, <2>1, WipesAre DEF WipeStep, AppSort, MailboxTypeOK
  <2>7. AppSort'
    BY <1>6, <2>6 DEF WipeStep, AppSort, screenVars, pollVars
  <2> QED
    BY <1>1, <2>4, <2>5, <2>7
<1>7. CASE Kill
  <2>1. paired' \in [Computers -> Keys \cup {0}]
    <3>1. attempt = "prompt" => pending \in Requests /\ ComputerOf[pending] \in Computers
      BY MailboxAssumption DEF AppSort, Slot
    <3> QED
      BY <1>7, <3>1 DEF Kill, Pairs, MailboxTypeOK
  <2>2. MailboxTypeOK'
    BY <1>7, <2>1 DEF Kill, MailboxTypeOK, slotVars, clockVars, historyVars
  <2>3. NoJob \in Jobs
    BY DEF NoJob, Jobs, Files, Slot, Backs, Stages
  <2>4. JobSort'
    BY <1>7, <2>3 DEF Kill, JobSort, NoJob
  <2>5. AppSort'
    BY <1>7, AppAssumption DEF Kill, Created, AppSort, Slot
  <2> QED
    BY <1>1, <2>2, <2>4, <2>5
<1> QED
  BY <1>2, <1>3, <1>4, <1>5, <1>6, <1>7, SortsOfAnswers DEF AppNext, Poll

\* Types hold at first,
LEMMA TypesStart == Init => Types
<1> SUFFICES ASSUME Init PROVE Types
  OBVIOUS
<1>1. Flags
  BY Zenon DEF Init, ServiceInit, AppInit, Flags
<1>2. MailboxTypeOK /\ SentSort
  BY MailboxAssumption DEF Init, MailboxInit, MailboxTypeOK, SentSort, Keys, Slot, NoResponse, Statuses
<1>3. JobSort
  BY MailboxAssumption DEF Init, ServiceInit, JobSort, NoJob, Jobs, Files, Slot, Stages, Backs, Keys
<1>4. AppSort
  BY MailboxAssumption, AppAssumption DEF Init, AppInit, AppSort, Keys, Slot
<1> QED
  BY <1>1, <1>2, <1>3, <1>4 DEF Types

\* and every step keeps them.
LEMMA TypesKeep == Types /\ [Next]_vars => Types'
<1> SUFFICES ASSUME Types, [Next]_vars PROVE Types'
  OBVIOUS
<1>1. Flags'
  BY FlagsKeep DEF Types
<1>2. Sorts
  BY DEF Types, Sorts
<1>3. ASSUME UNCHANGED vars PROVE Sorts'
  BY <1>2, <1>3 DEF vars, phoneVars, mailboxVars, slotVars, idVars, clockVars, historyVars, serviceVars,
     appVars, screenVars, pollVars, Sorts, MailboxTypeOK, JobSort, AppSort, SentSort
<1>4. Sorts'
  BY <1>2, <1>3, SortsOfService, SortsOfHosts, SortsOfApp DEF Next
<1> QED
  BY <1>1, <1>4 DEF Types, Sorts

-----------------------------------------------------------------------------
(* The screen.                                                             *)

\* It holds before the app is opened,
LEMMA ScreenStarts == Init => Screen
  BY DEF Init, MailboxInit, ServiceInit, AppInit, Screen, Busy

\* and every step keeps it.
LEMMA ScreenKeeps ==
  ASSUME Types, Screen, [Next]_vars PROVE Screen'
<1> USE DEF Screen, Busy, Idle
<1>1. Sorts
  BY DEF Types, Sorts
<1>2. AppSort /\ key \in Nat
  BY MailboxAssumption DEF Types, MailboxTypeOK, Keys
<1>3. CASE UNCHANGED appVars /\ key' = key
  BY <1>3 DEF appVars, screenVars, pollVars
<1>4. CASE ServiceNext /\ UNCHANGED <<appVars, sent>>
  <2>1. key' = key
    BY <1>4 DEF ServiceNext, LanTakes, ShareTakes, TakeIn, AdbPushes, Received, ReceiverPosts, JobStep,
       JobWritesBack, JobRemembers, JobWrites, JobChecks, JobPosts, Listen, idVars, mailboxVars
  <2> QED
    BY <1>3, <1>4, <2>1
<1>5. CASE HostNext
  BY <1>3, <1>5 DEF HostNext, Ask, HostReads, HostWithdraws, Expire, mailboxVars, idVars
<1>6. CASE UNCHANGED vars
  BY <1>3, <1>6 DEF vars, phoneVars, mailboxVars, idVars
<1>7. CASE AppNext
  <2>1. CASE OnStart \/ Recreate \/ OnNewIntent \/ TurnOn \/ TurnOff \/ OnDestroy
    BY <1>2, <2>1 DEF Created, OnStart, Recreate, OnNewIntent, TurnOn, TurnOff, OnDestroy, StopListening, appVars,
       screenVars, pollVars, mailboxVars, idVars
  <2>2. ASSUME NEW r \in Requests, TapNotification(r) PROVE Screen'
    BY <2>2 DEF TapNotification, screenVars, pollVars, idVars
  <2>3. CASE Kill
    BY <2>3, <1>2 DEF Kill, mailboxVars, idVars
  <2>4. CASE ResetKey
    BY <2>4, <1>2 DEF ResetKey, pollVars
  <2>5. CASE WipeStep
    <3>1. wiping \in 1..7 /\ Len(Wipes) = 7 /\ Wipes[7] # "key" /\ polling = "no" /\ pending = NoRequest
      BY <1>2, <2>5, WipesAre DEF WipeStep, AppSort
    <3> QED
      BY <1>2, <2>5, <3>1 DEF WipeStep, screenVars, pollVars
  <2>6. CASE PollLook
    BY <2>6, <1>2 DEF PollLook, AppSort, idVars
  <2>7. CASE PollRead
    BY <2>7, <1>2 DEF PollRead, KeepsMail, Cancels, AppSort
  <2>8. CASE PollRest
    BY <2>8, <1>2 DEF PollRest, KeepsMail, Cancels, AppSort
  <2>9. CASE TapApprove \/ ShowPrompt \/ Decline \/ OnStop \/ Fingerprint
    BY <2>9, <1>2 DEF TapApprove, ShowPrompt, Decline, OnStop, Fingerprint, KeepsMail, pollVars,
       Cancels, AppSort
  <2> QED
    BY <1>7, <2>1, <2>2, <2>3, <2>4, <2>5, <2>6, <2>7, <2>8, <2>9 DEF AppNext, Poll
<1> QED
  BY <1>4, <1>5, <1>6, <1>7 DEF Next

-----------------------------------------------------------------------------
(* What a step can do to the requests.                                     *)

Said == {"signed", "declined", "replaced"}

\* The request on screen is answered, and leaves it; signed only under the lock and
\* after a last look at the withdrawal.
Answering(status) ==
  /\ pending \in Requests /\ Respond(pending, status) /\ pending' = NoRequest
  /\ status = "signed" => job = NoJob /\ cancel # pending

\* Nothing is answered.
Quiet == UNCHANGED <<told, response, paired>> /\ pending' \in {pending, NoRequest}

\* The process dies when an enrolment is approved and the answer not yet written.
HalfSigned ==
  /\ pending \in Requests /\ Pairs(pending) /\ job = NoJob
  /\ UNCHANGED <<told, response>> /\ pending' = NoRequest

\* The rest of what such a handler may change.
Handles ==
  /\ UNCHANGED <<request, key, bound>> /\ mail' \subseteq mail
  /\ job' \in {job, NoJob}
  /\ polling' = "look" => \/ polling = "look" /\ envelope' = envelope
                          \/ envelope' = request /\ request # NoRequest
  /\ wiping' \in {wiping, 0, 1}

\* cancel() answers or does nothing.
LEMMA CancelsAnswers ==
  ASSUME AppSort, NEW status \in {"declined", "replaced"}, Cancels(status)
  PROVE  (\E s \in Said : Answering(s)) \/ Quiet
<1>1. CASE pending = NoRequest
  BY <1>1 DEF Cancels, Quiet
<1>2. CASE pending # NoRequest
  <2>1. Answering(status)
    BY <1>2 DEF Cancels, Answering, AppSort, Slot
  <2> QED
    BY <2>1 DEF Said
<1> QED
  BY <1>1, <1>2

\* Every handler but the second look of a poll and the wipe is one of the two.
LEMMA Handlers ==
  ASSUME Types, AppNext
  PROVE  \/ Handles /\ ((\E s \in Said : Answering(s)) \/ Quiet \/ HalfSigned)
         \/ PollLook \/ WipeStep
<1>1. AppSort
  BY DEF Types
<1>2. CASE OnStart \/ Recreate \/ OnNewIntent \/ TurnOn \/ TurnOff \/ OnDestroy
  BY <1>2 DEF OnStart, Recreate, OnNewIntent, TurnOn, TurnOff, OnDestroy, StopListening, Idle, Handles, Quiet, mailboxVars, slotVars, idVars, clockVars, historyVars, serviceVars, appVars,
     screenVars, pollVars
<1>3. ASSUME NEW r \in Requests, TapNotification(r) PROVE Handles /\ Quiet
  BY <1>3 DEF TapNotification, Handles, Quiet, slotVars, idVars, clockVars, historyVars, serviceVars,
     screenVars, pollVars
<1>4. CASE ResetKey
  <2>1. Handles
    BY <1>4 DEF ResetKey, Handles, Idle, clockVars, pollVars
  <2>2. CASE pending = NoRequest
    BY <1>4, <2>1, <2>2 DEF ResetKey, Quiet
  <2>3. CASE pending # NoRequest
    <3>1. Answering("declined")
      BY <1>1, <1>4, <2>3 DEF ResetKey, Answering, AppSort, Slot
    <3> QED
      BY <2>1, <3>1 DEF Said
  <2> QED
    BY <2>2, <2>3
<1>5. ASSUME TapApprove \/ ShowPrompt \/ Decline \/ OnStop \/ Fingerprint \/ PollRead \/ PollRest
      PROVE  Handles
  BY <1>5 DEF TapApprove, ShowPrompt, Decline, OnStop, Fingerprint, PollRead, PollRest, Handles, Idle,
     KeepsMail, clockVars, serviceVars, pollVars
<1>6. ASSUME UNCHANGED <<pending, response, paired, told>> PROVE Quiet
  BY <1>6 DEF Quiet
<1>7. CASE TapApprove \/ ShowPrompt \/ Decline \/ OnStop
  BY <1>1, <1>5, <1>6, <1>7, CancelsAnswers DEF TapApprove, ShowPrompt, Decline, OnStop
<1>8. CASE PollRead \/ PollRest
  BY <1>1, <1>5, <1>6, <1>8, CancelsAnswers DEF PollRead, PollRest
<1>9. CASE Fingerprint
  <2>1. CASE Stops
    BY <1>1, <1>5, <1>9, <2>1, CancelsAnswers DEF Fingerprint
  <2>2. CASE ~Stops
    <3>1. Answering("signed")
      BY <1>1, <1>9, <2>2 DEF Fingerprint, LockFree, Stops, Answering, AppSort, Slot
    <3> QED
      BY <1>5, <1>9, <3>1 DEF Said
  <2> QED
    BY <2>1, <2>2
<1>10. CASE Kill
  <2>1. Handles
    BY <1>10 DEF Kill, Handles, slotVars, clockVars
  <2>2. (UNCHANGED paired => Quiet) /\ (~UNCHANGED paired => HalfSigned)
    BY <1>1, <1>10 DEF Kill, Quiet, HalfSigned, AppSort, Slot, LockFree, slotVars, historyVars
  <2> QED
    BY <2>1, <2>2
<1> QED
  BY <1>2, <1>3, <1>4, <1>7, <1>8, <1>9, <1>10 DEF AppNext, Poll

\* A request comes into the slot, to be put to the user; if it was answered before, it
\* is one that is repeated, and another had its slot.
Arrives(r) ==
  /\ Offered(r) /\ request' = r
  /\ told[r] \in {"signed", "declined"} => r \in Repeats /\ request # r

\* The threads that take mail in put a request before the user, or leave it alone.
LEMMA Deliveries ==
  ASSUME Types, Arrivals, ServiceNext
  PROVE  /\ UNCHANGED <<response, key, bound>>
         /\ \/ \E r \in Requests : Arrives(r)
            \/ UNCHANGED <<told, request>>
<1>1. ASSUME NEW m \in mail, LanTakes(m) \/ ShareTakes(m)
      PROVE  UNCHANGED <<response, key, bound, told, request>>
  BY <1>1 DEF LanTakes, ShareTakes, TakeIn, mailboxVars, slotVars, idVars, clockVars, historyVars
<1>2. ASSUME NEW m \in mail, AdbPushes(m)
      PROVE  /\ UNCHANGED <<response, key, bound>>
             /\ \/ m.id \in Requests /\ Arrives(m.id)
                \/ UNCHANGED <<told, request>>
  <2>1. m.id \in Requests /\ m = Message(m.name, m.id) /\ m.id \notin Repeats
    BY <1>2, MailboxAssumption DEF Types, JobSort, Messages, Message, AdbPushes
  <2>2. m.name = "request" => told[m.id] = "unseen"
    BY <2>1 DEF Arrivals, Once, Coming
  <2> QED
    BY <1>2, <2>1, <2>2 DEF AdbPushes, Arrives, idVars, clockVars, historyVars
<1>3. ASSUME JobWrites
      PROVE  /\ UNCHANGED <<response, key, bound>>
             /\ \/ job.id \in Requests /\ Arrives(job.id)
                \/ UNCHANGED <<told, request>>
  <2>1. job.id \in Requests /\ job.at = "write"
    BY <1>3 DEF JobWrites, Types, JobSort
  <2>2. job.name = "request" => request # job.id /\ (job.id \notin Repeats => told[job.id] = "unseen")
    BY <2>1 DEF Arrivals, Once, Coming, Arriving, Writing
  <2> QED
    BY <1>3, <2>1, <2>2 DEF JobWrites, Arrives, idVars, clockVars, historyVars
<1>4. CASE JobWritesBack \/ JobRemembers \/ JobChecks \/ JobPosts
  BY <1>4 DEF JobWritesBack, JobRemembers, JobChecks, JobPosts, slotVars, idVars, clockVars, historyVars
<1>5. CASE Aside
  BY <1>5 DEF Aside, slotVars, idVars, clockVars, historyVars
<1>6. mail \subseteq Messages
  BY DEF Types, JobSort
<1> QED
  BY <1>1, <1>2, <1>3, <1>4, <1>5, <1>6, ServiceSteps

\* The computers touch nothing of it.
LEMMA HostsApart ==
  ASSUME HostNext
  PROVE  UNCHANGED <<response, key, told, request, paired, job, appVars>>
  BY DEF HostNext, Ask, HostReads, HostWithdraws, Expire, mailboxVars, slotVars, idVars, historyVars,
     serviceVars

-----------------------------------------------------------------------------
(* Each part of the invariant is kept.                                     *)

\* Nothing has been sent at first.
LEMMA ArrivalsStart == Init => Arrivals
<1> SUFFICES ASSUME Init, NEW r \in Requests PROVE Once(r)
  BY DEF Arrivals
<1>1. mail = {} /\ told[r] = "unseen"
  BY DEF Init, MailboxInit, ServiceInit
<1>2. job.at = "free" /\ job.id = NoRequest
  BY DEF Init, ServiceInit, NoJob
<1> QED
  BY <1>1, <1>2, MailboxAssumption DEF Once, Coming, Arriving

\* On the phone a request only comes nearer to the user.
LEMMA ArrivalsOfService ==
  ASSUME Types, Arrivals, ServiceNext, UNCHANGED <<appVars, sent>> PROVE Arrivals'
<1> SUFFICES ASSUME NEW r \in Requests PROVE Once(r)'
  BY DEF Arrivals
<1> USE DEF Once, Coming, Arriving, Writing
<1>1. /\ Once(r) /\ told \in [Requests -> {"unseen", "asked", "signed", "declined", "again"}]
      /\ mail \subseteq Messages /\ sent' = sent /\ NoRequest \notin Requests
  BY MailboxAssumption DEF Arrivals, Types, MailboxTypeOK, JobSort
<1>2. ASSUME NEW m \in mail, LanTakes(m) \/ ShareTakes(m) PROVE Once(r)'
  <2>1. /\ UNCHANGED <<told, request>> /\ job'.name = m.name /\ job'.id = m.id /\ mail' \subseteq mail
        /\ m.id \notin Repeats => mail' = mail \ {m}
        /\ m.name = "request" => request # m.id
    BY <1>2 DEF LanTakes, ShareTakes, MayEnter, TakeIn, mailboxVars, slotVars, historyVars
  <2>2. m.id \in Requests /\ m = Message(m.name, m.id)
    BY <1>1 DEF Messages, Message
  <2> QED
    BY <1>1, <2>1, <2>2
<1>3. ASSUME NEW m \in mail, AdbPushes(m) PROVE Once(r)'
  <2>1. m.id \in Requests \cap Pushed /\ m = Message(m.name, m.id)
    BY <1>1, <1>3 DEF Messages, Message, AdbPushes
  <2>2. /\ mail' \subseteq (mail \ {m}) \cup {Message("ready", m.id), Message("canceled", m.id)}
        /\ job' = job
    BY <1>3 DEF AdbPushes
  <2>3. /\ m.name = "request" => request' = m.id /\ Offered(m.id)
        /\ m.name # "request" => UNCHANGED <<request, told>>
    BY <1>3 DEF AdbPushes, historyVars
  <2>4. Arriving(r) => r # m.id
    BY <2>1 DEF Types, JobSort
  <2>5. sent[m.id] # "new"
    BY <2>1 DEF Arrivals
  <2>6. told'[r] = told[r] \/ (r = m.id /\ m.name = "request")
    BY <1>1, <2>1, <2>3 DEF Offered
  <2>7. Message("request", r) \in mail' => Message("request", r) \in mail \ {m}
    BY <2>2 DEF Message
  <2>8. sent[r] = "new" => \A n \in mail' : n.id # r
    BY <1>1, <2>1, <2>2, <2>5 DEF Message
  <2> QED
    BY <1>1, <2>1, <2>2, <2>3, <2>4, <2>5, <2>6, <2>7, <2>8
<1>4. CASE JobWritesBack \/ JobRemembers
  <2>1. UNCHANGED <<mail, told, request>>
    BY <1>4 DEF JobWritesBack, JobRemembers, slotVars, historyVars
  <2>2. job'.name = job.name /\ job'.id = job.id /\ job.at \in {"back", "tomb"}
    BY <1>4 DEF JobWritesBack, JobRemembers, Types, JobSort, Jobs
  <2> QED
    BY <1>1, <2>1, <2>2
<1>5. CASE JobWrites
  <2>1. mail' = mail /\ job' \in {NoJob, [job EXCEPT !.at = "check"]} /\ job.at = "write" /\ job.id \in Requests
    BY <1>5 DEF JobWrites, Types, JobSort
  <2>2. /\ job.name = "request" => Offered(job.id)
        /\ job.name # "request" => told' = told
    BY <1>5 DEF JobWrites, historyVars
  <2>3. ~Arriving(r)' /\ job'.id \in {job.id, NoRequest}
    BY <2>1 DEF NoJob, Types, JobSort, Jobs
  <2>4. told'[r] = told[r] \/ (r = job.id /\ Arriving(r))
    BY <1>1, <2>1, <2>2 DEF Offered
  <2> QED
    BY <1>1, <2>1, <2>3, <2>4
<1>6. CASE JobChecks \/ JobPosts
  <2>1. UNCHANGED <<mail, told>>
    BY <1>6 DEF JobChecks, JobPosts, historyVars
  <2>2. job' = NoJob \/ job' = [job EXCEPT !.at = "post"]
    BY <1>6, Zenon DEF JobChecks, JobPosts
  <2>3. ~Arriving(r)' /\ job'.id \in {job.id, NoRequest}
    BY <2>2 DEF NoJob, Types, JobSort, Jobs
  <2> QED
    BY <1>1, <2>1, <2>3
<1>7. CASE Aside
  <2>1. UNCHANGED <<told, request, job>> /\ mail' \subseteq mail \cup Calls
    BY <1>7 DEF Aside, slotVars, historyVars
  <2>2. Message("request", r) \in mail' => Message("request", r) \in mail
    BY <2>1 DEF Calls, Message, Broadcasts
  <2>3. sent[r] = "new" => \A n \in mail' : n.id # r
    BY <1>1, <2>1 DEF Calls
  <2> QED
    BY <1>1, <2>1, <2>2, <2>3
<1> QED
  BY <1>1, <1>2, <1>3, <1>4, <1>5, <1>6, <1>7, ServiceSteps

\* A computer asks once.
LEMMA ArrivalsOfHosts == ASSUME Types, Arrivals, HostNext PROVE Arrivals'
<1> SUFFICES ASSUME NEW r \in Requests, NEW q \in Requests,
                    Ask(q) \/ HostReads(q) \/ HostWithdraws(q) \/ Expire(q)
             PROVE  Once(r)'
  BY DEF Arrivals, HostNext
<1> USE DEF Once, Coming, Arriving, Writing, Message
<1>1. Once(r) /\ Once(q) /\ UNCHANGED <<job, told, request>>
  BY HostsApart DEF Arrivals, HostNext
<1>2. sent \in [Requests -> {"new", "asked", "refused", "withdrawn", "confirmed"}]
  BY DEF Types, SentSort
<1>3. CASE Ask(q)
  BY <1>1, <1>2, <1>3 DEF Ask, SentTo
<1>4. CASE HostReads(q) \/ HostWithdraws(q)
  BY <1>1, <1>2, <1>4 DEF HostReads, HostWithdraws, SentTo
<1>5. CASE Expire(q)
  BY <1>1, <1>5 DEF Expire, serviceVars
<1> QED
  BY <1>3, <1>4, <1>5

\* Nothing is on its way that was asked.
LEMMA ArrivalsOfApp ==
  ASSUME Types, Screen, Arrivals, Answers, UNCHANGED sent, AppNext PROVE Arrivals'
<1> SUFFICES ASSUME NEW r \in Requests PROVE Once(r)'
  BY DEF Arrivals
<1> USE DEF Once, Coming, Arriving, Writing, Asked
<1>1. /\ Once(r) /\ told \in [Requests -> {"unseen", "asked", "signed", "declined", "again"}]
      /\ NoRequest \notin Requests
  BY MailboxAssumption DEF Arrivals, Types, MailboxTypeOK
<1>2. /\ mail' \subseteq mail /\ job' \in {job, NoJob} /\ request' \in {request, NoRequest}
      /\ told' = told \/ \E s \in Said : Answering(s)
  BY Handlers DEF Handles, Quiet, HalfSigned, PollLook, WipeStep, Wipe, slotVars, serviceVars, historyVars
<1>3. CASE told' = told
  BY <1>1, <1>2, <1>3 DEF NoJob
<1>4. ASSUME NEW s \in Said, Answering(s) PROVE Once(r)'
  <2>1. pending \in Requests /\ Asked(pending)
    BY <1>4, MailboxAssumption DEF Answering, Answers
  <2>2. \E what \in {"signed", "declined"} : told' = [told EXCEPT ![pending] = what]
    BY <1>4 DEF Answering, Respond
  <2> QED
    BY <1>1, <1>2, <2>1, <2>2, MailboxAssumption DEF NoJob
<1> QED
  BY <1>2, <1>3, <1>4

-----------------------------------------------------------------------------
\* Nothing has been answered at first.
LEMMA AnswersStart == Init => Answers
  BY MailboxAssumption DEF Init, MailboxInit, AppInit, Answers, Answered, Unanswered

\* A request that comes into the slot has no answer.
LEMMA AnswersOfService ==
  ASSUME Types, Screen, Arrivals, Answers, ServiceNext, UNCHANGED <<appVars, sent>> PROVE Answers'
<1> USE DEF Answers, Answered, Unanswered, Asked
<1>1. told \in [Requests -> {"unseen", "asked", "signed", "declined", "again"}]
  BY DEF Types, MailboxTypeOK
<1>2. UNCHANGED <<response, pending, polling, envelope, wiping>>
  BY Deliveries DEF appVars, screenVars, pollVars
<1>3. CASE UNCHANGED <<told, request>>
  BY <1>2, <1>3
<1>4. ASSUME NEW r \in Requests, Arrives(r) PROVE Answers'
  <2>1. request' = r /\ Asked(r)' /\ \A q \in Requests \ {r} : told'[q] = told[q]
    BY <1>1, <1>4 DEF Arrives, Offered
  <2>2. pending \in Slot /\ envelope \in Slot /\ (polling = "look" => envelope # NoRequest)
    BY DEF Types, AppSort, Screen
  <2>3. pending # NoRequest => Asked(pending)'
    BY <1>2, <2>1, <2>2 DEF Slot
  <2>4. polling = "look" => Answered(envelope)'
    BY <1>2, <2>1, <2>2 DEF Slot
  <2> QED
    BY <1>2, <2>1, <2>3, <2>4
<1> QED
  BY <1>3, <1>4, Deliveries

\* An answer goes to the slot of answers, and a reset deletes the request before it.
LEMMA AnswersOfApp ==
  ASSUME Types, Screen, Answers, AppNext PROVE Answers'
<1> USE DEF Answers, Answered, Unanswered, Asked
<1>1. /\ told \in [Requests -> {"unseen", "asked", "signed", "declined", "again"}]
      /\ request \in Slot /\ wiping \in 0..7
  BY DEF Types, MailboxTypeOK, AppSort
<1>2. CASE Handles /\ (Quiet \/ HalfSigned)
  BY <1>1, <1>2 DEF Handles, Quiet, HalfSigned
<1>3. ASSUME Handles, NEW s \in Said, Answering(s) PROVE Answers'
  <2>1. /\ pending \in Requests /\ Asked(pending) /\ wiping = 0
        /\ request # pending => Unanswered
    BY <1>3, MailboxAssumption DEF Answering, Screen, Busy
  <2>2. /\ response'.id = pending
        /\ \E what \in {"signed", "declined"} : told' = [told EXCEPT ![pending] = what]
    BY <1>3 DEF Answering, Respond
  <2>3. request # NoRequest => Answered(request)'
    BY <1>1, <1>3, <2>1, <2>2 DEF Handles
  <2>4. polling # "look"
    BY <2>1, MailboxAssumption DEF Types, AppSort
  <2> QED
    BY <1>1, <1>3, <2>1, <2>2, <2>3, <2>4 DEF Handles, Answering
<1>4. CASE PollLook
  <2>1. UNCHANGED <<told, response, request, wiping>> /\ polling' # "look" /\ polling = "look"
    BY <1>4 DEF PollLook, slotVars, historyVars
  <2>2. pending' \in {NoRequest, envelope}
    BY <1>4 DEF PollLook
  <2>3. pending' # NoRequest => pending' = envelope /\ response.id # envelope
    BY <1>4 DEF PollLook, Standing
  <2> QED
    BY <2>1, <2>2, <2>3
<1>5. CASE WipeStep
  <2>1. /\ wiping \in 1..7 /\ Len(Wipes) = 7
        /\ polling = "no" /\ pending = NoRequest
        /\ (Wipes[wiping] = "request" <=> wiping = 3) /\ (Wipes[wiping] = "response" <=> wiping = 4)
    BY <1>1, <1>5, WipesAre DEF WipeStep, Screen, Busy, Types, AppSort
  <2>2. UNCHANGED <<told, pending, polling>>
    BY <1>5 DEF WipeStep, historyVars, screenVars, pollVars
  <2>3. /\ request' = IF wiping = 3 THEN NoRequest ELSE request
        /\ response' = IF wiping = 4 THEN NoResponse ELSE response
        /\ wiping' = IF wiping < 7 THEN wiping + 1 ELSE 0
    BY <1>5, <2>1 DEF WipeStep, Wipe
  <2>4. CASE wiping = 3
    BY <2>1, <2>2, <2>3, <2>4
  <2>5. CASE wiping = 4
    BY <2>1, <2>2, <2>3, <2>5
  <2>6. CASE wiping \notin {3, 4}
    BY <2>1, <2>2, <2>3, <2>6
  <2> QED
    BY <2>4, <2>5, <2>6
<1> QED
  BY <1>2, <1>3, <1>4, <1>5, Handlers

-----------------------------------------------------------------------------
\* Every pairing is with the first key at first.
LEMMA PairedStarts == Init => Paired
  BY DEF Init, MailboxInit, ServiceInit, AppInit, NoJob, Paired

\* What a thread writes back is what it read, or what was there before the reset.
LEMMA PairedOfService ==
  ASSUME Types, Arrivals, Paired, ServiceNext, UNCHANGED <<appVars, sent>> PROVE Paired'
<1> USE DEF Paired, ForKey
<1>1. /\ paired \in [Computers -> Keys \cup {0}] /\ key \in Keys /\ Keys \subseteq Nat \ {0}
      /\ ComputerOf \in [Requests -> Computers] /\ pending \in Slot
  BY MailboxAssumption DEF Types, MailboxTypeOK, AppSort, Keys
<1>2. UNCHANGED <<key, bound, pending>>
  BY Deliveries DEF appVars, screenVars
<1>3. ASSUME NEW m \in mail, LanTakes(m) \/ ShareTakes(m) PROVE Paired'
  <2>1. paired' = paired /\ (job'.at = "back" => job'.back = paired)
    BY <1>3 DEF LanTakes, ShareTakes, TakeIn, FirstWrite, mailboxVars, idVars
  <2> QED
    BY <1>1, <1>2, <2>1
<1>4. ASSUME NEW m \in mail, AdbPushes(m) PROVE Paired'
  BY <1>1, <1>2, <1>4 DEF AdbPushes, idVars
<1>5. CASE JobWritesBack
  <2>1. job'.at # "back" /\ job.at = "back" /\ paired' = job.back
    BY <1>5 DEF JobWritesBack, Types, JobSort, Jobs
  <2>2. ASSUME pending # NoRequest PROVE ForKey(pending)'
    <3>1. pending \in Requests /\ ForKey(pending) /\ ComputerOf[pending] \in Computers
      BY <1>1, <2>2 DEF Slot
    <3>2. pending \notin Enrolls => paired # [c \in Computers |-> 0]
      BY <1>1, <3>1
    <3> QED
      BY <1>2, <2>1, <3>1, <3>2
  <2> QED
    BY <1>2, <2>1, <2>2
<1>6. CASE JobRemembers \/ JobWrites
  <2>1. paired' = paired /\ job' \in {NoJob, [job EXCEPT !.at = "write"], [job EXCEPT !.at = "check"]}
    BY <1>6 DEF JobRemembers, JobWrites, idVars
  <2>2. job'.at # "back"
    BY <2>1 DEF NoJob, Types, JobSort, Jobs
  <2> QED
    BY <1>2, <2>1, <2>2
<1>7. CASE JobChecks \/ JobPosts
  <2>1. paired' = paired
    BY <1>7 DEF JobChecks, JobPosts, idVars
  <2>2. job' = NoJob \/ job' = [job EXCEPT !.at = "post"]
    BY <1>7, Zenon DEF JobChecks, JobPosts
  <2>3. job'.at # "back"
    BY <2>2 DEF NoJob, Types, JobSort, Jobs
  <2> QED
    BY <1>2, <2>1, <2>3
<1>8. CASE Aside
  BY <1>2, <1>8 DEF Aside, idVars
<1>9. mail \subseteq Messages
  BY DEF Types, JobSort
<1> QED
  BY <1>3, <1>4, <1>5, <1>6, <1>7, <1>8, <1>9, ServiceSteps

\* A certificate is bound to a key when its request is made.
LEMMA PairedOfHosts ==
  ASSUME Types, Arrivals, Answers, Paired, HostNext PROVE Paired'
<1> USE DEF Paired, ForKey
<1>1. UNCHANGED <<key, paired, job, pending>>
  BY HostsApart DEF appVars, screenVars
<1>2. pending # NoRequest => bound'[pending] = bound[pending]
  <2> SUFFICES ASSUME pending # NoRequest, NEW r \in Requests, Ask(r) PROVE bound'[pending] = bound[pending]
    BY DEF HostNext, HostReads, HostWithdraws, Expire, mailboxVars, clockVars
  <2>1. sent[r] = "new" /\ Asked(pending)
    BY DEF Ask, Answers
  <2>2. r # pending
    BY <2>1 DEF Arrivals, Once, Asked
  <2> QED
    BY <2>2 DEF Ask, Types, MailboxTypeOK
<1> QED
  BY <1>1, <1>2

\* What is shown was valid for the present key when it was looked at.
LEMMA PairedOfApp ==
  ASSUME Types, Screen, Paired, AppNext PROVE Paired'
<1> USE DEF Paired, ForKey
<1>1. /\ paired \in [Computers -> Keys \cup {0}] /\ key \in Keys /\ Keys \subseteq Nat \ {0}
      /\ job.at = "back" => job.back \in [Computers -> Keys \cup {0}]
  BY MailboxAssumption DEF Types, MailboxTypeOK, AppSort, Keys, JobSort
<1>2. CASE Handles /\ Quiet
  BY <1>2 DEF Handles, Quiet, NoJob
<1>3. ASSUME Handles, (\E s \in Said : Answering(s)) \/ HalfSigned PROVE Paired'
  <2>1. UNCHANGED <<key, bound>> /\ job' \in {job, NoJob} /\ pending' = NoRequest /\ pending # NoRequest
    BY <1>3, MailboxAssumption DEF Handles, Answering, HalfSigned
  <2>2. CASE paired' = paired
    BY <2>1, <2>2 DEF NoJob
  <2>3. CASE paired' # paired
    <3>1. paired' = [paired EXCEPT ![ComputerOf[pending]] = bound[pending]] /\ job = NoJob
      BY <1>3, <2>3 DEF Answering, HalfSigned, Respond, Pairs
    <3>2. bound[pending] = key
      BY <2>1
    <3> QED
      BY <1>1, <2>1, <3>1, <3>2 DEF NoJob
  <2> QED
    BY <2>2, <2>3
<1>4. CASE PollLook
  <2>1. UNCHANGED <<key, paired, bound, job>> /\ polling = "look"
    BY <1>4 DEF PollLook, idVars, clockVars, serviceVars
  <2>2. appKey = key
    BY <2>1 DEF Screen
  <2>3. pending' # NoRequest => pending' = envelope /\ Valid(envelope, appKey)
    BY <1>4 DEF PollLook
  <2>4. pending' # NoRequest => ForKey(envelope)
    BY <2>2, <2>3 DEF Valid, ValidEver
  <2> QED
    BY <2>1, <2>3, <2>4
<1>5. CASE WipeStep
  <2>1. pending = NoRequest /\ UNCHANGED <<job, pending>>
    BY <1>5 DEF WipeStep, Screen, screenVars, serviceVars
  <2>2. key' \in Nat /\ key' >= key /\ (paired' = paired \/ paired' = [c \in Computers |-> 0])
    BY <1>1, <1>5 DEF WipeStep
  <2>3. ASSUME NEW c \in Computers PROVE paired'[c] <= key'
    <3>1. CASE paired' = paired
      <4>1. paired[c] \in Nat /\ paired[c] <= key
        BY <1>1
      <4> QED
        BY <1>1, <2>2, <3>1, <4>1
    <3>2. CASE paired' = [d \in Computers |-> 0]
      <4>1. paired'[c] = 0
        BY <3>2
      <4> QED
        BY <2>2, <4>1
    <3> QED
      BY <2>2, <3>1, <3>2
  <2>4. job.at = "back" => \A c \in Computers : job.back[c] <= key'
    <3> SUFFICES ASSUME job.at = "back", NEW c \in Computers PROVE job.back[c] <= key'
      OBVIOUS
    <3>1. job.back \in [Computers -> Keys \cup {0}]
      BY <1>1
    <3>2. job.back[c] \in Nat /\ job.back[c] <= key
      BY <3>1, MailboxAssumption DEF Keys
    <3> QED
      BY <1>1, <2>2, <3>2
  <2> QED
    BY <2>1, <2>2, <2>3, <2>4
<1> QED
  BY <1>2, <1>3, <1>4, <1>5, Handlers

-----------------------------------------------------------------------------
(* The theorems.                                                           *)

\* The invariant holds at first,
LEMMA PhoneStarts == Init => PhoneInv
  BY TypesStart, ScreenStarts, ArrivalsStart, AnswersStart, PairedStarts DEF PhoneInv

\* every step keeps it,
LEMMA PhoneStep == PhoneInv /\ [Next]_vars => PhoneInv'
<1> SUFFICES ASSUME PhoneInv, [Next]_vars PROVE PhoneInv'
  OBVIOUS
<1> USE DEF PhoneInv
<1>1. Types' /\ Screen'
  BY TypesKeep, ScreenKeeps
<1>2. ASSUME UNCHANGED vars PROVE Arrivals' /\ Answers' /\ Paired'
  BY <1>2 DEF vars, phoneVars, mailboxVars, slotVars, idVars, clockVars, historyVars, serviceVars, appVars,
     screenVars, pollVars, Arrivals, Once, Coming, Arriving, Writing, Answers, Answered, Unanswered, Asked, Paired,
     ForKey
<1>3. ASSUME ServiceNext, UNCHANGED <<appVars, sent>> PROVE Arrivals' /\ Answers' /\ Paired'
  BY <1>3, ArrivalsOfService, AnswersOfService, PairedOfService
<1>4. ASSUME AppNext, UNCHANGED sent PROVE Arrivals' /\ Answers' /\ Paired'
  BY <1>4, ArrivalsOfApp, AnswersOfApp, PairedOfApp
<1>5. ASSUME HostNext PROVE Arrivals' /\ Answers' /\ Paired'
  <2>1. Answers'
    BY <1>5, HostsApart DEF Answers, Answered, Unanswered, Asked, appVars, screenVars, pollVars
  <2> QED
    BY <1>5, <2>1, ArrivalsOfHosts, PairedOfHosts
<1> QED
  BY <1>1, <1>2, <1>3, <1>4, <1>5 DEF Next

\* and so it holds always.
LEMMA PhoneAlways == Spec => []PhoneInv
  BY PhoneStarts, PhoneStep, PTL DEF Spec

\* Every variable of the phone and of the computers' requests keeps its type, for any
\* number of computers, requests, resets and kills.
THEOREM PhoneTypes == Spec => []TypeOK
<1>1. PhoneInv => TypeOK
  <2> SUFFICES ASSUME PhoneInv PROVE TypeOK
    OBVIOUS
  <2>1. Flags /\ MailboxTypeOK /\ JobSort /\ AppSort /\ SentSort
    BY DEF PhoneInv, Types
  <2>2. ServiceTypeOK
    <3>1. enabled \in BOOLEAN /\ listening \in BOOLEAN
      BY <2>1 DEF Flags
    <3>2. /\ job.at \in Stages /\ job.name \in Files /\ job.id \in Slot
          /\ job.back \in [Computers -> Keys \cup {0}] \cup {<<>>}
      BY <2>1 DEF JobSort, Jobs, Backs
    <3> QED
      BY <2>1, <3>1, <3>2, Zenon DEF JobSort, ServiceTypeOK
  <2>3. AppTypeOK
    <3>1. visible \in BOOLEAN
      BY <2>1 DEF Flags
    <3>2. wiping \in 0..Len(Wipes)
      BY <2>1, WipesAre DEF AppSort
    <3> QED
      BY <2>1, <3>1, <3>2, Zenon DEF AppSort, AppTypeOK
  <2> QED
    BY <2>1, <2>2, <2>3, Zenon DEF SentSort, TypeOK
<1> QED
  BY <1>1, PhoneAlways, PTL

\* What a step answers: a request that arrives is put to the user, the one on screen
\* is answered, or nothing is said.
LEMMA OneAnswer ==
  ASSUME PhoneInv, [Next]_vars
  PROVE  \/ told' = told
         \/ \E r \in Requests : Arrives(r)
         \/ AppNext /\ Handles /\ \E s \in Said : Answering(s)
<1>1. CASE ServiceNext
  BY <1>1, Deliveries DEF PhoneInv
<1>2. CASE AppNext
  BY <1>2, Handlers DEF PhoneInv, Quiet, HalfSigned, PollLook, WipeStep, historyVars
<1>3. CASE HostNext
  BY <1>3, HostsApart
<1>4. CASE UNCHANGED vars
  BY <1>4 DEF vars, phoneVars, mailboxVars, historyVars
<1> QED
  BY <1>1, <1>2, <1>3, <1>4 DEF Next

\* A request is put to the user once and answered at most once, whatever the service,
\* a reset or the death of the process does in between: the phone implements
\* PhonePromise (Bridge.java signed and declined).
THEOREM PhonePromises == Spec => AnsweredOnce
<1>1. Init => Promise!PromiseInit
  BY DEF Init, MailboxInit, Promise!PromiseInit
<1>2. ASSUME PhoneInv, [Next]_vars PROVE [Promise!PromiseNext]_told
  <2>1. ASSUME NEW r \in Requests, Arrives(r) PROVE [Promise!PromiseNext]_told
    <3>1. told \in [Requests -> {"unseen", "asked", "signed", "declined", "again"}]
      BY <1>2 DEF PhoneInv, Types, MailboxTypeOK
    <3>2. CASE told[r] = "unseen"
      BY <2>1, <3>1, <3>2 DEF Arrives, Offered, Promise!PromiseNext, Promise!Offer, Promise!Becomes
    <3>3. CASE told[r] \in {"signed", "declined"}
      BY <2>1, <3>1, <3>3 DEF Arrives, Offered, Promise!PromiseNext, Promise!OfferAgain, Promise!Becomes
    <3>4. CASE told[r] \in {"asked", "again"}
      BY <2>1, <3>1, <3>4 DEF Arrives, Offered
    <3> QED
      BY <3>1, <3>2, <3>3, <3>4
  <2>2. ASSUME NEW s \in Said, Answering(s) PROVE Promise!PromiseNext
    <3>1. pending \in Requests /\ Asked(pending)
      BY <1>2, <2>2, MailboxAssumption DEF Answering, PhoneInv, Answers
    <3>2. \E what \in {"signed", "declined"} : told' = [told EXCEPT ![pending] = what]
      BY <2>2 DEF Answering, Respond
    <3> QED
      BY <3>1, <3>2 DEF Asked, Promise!PromiseNext, Promise!Approve, Promise!Decline, Promise!Becomes
  <2> QED
    BY <1>2, <2>1, <2>2, OneAnswer
<1> QED
  BY <1>1, <1>2, PhoneAlways, PTL DEF Spec, AnsweredOnce, Promise!PromiseSpec

\* A signature is made only by the key that the request's certificate is for, and for a
\* computer that is paired with that key afterwards: a reset between two handlers
\* cannot come between (Bridge.java validate, MainActivity.java resetKey).
THEOREM SignaturesAreForThisKey == Spec => SignsForThisKey
<1>1. ASSUME PhoneInv, [Next]_vars
      PROVE  [\A r \in Requests : Asked(r) /\ told'[r] = "signed"
                => bound[r] = key /\ paired'[ComputerOf[r]] = key]_vars
  <2> SUFFICES ASSUME NEW r \in Requests, Asked(r), told'[r] = "signed"
               PROVE  bound[r] = key /\ paired'[ComputerOf[r]] = key
    OBVIOUS
  <2>1. /\ told \in [Requests -> {"unseen", "asked", "signed", "declined", "again"}]
        /\ paired \in [Computers -> Keys \cup {0}] /\ ComputerOf[r] \in Computers
    BY <1>1, MailboxAssumption DEF PhoneInv, Types, MailboxTypeOK
  <2>2. PICK s \in Said : Answering(s)
    BY <1>1, <2>1, OneAnswer DEF Arrives, Offered, Asked
  <2>3. /\ told' = [told EXCEPT ![pending] = IF s = "signed" THEN "signed" ELSE "declined"]
        /\ pending \in Requests
    BY <2>2 DEF Answering, Respond
  <2>4. r = pending /\ s = "signed"
    BY <2>1, <2>3 DEF Asked
  <2>5. ForKey(r)
    BY <1>1, <2>3, <2>4, MailboxAssumption DEF PhoneInv, Paired
  <2>6. paired' = IF r \in Enrolls THEN [paired EXCEPT ![ComputerOf[r]] = bound[r]] ELSE paired
    BY <2>2, <2>4 DEF Answering, Respond, Pairs
  <2> QED
    BY <2>1, <2>5, <2>6 DEF ForKey
<1> QED
  BY <1>1, PhoneAlways, PTL DEF Spec, SignsForThisKey

\* The threads that read pairings.json and write it back lose no pairing and bring back
\* no older one; only a reset takes pairings away (Bridge.java signed and receipt).
THEOREM PairingsStand == Spec => PairingsKept
<1>1. ASSUME PhoneInv, [Next]_vars
      PROVE  [\A c \in Computers : paired'[c] < paired[c] => Busy]_vars
  <2> SUFFICES ASSUME NEW c \in Computers, ~Busy PROVE ~(paired'[c] < paired[c])
    OBVIOUS
  <2>1. /\ paired \in [Computers -> Keys \cup {0}] /\ key \in Nat /\ \A k \in Keys \cup {0} : k \in Nat
        /\ paired[c] <= key
    BY <1>1, MailboxAssumption DEF PhoneInv, Types, MailboxTypeOK, Paired, Keys
  <2>2. paired[c] \in Nat
    BY <2>1
  <2>3. CASE paired' = paired
    BY <2>2, <2>3
  <2>4. CASE ServiceNext
    <3>1. CASE JobWritesBack
      <4>1. /\ paired' = job.back /\ job.at = "back"
            /\ paired = job.back \/ paired = [d \in Computers |-> 0]
        BY <1>1, <3>1 DEF JobWritesBack, PhoneInv, Paired
      <4>2. job.back \in [Computers -> Keys \cup {0}]
        BY <1>1, <4>1 DEF PhoneInv, Types, JobSort
      <4>3. job.back[c] \in Nat
        BY <2>1, <4>2
      <4> QED
        BY <2>2, <4>1, <4>3
    <3>2. CASE ~JobWritesBack
      <4>1. paired' = paired
        BY <2>4, <3>2 DEF ServiceNext, LanTakes, ShareTakes, TakeIn, AdbPushes, Received, ReceiverPosts,
           JobStep, JobRemembers, JobWrites, JobChecks, JobPosts, Listen, idVars, mailboxVars
      <4> QED
        BY <2>3, <4>1
    <3> QED
      BY <3>1, <3>2
  <2>5. CASE AppNext
    <3>1. paired' = paired \/ (\E s \in Said : Answering(s)) \/ HalfSigned
      BY <1>1, <2>5, Handlers DEF PhoneInv, Quiet, PollLook, WipeStep, idVars
    <3>2. CASE (\E s \in Said : Answering(s)) \/ HalfSigned
      <4>1. /\ pending \in Requests
            /\ paired' \in {paired, [paired EXCEPT ![ComputerOf[pending]] = bound[pending]]}
        BY <3>2 DEF Answering, HalfSigned, Respond, Pairs
      <4>2. bound[pending] = key
        BY <1>1, <4>1, MailboxAssumption DEF PhoneInv, Paired, ForKey
      <4> QED
        BY <2>1, <2>2, <4>1, <4>2
    <3> QED
      BY <2>3, <3>1, <3>2
  <2>6. CASE HostNext \/ UNCHANGED vars
    BY <2>3, <2>6, HostsApart DEF vars, phoneVars, mailboxVars, idVars
  <2> QED
    BY <1>1, <2>4, <2>5, <2>6 DEF Next
<1> QED
  BY <1>1, PhoneAlways, PTL DEF Spec, PairingsKept

-----------------------------------------------------------------------------
(* The released app: no request is pushed over ADB, so that every one      *)
(* comes through a thread that holds the mailbox.                          *)

\* A message on its way to its slot.
Mailed(name, r) ==
  Message(name, r) \in mail \/ (Writing /\ job.name = name /\ job.id = r)

\* What lies in the slots is what happened.
SlotsTrue ==
  \A r \in Requests :
    /\ cancel = r \/ Mailed("cancel", r) => sent[r] = "withdrawn"
    /\ receipt = r \/ Mailed("receipt", r) => sent[r] = "confirmed"
    /\ response.id = r => told[r] \in {IF response.status = "signed" THEN "signed" ELSE "declined", "again"}
    /\ bound[r] \in {0, 1}

\* While a thread is about to write a request, the one before is done with.
Done(r) == r \in expired \/ sent[r] \in {"withdrawn", "confirmed"} \/ told[r] \in {"declined", "again"}
Replacing == Writing /\ job.name = "request"
SlotIsOpen == Replacing => request = NoRequest \/ Done(request)

\* A withdrawal that was verified is remembered, until the request has expired or the
\* key it was for is gone.
Kept(r) == r \in Share => r \in tombs \/ r \in expired \/ key > 1
Remembered ==
  /\ wiping > 1 => key > 1
  /\ Replacing => job.id \notin heard
  /\ \A r \in heard : /\ r \in Lan => told[r] # "unseen"
                      /\ Kept(r)
                      /\ key = 1 /\ request = r => cancel = r
  /\ job.at = "write" /\ job.name = "cancel" =>
       /\ Kept(job.id)
       /\ job.id \in Lan => told[job.id] # "unseen" /\ (key = 1 => request = job.id)

\* The second part needs that what is received again comes by KDE Connect: a LAN
\* withdrawal is not remembered once another request has the slot.
SlotInv == ~Development /\ SlotsTrue /\ SlotIsOpen
ReleasedInv == SlotInv /\ Repeats \subseteq Share /\ Remembered

\* A thread takes a message, by its checks, and has done nothing else yet.
LEMMA Takings ==
  ASSUME Types, NEW m \in mail, LanTakes(m) \/ ShareTakes(m)
  PROVE  /\ m.id \in Requests /\ m = Message(m.name, m.id)
         /\ mail' \subseteq mail /\ UNCHANGED mailboxVars
         /\ job'.at \in {"back", "tomb", "write"} /\ job'.name = m.name /\ job'.id = m.id
         /\ job'.at = "write" /\ m.name = "cancel" => m.id \notin Share
         /\ job = NoJob
<1>1. m.id \in Requests /\ m = Message(m.name, m.id)
  BY DEF Types, JobSort, Messages, Message
<1>2. PICK confirms \in BOOLEAN : TakeIn(m, confirms) /\ (confirms => m.name # "cancel")
  <2>1. Confirms(m) \in BOOLEAN /\ (Confirms(m) => m.name # "cancel")
    BY DEF Confirms
  <2> QED
    BY <2>1 DEF LanTakes, ShareTakes
<1>3. job = NoJob
  BY DEF LanTakes, ShareTakes
<1> QED
  BY <1>1, <1>2, <1>3 DEF TakeIn, FirstWrite

\* What the job does until it has written,
LEMMA JobPrepares ==
  ASSUME Types, JobWritesBack \/ JobRemembers
  PROVE  /\ Writing /\ job'.at = "write" /\ job'.name = job.name /\ job'.id = job.id /\ job.id \in Requests
         /\ UNCHANGED <<request, response, receipt, cancel, key, clockVars, historyVars, mail>>
         /\ job.name = "cancel" => JobRemembers
         /\ ~JobRemembers => tombs' = tombs
<1>1. job \in Jobs /\ job.at \in {"back", "tomb"} /\ job.id \in Requests
  BY DEF Types, JobSort, JobWritesBack, JobRemembers
<1>2. CASE JobWritesBack
  <2>1. job.at = "back" /\ job' = [job EXCEPT !.at = "write", !.back = <<>>]
    BY <1>2 DEF JobWritesBack
  <2>2. job'.at = "write" /\ job'.name = job.name /\ job'.id = job.id /\ job.name # "cancel"
    BY <1>1, <2>1 DEF Jobs, Types, JobSort
  <2> QED
    BY <1>1, <1>2, <2>2 DEF JobWritesBack, Writing, slotVars, historyVars
<1>3. CASE JobRemembers
  <2>1. job'.at = "write" /\ job'.name = job.name /\ job'.id = job.id
    BY <1>1, <1>3 DEF JobRemembers, Jobs
  <2> QED
    BY <1>1, <1>3, <2>1 DEF JobRemembers, Writing, idVars, historyVars
<1> QED
  BY <1>2, <1>3

\* and afterwards, whichever step it is.
LEMMA JobGoesOn ==
  ASSUME Types, JobWrites \/ JobChecks \/ JobPosts
  PROVE  ~Writing' /\ job.id \in Requests /\ mail' = mail
<1>1. \/ job' = NoJob
      \/ job' = [job EXCEPT !.at = "check"]
      \/ job' = [job EXCEPT !.at = "post"]
  BY Zenon DEF JobWrites, JobChecks, JobPosts
<1>2. ~Writing'
  BY <1>1 DEF NoJob, Types, JobSort, Jobs, Writing
<1>3. job.id \in Requests
  BY DEF JobWrites, JobChecks, JobPosts, Types, JobSort
<1> QED
  BY <1>2, <1>3 DEF JobWrites, JobChecks, JobPosts

\* Without ADB, nothing else brings mail in.
LEMMA NoPush ==
  ASSUME ~Development, NEW m \in mail, AdbPushes(m) PROVE FALSE
  BY DEF Development, AdbPushes

\* What a thread does in the released app.
LEMMA ReleasedSteps ==
  ASSUME Types, ~Development, ServiceNext
  PROVE  \/ \E m \in mail : LanTakes(m) \/ ShareTakes(m)
         \/ JobWritesBack \/ JobRemembers \/ JobWrites \/ JobChecks \/ JobPosts
         \/ Aside
<1>1. mail \subseteq Messages
  BY DEF Types, JobSort
<1> QED
  BY <1>1, ServiceSteps, NoPush

-----------------------------------------------------------------------------
\* Every slot is empty at first.
LEMMA SlotsStart == Init => SlotsTrue
<1> SUFFICES ASSUME Init, NEW r \in Requests
             PROVE  /\ cancel # r /\ receipt # r /\ response.id # r /\ bound[r] = 0
                    /\ \A name \in Files : ~Mailed(name, r)
  BY DEF SlotsTrue, Files
<1>1. r # NoRequest
  BY MailboxAssumption
<1>2. job.at = "free" /\ mail = {}
  BY DEF Init, ServiceInit, NoJob
<1> QED
  BY <1>1, <1>2 DEF Init, MailboxInit, NoResponse, Mailed, Writing

\* A thread writes what the computer sent.
LEMMA SlotsOfService ==
  ASSUME Types, Arrivals, SlotsTrue, ~Development, ServiceNext, UNCHANGED <<appVars, sent>>
  PROVE  SlotsTrue'
<1> SUFFICES ASSUME NEW r \in Requests
             PROVE  /\ cancel' = r \/ Mailed("cancel", r)' => sent[r] = "withdrawn"
                    /\ receipt' = r \/ Mailed("receipt", r)' => sent[r] = "confirmed"
                    /\ response'.id = r =>
                         told'[r] \in {IF response'.status = "signed" THEN "signed" ELSE "declined", "again"}
                    /\ bound'[r] \in {0, 1}
  BY DEF SlotsTrue
<1> USE DEF SlotsTrue, Mailed
<1>1. /\ UNCHANGED <<response, bound>>
      /\ told \in [Requests -> {"unseen", "asked", "signed", "declined", "again"}]
  BY Deliveries DEF Types, MailboxTypeOK
<1>2. response.id = r => told'[r] \in {told[r], "again"}
  BY <1>1, Deliveries DEF Arrives, Offered
<1>3. ASSUME NEW m \in mail, LanTakes(m) \/ ShareTakes(m)
      PROVE  /\ UNCHANGED <<cancel, receipt>>
             /\ \A name \in Files : Mailed(name, r)' => Mailed(name, r)
  BY <1>3, Takings DEF mailboxVars, slotVars, Message
<1>4. ASSUME JobWritesBack \/ JobRemembers
      PROVE  /\ UNCHANGED <<cancel, receipt>>
             /\ \A name \in Files : Mailed(name, r)' => Mailed(name, r)
  BY <1>4, JobPrepares
<1>5. ASSUME JobWrites
      PROVE  /\ cancel' = r => cancel = r \/ Mailed("cancel", r)
             /\ receipt' = r => receipt = r \/ Mailed("receipt", r)
             /\ \A name \in Files : Mailed(name, r)' => Mailed(name, r)
  BY <1>5, JobGoesOn DEF JobWrites, Writing
<1>6. ASSUME JobChecks \/ JobPosts
      PROVE  /\ UNCHANGED <<cancel, receipt>>
             /\ \A name \in Files : Mailed(name, r)' => Mailed(name, r)
  BY <1>6, JobGoesOn DEF JobChecks, JobPosts, slotVars
<1>7. ASSUME Aside
      PROVE  /\ UNCHANGED <<cancel, receipt>>
             /\ \A name \in Files : Mailed(name, r)' => Mailed(name, r)
  <2>1. \A name \in Files : Message(name, r) \notin Calls
    BY DEF Calls, Message, Broadcasts, Files
  <2>2. job' = job /\ mail' \subseteq mail \cup Calls /\ UNCHANGED <<cancel, receipt>>
    BY <1>7 DEF Aside, slotVars
  <2> QED
    BY <2>1, <2>2 DEF Writing
<1>8. /\ cancel' = r => cancel = r \/ Mailed("cancel", r)
      /\ receipt' = r => receipt = r \/ Mailed("receipt", r)
      /\ \A name \in Files : Mailed(name, r)' => Mailed(name, r)
  BY <1>3, <1>4, <1>5, <1>6, <1>7, ReleasedSteps
<1>9. {"cancel", "receipt"} \subseteq Files
  BY DEF Files
<1> QED
  BY <1>1, <1>2, <1>8, <1>9

\* A computer withdraws or confirms once, and certificates are for the first key.
LEMMA SlotsOfHosts ==
  ASSUME Types, Arrivals, SlotsTrue, ~Development, HostNext PROVE SlotsTrue'
<1> SUFFICES ASSUME NEW r \in Requests, NEW q \in Requests,
                    Ask(q) \/ HostReads(q) \/ HostWithdraws(q) \/ Expire(q)
             PROVE  /\ cancel' = r \/ Mailed("cancel", r)' => sent'[r] = "withdrawn"
                    /\ receipt' = r \/ Mailed("receipt", r)' => sent'[r] = "confirmed"
                    /\ response'.id = r =>
                         told'[r] \in {IF response'.status = "signed" THEN "signed" ELSE "declined", "again"}
                    /\ bound'[r] \in {0, 1}
  BY DEF HostNext, SlotsTrue
<1> USE DEF SlotsTrue, Mailed, Writing
<1>1. /\ UNCHANGED <<response, told, job, cancel, receipt>>
      /\ sent \in [Requests -> {"new", "asked", "refused", "withdrawn", "confirmed"}]
      /\ bound \in [Requests -> Keys \cup {0}]
  BY HostsApart DEF HostNext, Types, SentSort, MailboxTypeOK, Ask, HostReads, HostWithdraws, Expire,
     mailboxVars, slotVars
<1>2. CASE Ask(q)
  <2>1. Approved(q) = {1} /\ q \notin Enrolls
    BY MailboxAssumption DEF Approved, Development
  <2>2. bound'[r] \in {0, 1}
    BY <1>1, <1>2, <2>1 DEF Ask
  <2>3. /\ sent[q] = "new" /\ sent' = [sent EXCEPT ![q] = "asked"]
        /\ mail' = mail \cup {Message("request", q)}
    BY <1>2 DEF Ask, SentTo
  <2>4. Message("cancel", r) # Message("request", q) /\ Message("receipt", r) # Message("request", q)
    BY DEF Message
  <2> QED
    BY <1>1, <2>2, <2>3, <2>4
<1>3. CASE HostReads(q) \/ HostWithdraws(q)
  <2>1. UNCHANGED bound
    BY <1>3 DEF HostReads, HostWithdraws, mailboxVars, clockVars
  <2>2. \/ /\ sent[q] \in {"asked", "refused"} /\ sent' = [sent EXCEPT ![q] = "withdrawn"]
           /\ mail' = mail \cup {Message("cancel", q)}
        \/ /\ sent[q] = "asked" /\ sent' = [sent EXCEPT ![q] = "confirmed"]
           /\ mail' = mail \cup {Message("receipt", q)}
        \/ sent[q] = "asked" /\ sent' = [sent EXCEPT ![q] = "refused"] /\ mail' = mail
    BY <1>3 DEF HostReads, HostWithdraws, SentTo
  <2> QED
    BY <1>1, <2>1, <2>2 DEF Message
<1>4. CASE Expire(q)
  BY <1>1, <1>4 DEF Expire, serviceVars
<1> QED
  BY <1>2, <1>3, <1>4

\* The activity writes what the user said, and a reset deletes.
LEMMA SlotsOfApp ==
  ASSUME Types, SlotsTrue, AppNext, UNCHANGED sent PROVE SlotsTrue'
<1> SUFFICES ASSUME NEW r \in Requests
             PROVE  /\ cancel' = r \/ Mailed("cancel", r)' => sent[r] = "withdrawn"
                    /\ receipt' = r \/ Mailed("receipt", r)' => sent[r] = "confirmed"
                    /\ response'.id = r =>
                         told'[r] \in {IF response'.status = "signed" THEN "signed" ELSE "declined", "again"}
                    /\ bound'[r] \in {0, 1}
  BY DEF SlotsTrue
<1> USE DEF SlotsTrue, Mailed, Writing
<1>1. /\ r # NoRequest /\ mail' \subseteq mail /\ job' \in {job, NoJob} /\ bound' = bound
  BY Handlers, MailboxAssumption DEF Handles, PollLook, WipeStep, serviceVars, clockVars
<1>2. cancel' \in {cancel, NoRequest} /\ receipt' \in {receipt, NoRequest}
  BY Zenon DEF AppNext, OnStart, OnStop, Recreate, OnNewIntent, Poll, PollRead, PollLook, PollRest,
     TapApprove, ShowPrompt, Fingerprint, Decline, ResetKey, WipeStep, Wipe, TurnOn, TurnOff, OnDestroy,
     StopListening, Kill, TapNotification, KeepsMail, mailboxVars, slotVars
<1>3. response'.id = r =>
        told'[r] \in {IF response'.status = "signed" THEN "signed" ELSE "declined", "again"}
  <2>1. told \in [Requests -> {"unseen", "asked", "signed", "declined", "again"}]
    BY DEF Types, MailboxTypeOK
  <2>2. CASE UNCHANGED <<told, response>>
    BY <2>2
  <2>3. ASSUME NEW s \in Said, Answering(s)
        PROVE  response'.id = r =>
                 told'[r] \in {IF response'.status = "signed" THEN "signed" ELSE "declined", "again"}
    BY <2>1, <2>3 DEF Answering, Respond
  <2>4. CASE WipeStep
    BY <1>1, <2>4 DEF WipeStep, NoResponse, historyVars
  <2> QED
    BY <2>2, <2>3, <2>4, Handlers DEF Quiet, HalfSigned, PollLook, slotVars, historyVars
<1> QED
  BY <1>1, <1>2, <1>3 DEF NoJob

-----------------------------------------------------------------------------
\* The request in the slot was finished, or had expired, when the lock was taken.
LEMMA OpenOfService ==
  ASSUME Types, SlotsTrue, SlotIsOpen, ~Development, ServiceNext, UNCHANGED <<appVars, sent>>
  PROVE  SlotIsOpen'
<1> SUFFICES ASSUME Replacing', request' # NoRequest PROVE Done(request)'
  BY DEF SlotIsOpen
<1> USE DEF Replacing, Done
<1>1. ASSUME NEW k, SlotOpen(k), request # NoRequest PROVE Done(request)
  <2>1. request \in Requests
    BY <1>1 DEF Types, MailboxTypeOK, Slot
  <2>2. CASE ThrowsExpired(request)
    BY <2>2 DEF ThrowsExpired
  <2>3. CASE cancel = request
    BY <2>1, <2>3 DEF SlotsTrue
  <2>4. CASE response.id = request /\ response.status \in {"declined", "replaced"}
    BY <2>1, <2>4 DEF SlotsTrue
  <2>5. CASE ConfirmedFinish(request)
    BY <2>1, <2>5 DEF SlotsTrue, ConfirmedFinish
  <2> QED
    BY <1>1, <2>2, <2>3, <2>4, <2>5 DEF SlotOpen, Finished
<1>2. ASSUME NEW m \in mail, LanTakes(m) \/ ShareTakes(m) PROVE Done(request)'
  <2>1. m.name = "request" /\ UNCHANGED <<request, expired, told, sent>>
    BY <1>2, Takings DEF mailboxVars, slotVars, clockVars, historyVars
  <2>2. SlotOpen(svcKey) \/ SlotOpen(key)
    BY <1>2, <2>1 DEF LanTakes, ShareTakes, MayEnter
  <2> QED
    BY <1>1, <1>2, <2>1, <2>2
<1>3. ASSUME Replacing, UNCHANGED <<request, sent, told, expired>> PROVE Done(request)'
  BY <1>3 DEF SlotIsOpen
<1>4. CASE JobWritesBack \/ JobRemembers
  BY <1>3, <1>4, JobPrepares DEF clockVars, historyVars
<1>5. CASE Aside
  BY <1>3, <1>5 DEF Aside, Writing, slotVars, clockVars, historyVars
<1> QED
  BY <1>2, <1>4, <1>5, JobGoesOn, ReleasedSteps

\* What a computer is done with stays done with.
LEMMA OpenOfHosts ==
  ASSUME Types, SlotIsOpen, HostNext PROVE SlotIsOpen'
<1> SUFFICES ASSUME Replacing', request' # NoRequest PROVE Done(request)'
  BY DEF SlotIsOpen
<1>1. UNCHANGED <<job, request, told>>
  BY HostsApart
<1>2. Done(request) /\ request \in Requests
  BY <1>1 DEF SlotIsOpen, Replacing, Writing, Types, MailboxTypeOK, Slot
<1>3. expired \subseteq expired'
  BY DEF HostNext, Ask, HostReads, HostWithdraws, Expire, mailboxVars, clockVars
<1>4. sent[request] \in {"withdrawn", "confirmed"} => sent'[request] = sent[request]
  BY <1>2 DEF HostNext, Ask, HostReads, HostWithdraws, Expire, SentTo, Types, SentSort
<1> QED
  BY <1>1, <1>2, <1>3, <1>4 DEF Done

\* And so does what the user has declined: nothing is signed meanwhile.
LEMMA OpenOfApp ==
  ASSUME Types, Answers, SlotIsOpen, AppNext, UNCHANGED sent PROVE SlotIsOpen'
<1> SUFFICES ASSUME Replacing', request' # NoRequest PROVE Done(request)'
  BY DEF SlotIsOpen
<1>1. job' \in {job, NoJob} /\ request' \in {request, NoRequest} /\ expired' = expired
  BY Handlers, Zenon DEF Handles, PollLook, WipeStep, Wipe, serviceVars, slotVars, clockVars, AppNext, OnStart,
     OnStop, Recreate, OnNewIntent, Poll, PollRead, PollRest, TapApprove, ShowPrompt, Fingerprint, Decline,
     ResetKey, TurnOn, TurnOff, OnDestroy, StopListening, Kill, TapNotification, KeepsMail, mailboxVars
<1>2. Done(request) /\ request' = request /\ job # NoJob
  BY <1>1 DEF SlotIsOpen, Replacing, Writing, NoJob
<1>3. told[request] \in {"declined", "again"} => told'[request] \in {"declined", "again"}
  <2>1. CASE told' = told
    BY <2>1
  <2>2. ASSUME NEW s \in Said, Answering(s)
        PROVE  told[request] \in {"declined", "again"} => told'[request] \in {"declined", "again"}
    BY <1>2, <2>2 DEF Answering, Respond, Types, MailboxTypeOK
  <2> QED
    BY <2>1, <2>2, Handlers DEF Quiet, HalfSigned, PollLook, WipeStep, historyVars
<1> QED
  BY <1>1, <1>2, <1>3 DEF Done

-----------------------------------------------------------------------------
\* Nothing has been withdrawn at first.
LEMMA RememberedStarts == Init => Remembered
  BY DEF Init, MailboxInit, ServiceInit, AppInit, NoJob, Remembered, Replacing, Writing

\* A thread looks for the withdrawal of what it takes in; one that writes a withdrawal
\* writes all that reminds of it.
LEMMA RememberedOfService ==
  ASSUME Types, Arrivals, Answers, SlotsTrue, Remembered, ~Development, Repeats \subseteq Share,
         ServiceNext, UNCHANGED <<appVars, sent>>
  PROVE  Remembered'
<1> USE DEF Remembered, Replacing, Kept
<1>1. /\ UNCHANGED <<wiping, key>> /\ key \in Keys /\ Keys \subseteq Nat \ {0}
      /\ told \in [Requests -> {"unseen", "asked", "signed", "declined", "again"}]
      /\ Requests = Lan \cup Share /\ Lan \cap Share = {} /\ heard \subseteq Requests
      /\ request \in Slot /\ NoRequest \notin Requests
  BY Deliveries, MailboxAssumption DEF appVars, Types, MailboxTypeOK, Keys, Lan, Development
<1>2. ASSUME NEW m \in mail, LanTakes(m) \/ ShareTakes(m) PROVE Remembered'
  <2>1. /\ m.id \in Requests /\ m = Message(m.name, m.id)
        /\ UNCHANGED <<heard, tombs, expired, told, request, cancel>>
        /\ job'.name = m.name /\ job'.id = m.id
        /\ job'.at = "write" /\ m.name = "cancel" => m.id \notin Share
    BY <1>2, Takings DEF mailboxVars, slotVars, clockVars, historyVars
  <2>2. ASSUME m.name = "request", m.id \in heard PROVE FALSE
    <3>1. m.id \notin Repeats => told[m.id] = "unseen"
      BY <2>1, <2>2 DEF Arrivals, Once, Coming
    <3>2. m.id \in Share /\ ShareTakes(m)
      BY <1>1, <1>2, <2>1, <2>2, <3>1 DEF LanTakes
    <3>3. m.id \notin tombs /\ m.id \notin expired /\ bound[m.id] = key
      BY <2>2, <3>2 DEF ShareTakes, Valid, ValidEver
    <3> QED
      BY <1>1, <2>1, <2>2, <3>2, <3>3 DEF SlotsTrue
  <2>3. ASSUME m.name = "cancel", m.id \in Lan PROVE request = m.id /\ told[m.id] # "unseen"
    <3>1. LanTakes(m)
      BY <1>1, <1>2, <2>3 DEF ShareTakes
    <3>2. request = m.id
      BY <2>3, <3>1 DEF LanTakes, Matches
    <3> QED
      BY <1>1, <2>1, <3>2 DEF Answers, Answered
  <2> QED
    BY <1>1, <2>1, <2>2, <2>3
<1>3. CASE Aside
  <2>1. UNCHANGED <<job, heard, tombs, expired, told, request, cancel>>
    BY <1>3 DEF Aside, slotVars, clockVars, historyVars
  <2> QED
    BY <1>1, <2>1 DEF Writing
<1>4. CASE JobWritesBack \/ JobRemembers
  <2>1. /\ Writing /\ job'.at = "write" /\ job'.name = job.name /\ job'.id = job.id /\ job.id \in Requests
        /\ UNCHANGED <<request, cancel, heard, told, expired>>
        /\ job.name = "cancel" => JobRemembers
        /\ ~JobRemembers => tombs' = tombs
    BY <1>4, JobPrepares DEF clockVars, historyVars
  <2>2. JobRemembers => job.id \in Share /\ (tombs \cup {job.id}) \ expired \subseteq tombs'
    BY DEF JobRemembers, Tombs, Pruned, Types, JobSort
  <2>3. tombs \ expired \subseteq tombs'
    BY <2>1, <2>2
  <2> QED
    BY <1>1, <2>1, <2>2, <2>3
<1>5. CASE JobChecks \/ JobPosts
  <2>1. UNCHANGED <<heard, tombs, expired, told, request, cancel>> /\ ~Writing'
    BY <1>5, JobGoesOn DEF JobChecks, JobPosts, slotVars, clockVars, historyVars
  <2> QED
    BY <1>1, <2>1 DEF Writing
<1>6. CASE JobWrites
  <2>1. ~Writing' /\ job.id \in Requests /\ job.at = "write" /\ Writing /\ UNCHANGED expired
    BY <1>6, JobGoesOn DEF JobWrites, Writing, clockVars
  <2>2. tombs \ expired \subseteq tombs'
    BY <1>6 DEF JobWrites, Pruned
  <2>3. job'.at # "write"
    BY <2>1 DEF Writing
  <2>4. CASE job.name = "request"
    <3>1. Offered(job.id) /\ request' = job.id /\ heard' = heard
      BY <1>6, <2>4 DEF JobWrites
    <3>2. \A r \in Requests : told[r] # "unseen" => told'[r] # "unseen"
      BY <1>1, <3>1 DEF Offered
    <3> QED
      BY <1>1, <2>1, <2>2, <2>3, <2>4, <3>1, <3>2
  <2>5. CASE job.name = "receipt"
    <3>1. UNCHANGED <<request, cancel, told, heard>>
      BY <1>6, <2>5 DEF JobWrites, historyVars
    <3> QED
      BY <1>1, <2>1, <2>2, <2>3, <3>1
  <2>6. CASE job.name = "cancel"
    <3>1. UNCHANGED <<request, told, tombs>> /\ heard' = heard \cup {job.id}
      BY <1>6, <2>6 DEF JobWrites
    <3>2. \/ cancel' = job.id /\ (job.id \in Share => request = job.id)
          \/ cancel' = cancel /\ job.id \in Share /\ request # job.id
      BY <1>6, <2>6 DEF JobWrites
    <3>3. key = 1 => cancel' = IF request = job.id THEN job.id ELSE cancel
      BY <1>1, <2>1, <2>6, <3>2
    <3>4. ASSUME NEW r \in heard', key = 1, request = r PROVE cancel' = r
      BY <3>1, <3>2, <3>3, <3>4
    <3>5. ASSUME NEW r \in heard'
          PROVE  /\ r \in Lan => told[r] # "unseen"
                 /\ r \in Share => r \in tombs' \/ r \in expired \/ key > 1
      BY <2>1, <2>6, <3>1
    <3> QED
      BY <1>1, <2>1, <2>3, <3>1, <3>4, <3>5
  <2> QED
    BY <1>6, <2>4, <2>5, <2>6 DEF JobWrites
<1> QED
  BY <1>2, <1>3, <1>4, <1>5, <1>6, ReleasedSteps

\* A computer only lets its request expire.
LEMMA RememberedOfHosts ==
  ASSUME Remembered, HostNext PROVE Remembered'
<1>1. UNCHANGED <<key, told, request, job, wiping, cancel, tombs, heard>>
  BY HostsApart DEF HostNext, appVars, Ask, HostReads, HostWithdraws, Expire, mailboxVars, slotVars,
     historyVars
<1>2. expired \subseteq expired'
  BY DEF HostNext, Ask, HostReads, HostWithdraws, Expire, mailboxVars, clockVars
<1> QED
  BY <1>1, <1>2 DEF Remembered, Replacing, Writing, Kept

\* A reset deletes what reminds of a withdrawal only after the key that could sign.
LEMMA RememberedOfApp ==
  ASSUME Types, Answers, Remembered, AppNext PROVE Remembered'
<1> USE DEF Remembered, Replacing, Writing, Kept
<1>1. /\ key \in Nat \ {0} /\ wiping \in 0..7 /\ NoRequest \notin Requests /\ heard \subseteq Requests
      /\ told \in [Requests -> {"unseen", "asked", "signed", "declined", "again"}]
  BY MailboxAssumption DEF Types, MailboxTypeOK, Keys, AppSort
<1>2. CASE WipeStep
  <2>1. /\ wiping \in 1..7 /\ (Wipes[wiping] = "key" <=> wiping = 1)
        /\ UNCHANGED <<job, told, heard, expired>>
    BY <1>1, <1>2, WipesAre DEF WipeStep, Busy, serviceVars, clockVars, historyVars
  <2>2. key' = IF wiping = 1 THEN key + 1 ELSE key
    BY <1>2, <2>1 DEF WipeStep
  <2>3. key' > 1
    BY <1>1, <2>1, <2>2
  <2> QED
    BY <2>1, <2>3
<1>3. CASE ~WipeStep
  <2>1. /\ UNCHANGED <<key, request, cancel, tombs, heard, expired>>
        /\ job' \in {job, NoJob} /\ wiping' \in {wiping, 0, 1}
    <3>1. CASE OnStart \/ Recreate \/ OnNewIntent \/ TurnOn \/ TurnOff \/ OnDestroy \/ Kill
      BY <3>1 DEF OnStart, Recreate, OnNewIntent, TurnOn, TurnOff, OnDestroy, StopListening, Kill,
         mailboxVars, slotVars, idVars, clockVars, historyVars, serviceVars, appVars
    <3>2. CASE PollRead \/ PollRest \/ TapApprove \/ ShowPrompt \/ Fingerprint \/ Decline \/ OnStop
      BY <3>2 DEF PollRead, PollRest, TapApprove, ShowPrompt, Fingerprint, Decline, OnStop, KeepsMail,
         clockVars, serviceVars
    <3>3. CASE PollLook \/ ResetKey \/ \E r \in Requests : TapNotification(r)
      BY <3>3 DEF PollLook, ResetKey, TapNotification, slotVars, idVars, clockVars, historyVars,
         serviceVars
    <3> QED
      BY <1>3, <3>1, <3>2, <3>3 DEF AppNext, Poll
  <2>2. ASSUME NEW r \in Requests, told[r] # "unseen" PROVE told'[r] # "unseen"
    <3>1. CASE told' = told
      BY <2>2, <3>1
    <3>2. ASSUME NEW s \in Said, Answering(s) PROVE told'[r] # "unseen"
      BY <1>1, <2>2, <3>2 DEF Answering, Respond
    <3> QED
      BY <3>1, <3>2, Handlers DEF Quiet, HalfSigned, PollLook, WipeStep, historyVars
  <2>3. job.at = "write" => job.id \in Requests
    BY DEF Types, JobSort
  <2>4. ASSUME NEW r \in heard'
        PROVE  /\ r \in Lan => told'[r] # "unseen"
               /\ r \in Share => r \in tombs' \/ r \in expired' \/ key' > 1
               /\ key' = 1 /\ request' = r => cancel' = r
    BY <1>1, <2>1, <2>2
  <2> QED
    BY <1>1, <2>1, <2>2, <2>3, <2>4 DEF NoJob
<1> QED
  BY <1>2, <1>3

-----------------------------------------------------------------------------
\* The invariant of the released app holds at first,
LEMMA ReleasedStarts == Init => SlotsTrue /\ SlotIsOpen /\ Remembered
<1>1. Init => SlotIsOpen
  BY DEF Init, ServiceInit, NoJob, SlotIsOpen, Replacing, Writing
<1> QED
  BY <1>1, SlotsStart, RememberedStarts

\* every step keeps what it says of the slots,
LEMMA SlotStep == PhoneInv /\ SlotInv /\ [Next]_vars => SlotInv'
<1> SUFFICES ASSUME PhoneInv, SlotInv, [Next]_vars PROVE SlotInv'
  OBVIOUS
<1> USE DEF PhoneInv, SlotInv
<1>1. (~Development)'
  BY DEF Development
<1>2. ASSUME UNCHANGED vars PROVE SlotsTrue' /\ SlotIsOpen'
  BY <1>2 DEF vars, phoneVars, mailboxVars, slotVars, idVars, clockVars, historyVars, serviceVars, appVars,
     SlotsTrue, Mailed, SlotIsOpen, Replacing, Writing, Done
<1>3. ASSUME ServiceNext, UNCHANGED <<appVars, sent>> PROVE SlotsTrue' /\ SlotIsOpen'
  BY <1>3, SlotsOfService, OpenOfService
<1>4. ASSUME AppNext, UNCHANGED sent PROVE SlotsTrue' /\ SlotIsOpen'
  BY <1>4, SlotsOfApp, OpenOfApp
<1>5. ASSUME HostNext PROVE SlotsTrue' /\ SlotIsOpen'
  BY <1>5, SlotsOfHosts, OpenOfHosts
<1> QED
  BY <1>1, <1>2, <1>3, <1>4, <1>5 DEF Next

\* and of the withdrawals,
LEMMA ReleasedStep == PhoneInv /\ ReleasedInv /\ [Next]_vars => ReleasedInv'
<1> SUFFICES ASSUME PhoneInv, ReleasedInv, [Next]_vars PROVE ReleasedInv'
  OBVIOUS
<1> USE DEF PhoneInv, ReleasedInv
<1>1. SlotInv' /\ (Repeats \subseteq Share)'
  BY SlotStep
<1>2. ASSUME UNCHANGED vars PROVE Remembered'
  BY <1>2 DEF vars, phoneVars, mailboxVars, slotVars, idVars, clockVars, historyVars, serviceVars, appVars,
     Replacing, Writing, Remembered, Kept
<1>3. ASSUME ServiceNext, UNCHANGED <<appVars, sent>> PROVE Remembered'
  BY <1>3, RememberedOfService DEF SlotInv
<1>4. ASSUME AppNext, UNCHANGED sent PROVE Remembered'
  BY <1>4, RememberedOfApp
<1>5. ASSUME HostNext PROVE Remembered'
  BY <1>5, RememberedOfHosts
<1> QED
  BY <1>1, <1>2, <1>3, <1>4, <1>5 DEF Next

\* and so it holds always.
LEMMA SlotsAlways == ~Development /\ Spec => [](PhoneInv /\ SlotInv)
<1>1. ~Development /\ Init => SlotInv
  BY ReleasedStarts DEF SlotInv
<1> QED
  BY <1>1, PhoneStarts, PhoneStep, SlotStep, PTL DEF Spec

LEMMA ReleasedAlways ==
  ~Development /\ Repeats \subseteq Share /\ Spec => [](PhoneInv /\ ReleasedInv)
<1>1. ~Development /\ Repeats \subseteq Share /\ Init => ReleasedInv
  BY ReleasedStarts DEF SlotInv, ReleasedInv
<1> QED
  BY <1>1, PhoneStarts, PhoneStep, ReleasedStep, PTL DEF Spec

\* What brings another request into the slot: the job of a thread that holds the
\* mailbox, and nothing else.
LEMMA SlotChanges ==
  ASSUME PhoneInv, SlotInv, [Next]_vars, request' \notin {NoRequest, request}
  PROVE  Replacing /\ request' = job.id
<1>1. CASE ServiceNext
  <2>1. ASSUME NEW m \in mail, LanTakes(m) \/ ShareTakes(m) PROVE request' = request
    BY <2>1 DEF LanTakes, ShareTakes, TakeIn, mailboxVars, slotVars
  <2>2. JobWritesBack \/ JobRemembers \/ JobChecks \/ JobPosts \/ Aside => request' = request
    BY DEF JobWritesBack, JobRemembers, JobChecks, JobPosts, Aside, slotVars
  <2>3. JobWrites
    BY <1>1, <2>1, <2>2, ReleasedSteps DEF PhoneInv, SlotInv
  <2> QED
    BY <2>3 DEF JobWrites, Replacing, Writing
<1>2. CASE AppNext
  BY <1>2, Handlers DEF PhoneInv, Handles, PollLook, WipeStep, Wipe, slotVars
<1>3. CASE HostNext \/ UNCHANGED vars
  BY <1>3, HostsApart DEF vars, phoneVars, mailboxVars, slotVars
<1> QED
  BY <1>1, <1>2, <1>3 DEF Next

\* In the released app a request that its computer still waits for is not pushed out of
\* the slot, whichever transport the next one comes by, unless it has expired or was
\* declined (NetworkService.java exchange, KdeConnectInbox.java receive).
THEOREM LiveRequestsStay == ~Development /\ Spec => LiveRequestKept
<1>1. ASSUME PhoneInv, SlotInv, [Next]_vars
      PROVE  [LET r == request
              IN  request' \notin {NoRequest, r} /\ r # NoRequest /\ sent[r] = "asked"
                    => r \in expired \/ told[r] \in {"declined", "again"}]_vars
  BY <1>1, SlotChanges DEF SlotInv, SlotIsOpen, Done
<1> QED
  BY <1>1, SlotsAlways, PTL DEF Spec, LiveRequestKept

\* In the released app a request whose withdrawal was verified never comes into the
\* slot, in whatever order and however often the files of KDE Connect arrive and
\* however the process is killed in between; of the LAN, no request is taken to be
\* received twice (KdeConnectInbox.java receive).
THEOREM WithdrawnNeverArrives == ~Development /\ Repeats \subseteq Share /\ Spec => WithdrawnStaysOut
<1>1. ASSUME PhoneInv, ReleasedInv, [Next]_vars
      PROVE  [request' # request => request' \notin heard]_vars
  <2>1. NoRequest \notin heard
    BY <1>1, MailboxAssumption DEF PhoneInv, Types, MailboxTypeOK
  <2> QED
    BY <1>1, <2>1, SlotChanges DEF ReleasedInv, Remembered
<1> QED
  BY <1>1, ReleasedAlways, PTL DEF Spec, WithdrawnStaysOut

\* In the released app no request that is in the slot is signed once its withdrawal was
\* verified: the last look of completeLocked() is under the lock, and what a reset has
\* deleted was for an earlier key (MainActivity.java completeLocked).
THEOREM WithdrawnIsNotSigned == ~Development /\ Repeats \subseteq Share /\ Spec => WithdrawnUnsigned
<1>1. ASSUME PhoneInv, ReleasedInv, [Next]_vars
      PROVE  [\A r \in heard : Asked(r) /\ request = r => told'[r] # "signed"]_vars
  <2> SUFFICES ASSUME NEW r \in heard, Asked(r), request = r, told'[r] = "signed"
               PROVE  FALSE
    OBVIOUS
  <2>1. /\ told \in [Requests -> {"unseen", "asked", "signed", "declined", "again"}]
        /\ r \in Requests /\ NoRequest \notin Requests /\ key \in Nat \ {0}
    BY <1>1, MailboxAssumption DEF PhoneInv, Types, MailboxTypeOK, Keys
  <2>2. PICK s \in Said : Answering(s)
    BY <1>1, <2>1, OneAnswer DEF Arrives, Offered, Asked
  <2>3. r = pending /\ s = "signed" /\ pending # NoRequest
    BY <2>1, <2>2 DEF Answering, Respond, Asked
  <2>4. bound[r] = key /\ bound[r] \in {0, 1}
    BY <1>1, <2>1, <2>3 DEF PhoneInv, Paired, ForKey, ReleasedInv, SlotInv, SlotsTrue
  <2>5. cancel = pending
    BY <1>1, <2>1, <2>3, <2>4 DEF ReleasedInv, Remembered
  <2> QED
    BY <2>2, <2>3, <2>5 DEF Answering
<1> QED
  BY <1>1, ReleasedAlways, PTL DEF Spec, WithdrawnUnsigned
=============================================================================
