-------------------------------- MODULE Phone --------------------------------
(***************************************************************************)
(* The whole phone and the computers that know it.  A computer puts the    *)
(* messages of a request on their way and never learns when they arrive;   *)
(* it may give up at any moment, be refused, or verify the signed answer   *)
(* and confirm it.  It may have several requests at once, of host.py and   *)
(* of the helper (session.lock and authority.lock do not exclude another). *)
(***************************************************************************)
EXTENDS PhoneApp

VARIABLE sent   \* what each request is to its computer

phoneVars == <<mailboxVars, serviceVars, appVars>>
vars == <<phoneVars, sent>>

TypeOK ==
  /\ MailboxTypeOK /\ ServiceTypeOK /\ AppTypeOK
  /\ sent \in [Requests -> {"new", "asked", "refused", "withdrawn", "confirmed"}]

Init ==
  /\ MailboxInit /\ ServiceInit /\ AppInit
  /\ sent = [r \in Requests |-> "new"]

Mine(r) == {s \in Requests \ {r} : ComputerOf[s] = ComputerOf[r]}

\* The keys this computer may hold an approved certificate of.
Approved(r) == {1} \cup {bound[e] : e \in {e \in Enrolls \cap Mine(r) : sent[e] = "confirmed"}}

SentTo(r, what) == sent' = [sent EXCEPT ![r] = what]

\* An enrolment names the key the phone published; other requests the approved.
Ask(r) ==
  /\ sent[r] = "new" /\ SentTo(r, "asked")
  /\ \E k \in IF r \in Enrolls THEN 1..key ELSE Approved(r) : bound' = [bound EXCEPT ![r] = k]
  /\ mail' = mail \cup {Message("request", r)}
  /\ UNCHANGED <<slotVars, idVars, expired, historyVars, note, enabled, listening, svcKey, job, appVars>>

\* Where an answer can be read: the LAN listener, the documents provider, ADB.
Readable(r) ==
  /\ response.id = r
  /\ \/ r \in Pushed
     \/ r \in Share /\ request = r /\ ValidEver(r, key) /\ cancel # r
     \/ r \in Lan /\ request = r /\ Valid(r, svcKey) /\ listening /\ job = NoJob

\* The computer verifies a signed answer and confirms it.
HostReads(r) ==
  /\ sent[r] = "asked" /\ r \notin expired /\ Readable(r)
  /\ IF response.status = "signed"
     THEN SentTo(r, "confirmed") /\ mail' = mail \cup {Message("receipt", r)}
     ELSE SentTo(r, "refused") /\ UNCHANGED mail
  /\ UNCHANGED <<mailboxVars, enabled, listening, svcKey, job, appVars>>

\* Canceled, failed, refused or out of time: the signed withdrawal.
HostWithdraws(r) ==
  /\ sent[r] \in {"asked", "refused"} /\ SentTo(r, "withdrawn")
  /\ mail' = mail \cup {Message("cancel", r)}
  /\ UNCHANGED <<mailboxVars, enabled, listening, svcKey, job, appVars>>

\* Two minutes pass; the notification goes with them.
Expire(r) ==
  /\ sent[r] # "new" /\ r \notin expired
  /\ expired' = expired \cup {r} /\ note' = note \ {r}
  /\ UNCHANGED <<slotVars, idVars, bound, historyVars, serviceVars, appVars, sent>>

HostNext == \E r \in Requests : Ask(r) \/ HostReads(r) \/ HostWithdraws(r) \/ Expire(r)

Next ==
  \/ ServiceNext /\ UNCHANGED <<appVars, sent>>
  \/ AppNext /\ UNCHANGED sent
  \/ HostNext

Spec == Init /\ [][Next]_vars

\* Threads of the process are scheduled and the handler of a visible activity
\* polls every second; of the user, the network and the clock nothing is assumed.
FairSpec ==
  /\ Spec
  /\ WF_vars(JobStep /\ UNCHANGED <<appVars, sent>>)
  /\ WF_vars(Poll /\ UNCHANGED sent)
  /\ WF_vars(WipeStep /\ UNCHANGED sent)

\* As FairSpec, and the user opens the app again after leaving it.
OpenedSpec == FairSpec /\ WF_vars(OnStart /\ UNCHANGED sent)

-----------------------------------------------------------------------------
Promise == INSTANCE PhonePromise WITH slot <- request

\* Whatever is tapped, withdrawn, reset or killed, a request is put to the user after
\* it arrived and answered at most once (Bridge.java signed and declined, called from
\* ten places of MainActivity.java).  One that is received again is answered once more
\* only if another has taken its slot meanwhile: while it keeps the slot, answered or
\* not, receiving it again changes nothing (NetworkService.java:213-215,
\* KdeConnectInbox.java:105-107).
AnsweredOnce == Promise!PromiseSpec

\* A request its computer still waits for keeps the slot until it expired or the
\* user declined it, although another thread takes the next request in
\* (NetworkService.java exchange, KdeConnectInbox.java receive).
LiveRequestKept ==
  [][LET r == request
     IN  request' \notin {NoRequest, r} /\ r # NoRequest /\ sent[r] = "asked"
           => r \in expired \/ told[r] \in {"declined", "again"}]_vars

\* A request whose withdrawal the phone has verified never comes into the slot,
\* in whatever order the two files arrive (KdeConnectInbox.java receive).
WithdrawnStaysOut == [][request' # request => request' \notin heard]_vars

\* A withdrawn request is not signed, unless the slot has gone to another one
\* meanwhile (MainActivity.java completeLocked).
WithdrawnUnsigned ==
  [][\A r \in heard : Asked(r) /\ request = r => told'[r] # "signed"]_vars

\* A verified withdrawal takes its request off the screen (pollComputer()).
WithdrawalSeen ==
  \A r \in Requests : (r \in heard /\ pending = r) ~> (pending # r \/ ~visible)

\* A reset between two handlers never makes the new key sign what was made for
\* the old one, or for a computer whose pairing is gone (Bridge.java validate,
\* MainActivity.java resetKey).
SignsForThisKey ==
  [][\A r \in Requests : Asked(r) /\ told'[r] = "signed"
       => bound[r] = key /\ paired'[ComputerOf[r]] = key]_vars

\* The threads that rewrite pairings.json do not undo each other's pairings
\* (Bridge.java signed and receipt).
PairingsKept ==
  [][\A c \in Computers : paired'[c] < paired[c] => Busy]_vars

-----------------------------------------------------------------------------
\* "The signing key and all pairings will be deleted" (MainActivity.java:98):
\* once that is done, no pairing with an earlier key is left.
PairingsForThisKey ==
  ~Busy /\ job = NoJob => \A c \in Computers : paired[c] \in {0, key}

\* A request that is current, valid, in time and not answered.
Latest(r) ==
  request = r /\ Valid(r, key) /\ cancel # r /\ response.id # r /\ sent[r] = "asked"

\* "Open the app again to review the latest request." (MainActivity.java:198):
\* a user who left the app and comes back to stay gets to see a request that the
\* poll has looked at but not shown.
LatestIsReviewed ==
  \A r \in Requests :
    <>[]visible => ((Latest(r) /\ seen = r /\ ~visible) ~> (pending = r \/ ~Latest(r)))
=============================================================================
