------------------------------- MODULE Mailbox -------------------------------
(***************************************************************************)
(* The phone's private mailbox (Bridge.java): one slot per kind of         *)
(* message, the signing key and the paired computers.  Every slot is a     *)
(* file that is replaced atomically; nothing makes two of them one.  A     *)
(* message stands for its request, because every body is bound to it by a  *)
(* signature over its hash.                                                *)
(***************************************************************************)
EXTENDS Naturals

CONSTANTS
  Requests,    \* the requests the computers will ever make
  Computers,   \* the computers that know this phone
  ComputerOf,  \* the computer that makes each request
  Share,       \* requests that travel as KDE Connect files
  Pushed,      \* requests that are pushed over ADB to a debuggable build
  Enrolls,     \* those of them that ask for enrolment
  Repeats,     \* requests whose messages may be received again and again
  Resets       \* how often the user resets the signing key (a bound)

NoRequest == "none"

ASSUME MailboxAssumption ==
  /\ NoRequest \notin Requests
  /\ ComputerOf \in [Requests -> Computers]
  /\ Share \subseteq Requests /\ Pushed \subseteq Requests \ Share
  /\ Enrolls \subseteq Pushed /\ Repeats \subseteq Requests \ Pushed
  /\ Resets \in Nat

Lan == Requests \ (Share \cup Pushed)
Development == Pushed # {}
Keys == 1..(Resets + 1)

VARIABLES
  request, response, receipt, cancel,  \* the four slots
  tombs,    \* withdrawals remembered for files that overtook their request
  key,      \* generation of the signing key in the keystore
  paired,   \* the key each computer's certificate in pairings.json is for
  bound,    \* the key each request's certificate is for
  expired,  \* requests whose two minutes have passed
  note,     \* requests with a notification on the screen
  told,     \* history: what became of each request, "again" if it came back answered
  heard     \* history: the withdrawals the phone has verified and written down

slotVars == <<request, response, receipt, cancel, tombs>>
idVars == <<key, paired>>
clockVars == <<bound, expired>>
historyVars == <<told, heard>>
mailboxVars == <<slotVars, idVars, clockVars, historyVars, note>>

Slot == Requests \cup {NoRequest}
Statuses == {"none", "signed", "declined", "replaced"}

MailboxTypeOK ==
  /\ {request, receipt, cancel} \subseteq Slot
  /\ response \in [id : Slot, status : Statuses]
  /\ tombs \subseteq Share /\ heard \subseteq Requests /\ expired \subseteq Requests /\ note \subseteq Requests
  /\ key \in Keys
  /\ paired \in [Computers -> Keys \cup {0}]
  /\ bound \in [Requests -> Keys \cup {0}]
  /\ told \in [Requests -> {"unseen", "asked", "signed", "declined", "again"}]

NoResponse == [id |-> NoRequest, status |-> "none"]

\* A phone in use: every computer enrolled it with the present key.
MailboxInit ==
  /\ request = NoRequest /\ receipt = NoRequest /\ cancel = NoRequest
  /\ response = NoResponse /\ tombs = {} /\ key = 1
  /\ paired = [c \in Computers |-> 1]
  /\ bound = [r \in Requests |-> 0]
  /\ expired = {} /\ note = {} /\ heard = {}
  /\ told = [r \in Requests |-> "unseen"]

Unknown(r) == paired[ComputerOf[r]] = 0 /\ ~Development

\* Mutant: a request of an earlier key is let through.
ValidForAnyKey(r, k) ==
  /\ ~Unknown(r) /\ r \notin expired
  /\ r \notin Enrolls => paired[ComputerOf[r]] = bound[r]

\* validate(): certificates, signature, freshness, this phone's key, and for
\* all but an enrolment the certificate that was approved.
ValidEver(r, k) ==
  /\ ~Unknown(r) /\ bound[r] = k
  /\ r \notin Enrolls => paired[ComputerOf[r]] = bound[r]

Valid(r, k) == ValidEver(r, k) /\ r \notin expired

\* It throws Expired only for a computer it knows; that comes before the rest.
ThrowsExpired(r) == ~Unknown(r) /\ r \in expired

ConfirmedFinish(r) == response = [id |-> r, status |-> "signed"] /\ receipt = r

\* Mutant: a signed answer counts before the computer has confirmed it.
FinishedUnconfirmed(r) == cancel = r \/ response.id = r

\* The computer withdrew, the user declined, or the receipt came.
Finished(r) ==
  \/ cancel = r
  \/ response.id = r /\ response.status \in {"declined", "replaced"}
  \/ ConfirmedFinish(r)

\* Another request may take the slot.
SlotOpen(k) ==
  request # NoRequest =>
    ThrowsExpired(request) \/ (Valid(request, k) /\ Finished(request))

\* The user may still answer it: it came for the first time, or once more.
Asked(r) == told[r] \in {"asked", "again"}

\* A request comes into the slot.  Nothing remembers that it was answered before.
Offered(r) ==
  told' = [told EXCEPT ![r] = IF @ \in {"unseen", "asked"} THEN "asked" ELSE "again"]

\* An approved enrolment is written to pairings.json, before the response.
Pairs(r) ==
  paired' = IF r \in Enrolls THEN [paired EXCEPT ![ComputerOf[r]] = bound[r]] ELSE paired

\* declined() and signed() write the response slot.
Respond(r, status) ==
  /\ response' = [id |-> r, status |-> status]
  /\ IF status = "signed" THEN Pairs(r) ELSE UNCHANGED paired
  /\ told' = [told EXCEPT ![r] = IF status = "signed" THEN "signed" ELSE "declined"]
=============================================================================
