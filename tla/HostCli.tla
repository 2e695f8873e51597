------------------------------- MODULE HostCli -------------------------------
(***************************************************************************)
(* host.py as a command: init, enroll, authenticate and revoke, each run   *)
(* as a process of its own over one state directory.  A session lock that  *)
(* is not waited for, the machine's identity in two files, and a database  *)
(* of approved phone keys and of requests.  The phone answers; the user    *)
(* may terminate a session, it may be killed, and files may be lost.       *)
(* The transport is the courier of PhoneRoute.                             *)
(***************************************************************************)
EXTENDS Naturals, Sequences

CONSTANTS
  Sessions,   \* processes; each makes at most one request
  Keys,       \* phone keys
  MaxIds      \* bound: machine keys ever generated

ASSUME CliAssumption == Sessions \subseteq Nat \ {0} /\ 0 \notin Keys /\ MaxIds \in Nat

VARIABLES
  step,      \* where each session is
  does,      \* its command and phone key
  lock,      \* the session holding session.lock
  keyFile,   \* machine-key.pem: which generated key
  certFile,  \* machine-cert.pem: the key it certifies
  ids,       \* how many keys were generated
  approved,  \* approved.certificate: the machine key that issued it
  row,       \* requests.status
  signed,    \* requests that the phone's user has signed
  posted,    \* what the phone has of the request
  told,      \* what was delivered as far as the session knows
  verified,  \* last-verification.json: the session it is about
  lost       \* files the user has lost

identityVars == <<keyFile, certFile, ids>>
mailVars == <<signed, posted, told>>
cliVars == <<step, does, lock, identityVars, approved, row, mailVars, verified, lost>>

Nobody == 0
NoFile == 0
Commands == {"init", "enroll", "authenticate", "revoke"}
Approving == {"request", "poll", "consume", "record", "receipt", "leave"}
NoCommand == [command |-> "none", key |-> 0]
Steps == {"none", "identity", "certify", "recover", "act", "finally", "withdraw",
          "done", "failed", "dead"} \cup Approving
Ended == {"none", "done", "failed", "dead"}
Mail == {"request", "receipt", "cancel"}

CliTypeOK ==
  /\ step \in [Sessions -> Steps]
  /\ does \in [Sessions -> [command : Commands, key : Keys] \cup {NoCommand}]
  /\ lock \in Sessions \cup {Nobody}
  /\ keyFile \in 0..MaxIds /\ certFile \in 0..MaxIds /\ ids \in 0..MaxIds
  /\ approved \in [Keys -> 0..MaxIds]
  /\ row \in [Sessions -> {"none", "pending", "consumed", "canceled"}]
  /\ signed \subseteq Sessions
  /\ posted \in [Sessions -> Seq(Mail)]
  /\ told \in [Sessions -> SUBSET Mail]
  /\ verified \in Sessions \cup {Nobody}
  /\ lost \subseteq {"key", "certificate"}

CliInit ==
  /\ step = [s \in Sessions |-> "none"]
  /\ does = [s \in Sessions |-> NoCommand]
  /\ lock = Nobody
  /\ keyFile = NoFile /\ certFile = NoFile /\ ids = 0
  /\ approved = [k \in Keys |-> NoFile]
  /\ row = [s \in Sessions |-> "none"]
  /\ signed = {}
  /\ posted = [s \in Sessions |-> <<>>]
  /\ told = [s \in Sessions |-> {}]
  /\ verified = Nobody /\ lost = {}

-----------------------------------------------------------------------------
At(s, place) == step[s] = place
Goes(s, place) == step' = [step EXCEPT ![s] = place]
SetRow(s, status) == row' = [row EXCEPT ![s] = status]
Has(s, name) == \E i \in DOMAIN posted[s] : posted[s][i] = name

\* The process is gone, and with it its lock.
Exits(s, how) ==
  /\ Goes(s, how)
  /\ lock' = IF lock = s THEN Nobody ELSE lock

\* main(): the lock is free, or is not waited for.  Sessions are numbered as they
\* come.
Start(s) ==
  /\ At(s, "none") /\ \A r \in Sessions : r < s => ~At(r, "none")
  /\ \/ /\ lock = Nobody /\ lock' = s /\ Goes(s, "identity")
        /\ \E c \in Commands, k \in Keys :
             does' = [does EXCEPT ![s] = [command |-> c, key |-> k]]
     \/ lock # Nobody /\ Goes(s, "failed") /\ UNCHANGED <<lock, does>>
  /\ UNCHANGED <<identityVars, approved, row, mailVars, verified, lost>>

\* Mutant: the certificate is made and stored before the key.
CertFirst(s) ==
  /\ At(s, "identity") /\ does[s].command = "init" /\ keyFile = NoFile /\ ids < MaxIds
  /\ ids' = ids + 1 /\ certFile' = ids' /\ Goes(s, "certify")
  /\ UNCHANGED <<does, lock, keyFile, approved, row, mailVars, verified, lost>>

\* machine_identity(): only init makes a key, and never beside a certificate.
Identify(s) ==
  /\ At(s, "identity")
  /\ \/ /\ keyFile # NoFile /\ Goes(s, "certify") /\ UNCHANGED <<lock, keyFile, ids>>
     \/ /\ keyFile = NoFile /\ does[s].command = "init" /\ certFile = NoFile /\ ids < MaxIds
        /\ ids' = ids + 1 /\ keyFile' = ids' /\ Goes(s, "certify") /\ UNCHANGED lock
     \/ /\ keyFile = NoFile /\ (does[s].command = "init" => certFile # NoFile)
        /\ Exits(s, "failed") /\ UNCHANGED <<keyFile, ids>>
  /\ UNCHANGED <<does, certFile, approved, row, mailVars, verified, lost>>

\* The certificate, recovered for the same key if it is missing.
Certify(s) ==
  /\ At(s, "certify")
  /\ \/ keyFile # NoFile /\ certFile = keyFile /\ Goes(s, "recover") /\ UNCHANGED <<lock, certFile>>
     \/ /\ keyFile # NoFile /\ certFile = NoFile /\ does[s].command = "init"
        /\ certFile' = keyFile /\ Goes(s, "recover") /\ UNCHANGED lock
     \/ /\ keyFile = NoFile \/ certFile # keyFile
        /\ keyFile # NoFile /\ certFile = NoFile => does[s].command # "init"
        /\ Exits(s, "failed") /\ UNCHANGED certFile
  /\ UNCHANGED <<does, keyFile, ids, approved, row, mailVars, verified, lost>>

\* Mutant: what a killed session left is taken to be in progress.
RecoverNothing(s) ==
  /\ At(s, "recover") /\ Goes(s, "act")
  /\ UNCHANGED <<does, lock, identityVars, approved, row, mailVars, verified, lost>>

\* "A process restart cannot revive a previous challenge."
Recover(s) ==
  /\ At(s, "recover") /\ Goes(s, "act")
  /\ row' = [r \in Sessions |-> IF row[r] = "pending" THEN "canceled" ELSE row[r]]
  /\ UNCHANGED <<does, lock, identityVars, approved, mailVars, verified, lost>>

\* init prints what there is, as status does, which changes nothing.
Inspect(s) ==
  /\ At(s, "act") /\ does[s].command = "init" /\ Exits(s, "done")
  /\ UNCHANGED <<does, identityVars, approved, row, mailVars, verified, lost>>

Revoke(s) ==
  /\ At(s, "act") /\ does[s].command = "revoke" /\ Exits(s, "done")
  /\ approved' = [approved EXCEPT ![does[s].key] = NoFile]
  /\ UNCHANGED <<does, identityVars, row, mailVars, verified, lost>>

\* Mutant: the key is approved with the challenge, before it is signed.
PrepareApproves(s) ==
  /\ At(s, "act") /\ does[s].command = "enroll"
  /\ approved' = [approved EXCEPT ![does[s].key] = certFile]
  /\ SetRow(s, "pending") /\ Goes(s, "request")
  /\ UNCHANGED <<does, lock, identityVars, mailVars, verified, lost>>

\* approve() up to its try: a fresh certificate, or the one that was approved if
\* this machine's key signed it; the phone may not be there, or its key another.
Prepare(s) ==
  /\ At(s, "act") /\ does[s].command \in {"enroll", "authenticate"}
  /\ \/ /\ does[s].command = "authenticate" => approved[does[s].key] = certFile
        /\ SetRow(s, "pending") /\ Goes(s, "request") /\ UNCHANGED lock
     \/ Exits(s, "failed") /\ UNCHANGED row
  /\ UNCHANGED <<does, identityVars, approved, mailVars, verified, lost>>

-----------------------------------------------------------------------------
(* Calls of the transport, and what the phone makes of them.               *)

Posts(s, name) == posted' = [posted EXCEPT ![s] = Append(@, name)]

\* write() returned, the message having been accepted.
Delivers(s, name, next) ==
  /\ Posts(s, name) /\ told' = [told EXCEPT ![s] = @ \cup {name}] /\ Goes(s, next)

\* write() raised; the message was accepted all the same, or was not.
Undelivered(s, name, next) ==
  /\ Posts(s, name) \/ UNCHANGED posted
  /\ Goes(s, next) /\ UNCHANGED told

Request(s) ==
  /\ At(s, "request")
  /\ Delivers(s, "request", "poll") \/ Undelivered(s, "request", "finally")
  /\ UNCHANGED <<does, lock, identityVars, approved, row, signed, verified, lost>>

\* Mutant: the session waits for the phone however long.
PollOnly(s) ==
  /\ At(s, "poll")
  /\ s \in signed /\ Goes(s, "consume")
  /\ UNCHANGED <<does, lock, identityVars, approved, row, mailVars, verified, lost>>

\* read(): nothing yet; the signature; a refusal, an error, or two minutes are over.
Poll(s) ==
  /\ At(s, "poll")
  /\ \/ s \in signed /\ Goes(s, "consume")
     \/ Goes(s, "finally")
  /\ UNCHANGED <<does, lock, identityVars, approved, row, mailVars, verified, lost>>

\* One transaction, if the answer came in time.
Consume(s) ==
  /\ At(s, "consume")
  /\ \/ /\ row[s] = "pending" /\ SetRow(s, "consumed") /\ Goes(s, "record")
        /\ approved' = IF does[s].command = "enroll"
                       THEN [approved EXCEPT ![does[s].key] = certFile] ELSE approved
     \/ Goes(s, "finally") /\ UNCHANGED <<row, approved>>
  /\ UNCHANGED <<does, lock, identityVars, mailVars, verified, lost>>

\* last-verification.json, replaced in one rename, or not at all.
Record(s) ==
  /\ At(s, "record")
  /\ \/ verified' = s /\ Goes(s, "receipt")
     \/ Goes(s, "finally") /\ UNCHANGED verified
  /\ UNCHANGED <<does, lock, identityVars, approved, row, mailVars, lost>>

Receipt(s) ==
  /\ At(s, "receipt")
  /\ Delivers(s, "receipt", "leave") \/ Undelivered(s, "receipt", "finally")
  /\ UNCHANGED <<does, lock, identityVars, approved, row, signed, verified, lost>>

\* Success is printed; finally finds the row consumed.
Leave(s) ==
  /\ At(s, "leave") /\ Exits(s, "done")
  /\ UNCHANGED <<does, identityVars, approved, row, mailVars, verified, lost>>

\* Mutant: every way out that is not a success is withdrawn.
FinallyAlways(s) ==
  /\ At(s, "finally")
  /\ row' = [row EXCEPT ![s] = IF @ = "pending" THEN "canceled" ELSE @]
  /\ Goes(s, "withdraw")
  /\ UNCHANGED <<does, lock, identityVars, approved, mailVars, verified, lost>>

\* finally: only a row that is still pending is canceled and withdrawn.
Finally(s) ==
  /\ At(s, "finally")
  /\ \/ row[s] = "pending" /\ SetRow(s, "canceled") /\ Goes(s, "withdraw") /\ UNCHANGED lock
     \/ row[s] # "pending" /\ Exits(s, "failed") /\ UNCHANGED row
  /\ UNCHANGED <<does, identityVars, approved, mailVars, verified, lost>>

Withdraw(s) ==
  /\ At(s, "withdraw") /\ Exits(s, "failed")
  /\ \/ Posts(s, "cancel") /\ told' = [told EXCEPT ![s] = @ \cup {"cancel"}]
     \/ Posts(s, "cancel") /\ UNCHANGED told
     \/ UNCHANGED <<posted, told>>
  /\ UNCHANGED <<does, identityVars, approved, row, signed, verified, lost>>

-----------------------------------------------------------------------------
\* A call on its way when its session is interrupted may arrive.
InFlight(s) ==
  \/ UNCHANGED posted
  \/ \E name \in Mail :
       At(s, IF name = "cancel" THEN "withdraw" ELSE name) /\ Posts(s, name)

\* SIGTERM raises KeyboardInterrupt: inside the try it leads to finally, and
\* before it or inside finally straight out.
Interrupt(s) ==
  /\ \/ step[s] \in Approving /\ Goes(s, "finally") /\ UNCHANGED lock
     \/ step[s] \notin Ended \cup (Approving \ {"request"}) /\ Exits(s, "failed")
  /\ InFlight(s)
  /\ UNCHANGED <<does, identityVars, approved, row, signed, told, verified, lost>>

\* SIGKILL or a crash.
Kill(s) ==
  /\ step[s] \notin Ended /\ Exits(s, "dead") /\ InFlight(s)
  /\ UNCHANGED <<does, identityVars, approved, row, signed, told, verified, lost>>

\* The phone's user, while the request is there and not withdrawn; to decline it
\* makes read() raise, like an error.
PhoneSigns(s) ==
  /\ Has(s, "request") /\ ~Has(s, "cancel") /\ s \notin signed
  /\ signed' = signed \cup {s}
  /\ UNCHANGED <<step, does, lock, identityVars, approved, row, posted, told, verified, lost>>

\* A file of the machine identity is lost while no session runs.
LoseFile ==
  /\ lock = Nobody
  /\ \/ lost' = lost \cup {"key"} /\ keyFile # NoFile /\ keyFile' = NoFile /\ UNCHANGED certFile
     \/ /\ lost' = lost \cup {"certificate"} /\ certFile # NoFile
        /\ certFile' = NoFile /\ UNCHANGED keyFile
  /\ lost' # lost
  /\ UNCHANGED <<step, does, lock, ids, approved, row, mailVars, verified>>

SessionStep(s) ==
  \/ Identify(s) \/ Certify(s) \/ Recover(s) \/ Inspect(s) \/ Revoke(s) \/ Prepare(s)
  \/ Request(s) \/ Poll(s) \/ Consume(s) \/ Record(s) \/ Receipt(s) \/ Leave(s)
  \/ Finally(s) \/ Withdraw(s)

CliNext ==
  \/ \E s \in Sessions :
       Start(s) \/ SessionStep(s) \/ Interrupt(s) \/ Kill(s) \/ PhoneSigns(s)
  \/ LoseFile

\* Calls of the transport end and polling has a deadline, so a session goes on.
CliFairness == \A s \in Sessions : WF_cliVars(SessionStep(s))

CliSpec == CliInit /\ [][CliNext]_cliVars /\ CliFairness
-----------------------------------------------------------------------------
\* While a session has a challenge out, no challenge of another session can be
\* used up, not even one a killed session left (session.lock, the startup update).
OneChallenge ==
  \A s, r \in Sessions : step[s] \in Approving /\ row[r] = "pending" => r = s

\* What the phone and the user are told is true: a receipt only for a consumed,
\* signed challenge, a withdrawal only for a canceled one, and success only when
\* the receipt was delivered, whatever was interrupted (approve()'s finally).
MessagesHonest ==
  \A s \in Sessions :
    /\ Has(s, "receipt") \/ verified = s => row[s] = "consumed" /\ s \in signed
    /\ Has(s, "cancel") => row[s] = "canceled"
    /\ At(s, "done") /\ does[s].command \in {"enroll", "authenticate"} => "receipt" \in told[s]

\* The machine's key and certificate belong together, and a crash of init leaves
\* no certificate without its key (machine_identity).
IdentityStands ==
  certFile # NoFile => keyFile = certFile \/ (keyFile = NoFile /\ "key" \in lost)

\* Every session comes to an end and frees the lock, interrupted or not.
SessionsEnd == \A s \in Sessions : step[s] \notin Ended ~> lock # s

=============================================================================
