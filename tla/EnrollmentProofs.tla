-------------------------- MODULE EnrollmentProofs --------------------------
(***************************************************************************)
(* Theorems about the command line and the administrator beside it: they   *)
(* hold for every number of sessions, phone keys and machine keys.         *)
(***************************************************************************)
EXTENDS Configurator, TLAPS

\* A session that runs holds the lock.
LockHeld == \A s \in Sessions : step[s] \notin Ended => lock = s

\* What a session has or has not done yet, by its place.
Unasked == {"none", "identity", "certify", "recover", "act"}

Fresh == \A s \in Sessions :
  step[s] \in Unasked => row[s] = "none" /\ posted[s] = <<>> /\ verified # s

\* After its recovery no challenge is out but its own.
SoleChallenge == \A s, r \in Sessions :
  row[r] = "pending" =>
    /\ step[s] # "act"
    /\ step[s] \in Approving \cup {"finally"} => r = s

Signed == \A s \in Sessions : step[s] = "consume" \/ row[s] = "consumed" => s \in signed

Rows == \A s \in Sessions :
  /\ step[s] \in {"record", "receipt", "leave"} => row[s] = "consumed"
  /\ step[s] = "withdraw" => row[s] = "canceled"
  /\ step[s] = "leave" => "receipt" \in told[s]

CliInv == CliTypeOK /\ LockHeld /\ Fresh /\ SoleChallenge /\ Signed /\ Rows /\ MessagesHonest

-----------------------------------------------------------------------------
(* Type correctness.                                                       *)

\* A message is appended to those of one session.
LEMMA PostsTyped ==
  ASSUME posted \in [Sessions -> Seq(Mail)], NEW s \in Sessions, NEW n \in Mail, Posts(s, n)
  PROVE  posted' \in [Sessions -> Seq(Mail)]
  BY DEF Posts

\* A call that is interrupted posts at most its own message.
LEMMA InFlightTyped ==
  ASSUME posted \in [Sessions -> Seq(Mail)], NEW s \in Sessions, InFlight(s)
  PROVE  posted' \in [Sessions -> Seq(Mail)]
  BY PostsTyped DEF InFlight

\* Where a step takes a session, and whom it leaves the lock.
LEMMA StepMoves ==
  ASSUME CliTypeOK, CliNext
  PROVE  \/ UNCHANGED <<step, lock>>
         \/ \E s \in Sessions : /\ step[s] \in Steps \ {"done", "failed", "dead"}
                                /\ \E p \in Steps : Goes(s, p)
                                /\ lock' \in {lock, s, Nobody}
<1> USE DEF Steps, Approving, Ended, At, Goes, Exits
<1>1. ASSUME NEW s \in Sessions, Start(s) \/ Identify(s) \/ Certify(s) \/ Recover(s)
      PROVE  /\ step[s] \in Steps \ {"done", "failed", "dead"}
             /\ \E p \in Steps : Goes(s, p)
             /\ lock' \in {lock, s, Nobody}
  BY <1>1 DEF Start, Identify, Certify, Recover
<1>2. ASSUME NEW s \in Sessions, Inspect(s) \/ Revoke(s) \/ Prepare(s) \/ Request(s) \/ Poll(s)
      PROVE  /\ step[s] \in Steps \ {"done", "failed", "dead"}
             /\ \E p \in Steps : Goes(s, p)
             /\ lock' \in {lock, s, Nobody}
  BY <1>2 DEF Inspect, Revoke, Prepare, Request, Poll, Delivers, Undelivered
<1>3. ASSUME NEW s \in Sessions,
             Consume(s) \/ Record(s) \/ Receipt(s) \/ Leave(s) \/ Finally(s) \/ Withdraw(s)
      PROVE  /\ step[s] \in Steps \ {"done", "failed", "dead"}
             /\ \E p \in Steps : Goes(s, p)
             /\ lock' \in {lock, s, Nobody}
  BY <1>3 DEF Consume, Record, Receipt, Leave, Finally, Withdraw, Delivers, Undelivered
<1>4. ASSUME NEW s \in Sessions, Interrupt(s) \/ Kill(s)
      PROVE  /\ step[s] \in Steps \ {"done", "failed", "dead"}
             /\ \E p \in Steps : Goes(s, p)
             /\ lock' \in {lock, s, Nobody}
  BY <1>4 DEF Interrupt, Kill, CliTypeOK
<1> QED
  BY <1>1, <1>2, <1>3, <1>4 DEF CliNext, SessionStep, PhoneSigns, LoseFile

\* The types of the other variables, which few steps touch.
LEMMA StepsTyped == ASSUME CliTypeOK, CliNext PROVE CliTypeOK'
<1> USE CliAssumption DEF CliTypeOK
<1>1. step' \in [Sessions -> Steps] /\ lock' \in Sessions \cup {Nobody}
  BY StepMoves DEF Goes
<1>2. does' \in [Sessions -> [command : Commands, key : Keys] \cup {NoCommand}]
  <2>1. \/ UNCHANGED does
        \/ \E s \in Sessions, c \in Commands, k \in Keys :
             does' = [does EXCEPT ![s] = [command |-> c, key |-> k]]
    BY DEF CliNext, SessionStep, Start, Identify, Certify, Recover, Inspect, Revoke, Prepare,
           Request, Poll, Consume, Record, Receipt, Leave, Finally, Withdraw, Interrupt, Kill,
           PhoneSigns, LoseFile
  <2> QED
    BY <2>1
<1>3. keyFile' \in 0..MaxIds /\ certFile' \in 0..MaxIds /\ ids' \in 0..MaxIds
  <2>1. \/ UNCHANGED identityVars
        \/ LoseFile
        \/ \E s \in Sessions : Identify(s) \/ Certify(s)
    BY DEF identityVars, CliNext, SessionStep, Start, Recover, Inspect, Revoke, Prepare,
           Request, Poll, Consume, Record, Receipt, Leave, Finally, Withdraw, Interrupt, Kill,
           PhoneSigns
  <2> QED
    BY <2>1 DEF identityVars, LoseFile, Identify, Certify, NoFile
<1>4. approved' \in [Keys -> 0..MaxIds]
  <2>1. UNCHANGED approved \/ \E s \in Sessions : Revoke(s) \/ Consume(s)
    BY DEF CliNext, SessionStep, Start, Identify, Certify, Recover, Inspect, Prepare,
           Request, Poll, Record, Receipt, Leave, Finally, Withdraw, Interrupt, Kill,
           PhoneSigns, LoseFile
  <2> QED
    BY <2>1 DEF Revoke, Consume, NoFile
<1>5. row' \in [Sessions -> {"none", "pending", "consumed", "canceled"}]
  <2>1. \/ UNCHANGED row
        \/ \E s \in Sessions : Recover(s) \/ Prepare(s) \/ Consume(s) \/ Finally(s)
    BY DEF CliNext, SessionStep, Start, Identify, Certify, Inspect, Revoke,
           Request, Poll, Record, Receipt, Leave, Withdraw, Interrupt, Kill, PhoneSigns, LoseFile
  <2> QED
    BY <2>1 DEF Recover, Prepare, Consume, Finally, SetRow
<1>6. posted' \in [Sessions -> Seq(Mail)]
  <2>1. UNCHANGED posted \/ \E s \in Sessions, n \in Mail : Posts(s, n)
    BY DEF CliNext, SessionStep, Start, Identify, Certify, Recover, Inspect, Revoke, Prepare,
           Request, Poll, Consume, Record, Receipt, Leave, Finally, Withdraw, Interrupt, Kill,
           PhoneSigns, LoseFile, mailVars, Delivers, Undelivered, InFlight, Mail
  <2> QED
    BY <2>1, PostsTyped
<1>7. told' \in [Sessions -> SUBSET Mail]
  <2>1. \/ UNCHANGED told
        \/ \E s \in Sessions, n \in Mail : told' = [told EXCEPT ![s] = @ \cup {n}]
    BY DEF CliNext, SessionStep, Start, Identify, Certify, Recover, Inspect, Revoke, Prepare,
           Request, Poll, Consume, Record, Receipt, Leave, Finally, Withdraw, Interrupt, Kill,
           PhoneSigns, LoseFile, mailVars, Delivers, Undelivered, Mail
  <2> QED
    BY <2>1
<1>8. signed' \subseteq Sessions /\ verified' \in Sessions \cup {Nobody}
      /\ lost' \subseteq {"key", "certificate"}
  <2>1. \/ UNCHANGED <<signed, verified, lost>> \/ LoseFile
        \/ \E s \in Sessions : PhoneSigns(s) \/ Record(s)
    BY DEF CliNext, SessionStep, Start, Identify, Certify, Recover, Inspect, Revoke, Prepare,
           Request, Poll, Consume, Receipt, Leave, Finally, Withdraw, Interrupt, Kill,
           mailVars, Delivers, Undelivered
  <2> QED
    BY <2>1 DEF PhoneSigns, Record, LoseFile, mailVars
<1> QED
  BY <1>1, <1>2, <1>3, <1>4, <1>5, <1>6, <1>7, <1>8

-----------------------------------------------------------------------------
(* The lock, and what it keeps apart.                                      *)

\* The lock is taken when it is free, and left with the process.
LEMMA LockStep == ASSUME CliTypeOK, LockHeld, CliNext PROVE LockHeld'
<1> USE CliAssumption DEF LockHeld, CliTypeOK, At, Goes, Exits, Ended, Nobody
<1>1. ASSUME NEW s \in Sessions, Start(s) PROVE LockHeld'
  BY <1>1 DEF Start
<1>2. ASSUME NEW s \in Sessions, Identify(s) \/ Certify(s) \/ Recover(s) PROVE LockHeld'
  BY <1>2 DEF Identify, Certify, Recover
<1>3. ASSUME NEW s \in Sessions, Inspect(s) \/ Revoke(s) \/ Prepare(s) \/ Request(s) \/ Poll(s)
      PROVE  LockHeld'
  BY <1>3 DEF Inspect, Revoke, Prepare, Request, Poll, Delivers, Undelivered
<1>4. ASSUME NEW s \in Sessions,
             Consume(s) \/ Record(s) \/ Receipt(s) \/ Leave(s) \/ Finally(s) \/ Withdraw(s)
      PROVE  LockHeld'
  BY <1>4 DEF Consume, Record, Receipt, Leave, Finally, Withdraw, Delivers, Undelivered
<1>5. ASSUME NEW s \in Sessions, Interrupt(s) \/ Kill(s) PROVE LockHeld'
  BY <1>5 DEF Interrupt, Kill, Approving
<1> QED
  BY <1>1, <1>2, <1>3, <1>4, <1>5 DEF CliNext, SessionStep, PhoneSigns, LoseFile

\* A session that has not begun to ask has left nothing anywhere.
LEMMA FreshStep == ASSUME CliTypeOK, Fresh, CliNext PROVE Fresh'
<1> USE CliAssumption DEF Fresh, Unasked, CliTypeOK, At, Goes, Exits, SetRow, Posts, identityVars, mailVars
<1>1. ASSUME NEW s \in Sessions, Start(s) PROVE Fresh'
  BY <1>1 DEF Start
<1>2. ASSUME NEW s \in Sessions, Identify(s) \/ Certify(s) \/ Recover(s) PROVE Fresh'
  BY <1>2 DEF Identify, Certify, Recover
<1>3. ASSUME NEW s \in Sessions, Inspect(s) \/ Revoke(s) \/ Prepare(s) \/ Request(s) \/ Poll(s)
      PROVE  Fresh'
  BY <1>3 DEF Inspect, Revoke, Prepare, Request, Poll, Delivers, Undelivered
<1>4. ASSUME NEW s \in Sessions,
             Consume(s) \/ Record(s) \/ Receipt(s) \/ Leave(s) \/ Finally(s) \/ Withdraw(s)
      PROVE  Fresh'
  <2>1. CASE Consume(s) \/ Record(s)
    BY <2>1 DEF Consume, Record
  <2>2. CASE Receipt(s) \/ Leave(s)
    BY <2>2 DEF Receipt, Leave, Delivers, Undelivered
  <2>3. CASE Finally(s) \/ Withdraw(s)
    BY <2>3 DEF Finally, Withdraw, Delivers, Undelivered
  <2> QED
    BY <1>4, <2>1, <2>2, <2>3
<1>5. ASSUME NEW s \in Sessions, Interrupt(s) \/ Kill(s) PROVE Fresh'
  BY <1>5 DEF Interrupt, Kill, Approving, InFlight, Ended
<1>6. ASSUME NEW s \in Sessions, PhoneSigns(s) PROVE Fresh'
  BY <1>6 DEF PhoneSigns
<1>7. CASE LoseFile
  BY <1>7 DEF LoseFile
<1> QED
  BY <1>1, <1>2, <1>3, <1>4, <1>5, <1>6, <1>7 DEF CliNext, SessionStep

\* Recovery cancels what is out, and only the one session inside asks again.
LEMMA SoleStep ==
  ASSUME CliTypeOK, LockHeld, Fresh, SoleChallenge, CliNext
  PROVE  SoleChallenge'
<1> USE CliAssumption
    DEF SoleChallenge, LockHeld, CliTypeOK, At, Goes, Exits, SetRow, Approving, Ended, Nobody
<1>1. ASSUME NEW s \in Sessions, Start(s) PROVE SoleChallenge'
  BY <1>1 DEF Start
<1>2. ASSUME NEW s \in Sessions, Identify(s) \/ Certify(s) \/ Recover(s) PROVE SoleChallenge'
  BY <1>2 DEF Identify, Certify, Recover
<1>3. ASSUME NEW s \in Sessions, Inspect(s) \/ Revoke(s) \/ Prepare(s) \/ Request(s) \/ Poll(s)
      PROVE  SoleChallenge'
  <2>1. CASE Inspect(s) \/ Revoke(s)
    BY <2>1 DEF Inspect, Revoke
  <2>2. CASE Prepare(s)
    BY <2>2 DEF Prepare
  <2>3. CASE Request(s) \/ Poll(s)
    BY <2>3 DEF Request, Poll, Delivers, Undelivered
  <2> QED
    BY <1>3, <2>1, <2>2, <2>3
<1>4. ASSUME NEW s \in Sessions,
             Consume(s) \/ Record(s) \/ Receipt(s) \/ Leave(s) \/ Finally(s) \/ Withdraw(s)
      PROVE  SoleChallenge'
  BY <1>4 DEF Consume, Record, Receipt, Leave, Finally, Withdraw, Delivers, Undelivered
<1>5. ASSUME NEW s \in Sessions, Interrupt(s) \/ Kill(s) PROVE SoleChallenge'
  BY <1>5 DEF Interrupt, Kill
<1>6. ASSUME NEW s \in Sessions, PhoneSigns(s) PROVE SoleChallenge'
  BY <1>6 DEF PhoneSigns
<1>7. CASE LoseFile
  BY <1>7 DEF LoseFile, mailVars
<1> QED
  BY <1>1, <1>2, <1>3, <1>4, <1>5, <1>6, <1>7 DEF CliNext, SessionStep

-----------------------------------------------------------------------------
(* What is consumed was signed, and what is said is so.                    *)

\* A challenge is used up only with the signature of the phone.
LEMMA SignedStep == ASSUME CliTypeOK, Fresh, Signed, CliNext PROVE Signed'
<1> USE DEF Signed, Fresh, Unasked, CliTypeOK, At, Goes, Exits, SetRow, Approving, Ended,
            identityVars, mailVars
<1>1. ASSUME NEW s \in Sessions, Start(s) \/ Identify(s) \/ Certify(s) \/ Recover(s)
      PROVE  Signed'
  BY <1>1 DEF Start, Identify, Certify, Recover
<1>2. ASSUME NEW s \in Sessions, Inspect(s) \/ Revoke(s) \/ Prepare(s) \/ Request(s) \/ Poll(s)
      PROVE  Signed'
  BY <1>2 DEF Inspect, Revoke, Prepare, Request, Poll, Delivers, Undelivered
<1>3. ASSUME NEW s \in Sessions,
             Consume(s) \/ Record(s) \/ Receipt(s) \/ Leave(s) \/ Finally(s) \/ Withdraw(s)
      PROVE  Signed'
  BY <1>3 DEF Consume, Record, Receipt, Leave, Finally, Withdraw, Delivers, Undelivered
<1>4. ASSUME NEW s \in Sessions, Interrupt(s) \/ Kill(s) \/ PhoneSigns(s) PROVE Signed'
  BY <1>4 DEF Interrupt, Kill, PhoneSigns
<1>5. CASE LoseFile
  BY <1>5 DEF LoseFile
<1> QED
  BY <1>1, <1>2, <1>3, <1>4, <1>5 DEF CliNext, SessionStep

\* A session keeps its place and its row together.
LEMMA RowsStep == ASSUME CliTypeOK, LockHeld, Rows, CliNext PROVE Rows'
<1> USE CliAssumption
    DEF Rows, LockHeld, CliTypeOK, At, Goes, Exits, SetRow, Approving, Ended, Nobody,
        identityVars, mailVars
<1>1. ASSUME NEW s \in Sessions, Start(s) \/ Identify(s) \/ Certify(s) \/ Recover(s)
      PROVE  Rows'
  BY <1>1 DEF Start, Identify, Certify, Recover
<1>2. ASSUME NEW s \in Sessions, Inspect(s) \/ Revoke(s) \/ Prepare(s) \/ Request(s) \/ Poll(s)
      PROVE  Rows'
  BY <1>2 DEF Inspect, Revoke, Prepare, Request, Poll, Delivers, Undelivered
<1>3. ASSUME NEW s \in Sessions,
             Consume(s) \/ Record(s) \/ Receipt(s) \/ Leave(s) \/ Finally(s) \/ Withdraw(s)
      PROVE  Rows'
  BY <1>3 DEF Consume, Record, Receipt, Leave, Finally, Withdraw, Delivers, Undelivered
<1>4. ASSUME NEW s \in Sessions, Interrupt(s) \/ Kill(s) \/ PhoneSigns(s) PROVE Rows'
  BY <1>4 DEF Interrupt, Kill, PhoneSigns
<1>5. CASE LoseFile
  BY <1>5 DEF LoseFile
<1> QED
  BY <1>1, <1>2, <1>3, <1>4, <1>5 DEF CliNext, SessionStep

\* One more message, of one session.
LEMMA Posted ==
  ASSUME CliTypeOK, NEW s \in Sessions, NEW n \in Mail, Posts(s, n),
         NEW q \in Sessions, NEW m, Has(q, m)'
  PROVE  Has(q, m) \/ (q = s /\ m = n)
  BY DEF CliTypeOK, Posts, Has

\* A consumed row stays one, and a canceled one stays canceled.
LEMMA RowsStay ==
  ASSUME CliTypeOK, Fresh, CliNext, NEW q \in Sessions
  PROVE  /\ row[q] \in {"consumed", "canceled"} => row'[q] = row[q]
         /\ signed \subseteq signed'
         /\ told[q] \subseteq told'[q]
         /\ step[q] # "none" => does'[q] = does[q]
<1> USE DEF Fresh, Unasked, CliTypeOK, At, SetRow, mailVars
<1>1. row[q] \in {"consumed", "canceled"} => row'[q] = row[q]
  BY DEF CliNext, SessionStep, Start, Identify, Certify, Recover, Inspect, Revoke, Prepare,
         Request, Poll, Consume, Record, Receipt, Leave, Finally, Withdraw, Interrupt, Kill,
         PhoneSigns, LoseFile
<1>2. signed \subseteq signed'
  BY DEF CliNext, SessionStep, Start, Identify, Certify, Recover, Inspect, Revoke, Prepare,
         Request, Poll, Consume, Record, Receipt, Leave, Finally, Withdraw, Interrupt, Kill,
         PhoneSigns, LoseFile
<1>3. told[q] \subseteq told'[q]
  <2>1. \/ UNCHANGED told
        \/ \E s \in Sessions, n \in Mail : told' = [told EXCEPT ![s] = @ \cup {n}]
    BY DEF CliNext, SessionStep, Start, Identify, Certify, Recover, Inspect, Revoke, Prepare,
           Request, Poll, Consume, Record, Receipt, Leave, Finally, Withdraw, Interrupt, Kill,
           PhoneSigns, LoseFile, Delivers, Undelivered, Mail
  <2>2. ASSUME NEW s \in Sessions, NEW n \in Mail, told' = [told EXCEPT ![s] = @ \cup {n}]
        PROVE  told[q] \subseteq told'[q]
    <3>1. CASE q = s
      BY <2>2, <3>1
    <3>2. CASE q # s
      BY <2>2, <3>2
    <3> QED
      BY <3>1, <3>2
  <2>3. CASE UNCHANGED told
    BY <2>3
  <2> QED
    BY <2>1, <2>2, <2>3
<1>4. step[q] # "none" => does'[q] = does[q]
  BY DEF CliNext, SessionStep, Start, Identify, Certify, Recover, Inspect, Revoke, Prepare,
         Request, Poll, Consume, Record, Receipt, Leave, Finally, Withdraw, Interrupt, Kill,
         PhoneSigns, LoseFile
<1> QED
  BY <1>1, <1>2, <1>3, <1>4

\* Where a message was posted, its session was at that message.
LEMMA PostedAt ==
  ASSUME CliTypeOK, Rows, CliNext, NEW q \in Sessions
  PROVE  /\ Has(q, "receipt")' => Has(q, "receipt") \/ row[q] = "consumed"
         /\ Has(q, "cancel")' => Has(q, "cancel") \/ row[q] = "canceled"
<1>1. \/ UNCHANGED posted
      \/ \E s \in Sessions, n \in Mail :
           /\ Posts(s, n)
           /\ step[s] = IF n = "cancel" THEN "withdraw" ELSE n
  BY DEF CliNext, SessionStep, Start, Identify, Certify, Recover, Inspect, Revoke, Prepare,
         Request, Poll, Consume, Record, Receipt, Leave, Finally, Withdraw, Interrupt, Kill,
         PhoneSigns, LoseFile, mailVars, Delivers, Undelivered, InFlight, Mail, At
<1>2. CASE UNCHANGED posted
  BY <1>2 DEF Has
<1>3. ASSUME NEW s \in Sessions, NEW n \in Mail, Posts(s, n),
             step[s] = IF n = "cancel" THEN "withdraw" ELSE n
      PROVE  /\ Has(q, "receipt")' => Has(q, "receipt") \/ row[q] = "consumed"
             /\ Has(q, "cancel")' => Has(q, "cancel") \/ row[q] = "canceled"
  BY <1>3, Posted DEF Rows, Mail
<1> QED
  BY <1>1, <1>2, <1>3

\* So the phone and the user are told only what is true.
LEMMA HonestStep ==
  ASSUME CliTypeOK, Fresh, Signed, Signed', Rows, MessagesHonest, CliNext
  PROVE  MessagesHonest'
<1> SUFFICES ASSUME NEW q \in Sessions
    PROVE  /\ Has(q, "receipt")' \/ verified' = q => row'[q] = "consumed" /\ q \in signed'
           /\ Has(q, "cancel")' => row'[q] = "canceled"
           /\ step'[q] = "done" /\ does'[q].command \in {"enroll", "authenticate"}
                => "receipt" \in told'[q]
  BY DEF MessagesHonest, At
<1>1. verified' = q => verified = q \/ row[q] = "consumed"
  BY DEF CliNext, SessionStep, Start, Identify, Certify, Recover, Inspect, Revoke, Prepare,
         Request, Poll, Consume, Record, Receipt, Leave, Finally, Withdraw, Interrupt, Kill,
         PhoneSigns, LoseFile, At, Rows
<1>2. step'[q] = "done" /\ step[q] # "done" =>
        \/ step[q] = "act" /\ does[q].command \in {"init", "revoke"}
        \/ step[q] = "leave"
  BY DEF CliNext, SessionStep, Start, Identify, Certify, Recover, Inspect, Revoke, Prepare,
         Request, Poll, Consume, Record, Receipt, Leave, Finally, Withdraw, Interrupt, Kill,
         PhoneSigns, LoseFile, At, Goes, Exits, Delivers, Undelivered, CliTypeOK
<1>3. /\ Has(q, "receipt")' \/ verified' = q => row'[q] = "consumed" /\ q \in signed'
      /\ Has(q, "cancel")' => row'[q] = "canceled"
  BY <1>1, PostedAt, RowsStay DEF MessagesHonest, Signed
<1>4. step'[q] = "done" /\ does'[q].command \in {"enroll", "authenticate"}
        => "receipt" \in told'[q]
  BY <1>2, RowsStay DEF MessagesHonest, Rows, At
<1> QED
  BY <1>3, <1>4

-----------------------------------------------------------------------------
(* The invariant of the command line, and the identity of the machine.     *)

\* All of it holds at first.
LEMMA CliStarts == CliInit => CliInv /\ IdentityStands
<1> SUFFICES ASSUME CliInit PROVE CliInv /\ IdentityStands
  OBVIOUS
<1>1. [s \in Sessions |-> <<>>] \in [Sessions -> Seq(Mail)]
  OBVIOUS
<1>2. CliTypeOK
  BY <1>1, CliAssumption DEF CliInit, CliTypeOK, Steps, NoFile, Nobody
<1>3. LockHeld /\ Fresh /\ SoleChallenge /\ Signed /\ Rows
  BY CliAssumption
  DEF CliInit, LockHeld, Fresh, Unasked, SoleChallenge, Signed, Rows, Ended, Nobody
<1>4. MessagesHonest
  <2>1. \A s \in Sessions : \A n : ~Has(s, n)
    BY DEF CliInit, Has
  <2> QED
    BY <2>1, CliAssumption DEF CliInit, MessagesHonest, At, Nobody
<1>5. IdentityStands
  BY DEF CliInit, IdentityStands
<1> QED
  BY <1>2, <1>3, <1>4, <1>5 DEF CliInv

\* And every step of a session keeps it.
LEMMA CliStep == ASSUME CliInv, CliNext PROVE CliInv'
<1> USE DEF CliInv
<1>1. CliTypeOK' /\ LockHeld' /\ Fresh' /\ SoleChallenge' /\ Signed' /\ Rows'
  BY StepsTyped, LockStep, FreshStep, SoleStep, SignedStep, RowsStep
<1> QED
  BY <1>1, HonestStep

\* A certificate is written behind its key, and no key beside a certificate.
LEMMA IdentityStep == ASSUME IdentityStands, CliNext PROVE IdentityStands'
<1>1. \/ UNCHANGED <<keyFile, certFile, lost>>
      \/ LoseFile
      \/ \E s \in Sessions : Identify(s) \/ Certify(s)
  BY DEF identityVars, CliNext, SessionStep, Start, Recover, Inspect, Revoke, Prepare,
         Request, Poll, Consume, Record, Receipt, Leave, Finally, Withdraw, Interrupt, Kill,
         PhoneSigns
<1> QED
  BY <1>1 DEF IdentityStands, LoseFile, Identify, Certify, NoFile

\* A challenge that may still be used up is the only one.
LEMMA SoleIsOne == CliInv => OneChallenge
  BY DEF CliInv, SoleChallenge, OneChallenge

-----------------------------------------------------------------------------
(* The administrator.                                                      *)

\* What has been written agrees with what is being installed.
AdmInv ==
  /\ ConfTypeOK
  /\ adm.at \in {"key", "certificate", "config"} => conf = NoConf \/ conf.machine = adm.machine
  /\ adm.at \in {"certificate", "config"} => rootKey = adm.machine
  /\ adm.at = "config" => rootCert = adm.machine
  /\ adm.at = "revoke" => conf # NoConf /\ conf.machine = adm.machine
  /\ ConfigMatchesKeys

\* Nothing is installed at first.
LEMMA AdmStarts == ConfInit => AdmInv
  BY CliAssumption
  DEF ConfInit, AdmInv, ConfTypeOK, ConfigMatchesKeys, NoRun, NoConf, NoFile, Confs, Runs

\* A run in progress keeps what it was told while it goes on.
LEMMA AdmMoves ==
  ASSUME ConfTypeOK, adm.at # "none", NEW p, AdmGoes(p),
         p \in {"approval", "compare", "key", "certificate", "config", "check"}
  PROVE  /\ adm \in Runs /\ adm' \in Runs
         /\ adm'.at = p /\ adm'.machine = adm.machine /\ adm'.phone = adm.phone
<1>1. adm \in Runs
  BY DEF ConfTypeOK, NoRun
<1> QED
  BY <1>1 DEF AdmGoes, Runs

\* Each file is replaced only by the one that belongs to the configuration.
LEMMA AdmStep == ASSUME CliTypeOK, AdmInv, ConfStep PROVE AdmInv'
<1> USE CliAssumption DEF AdmInv, ConfTypeOK, ConfigMatchesKeys, NoRun, NoConf, NoFile, AdmAt, rootVars
<1>1. CASE Install
  BY <1>1 DEF Install, Runs, CliTypeOK
<1>2. CASE ReadIdentity \/ ReadApproval
  BY <1>2, AdmMoves DEF ReadIdentity, ReadApproval
<1>3. CASE Compare
  BY <1>3, AdmMoves DEF Compare
<1>4. CASE WriteKey
  <2>1. adm.machine \in 1..MaxIds
    BY <1>4 DEF WriteKey, Runs
  <2> QED
    BY <1>4, <2>1, AdmMoves DEF WriteKey, Confs
<1>5. CASE WriteCertificate
  <2>1. adm.machine \in 1..MaxIds
    BY <1>5 DEF WriteCertificate, Runs
  <2> QED
    BY <1>5, <2>1, AdmMoves DEF WriteCertificate, Confs
<1>6. CASE WriteConfig
  <2>1. adm.machine \in 1..MaxIds /\ adm.phone \in Keys
    BY <1>6 DEF WriteConfig, Runs
  <2> QED
    BY <1>6, <2>1, AdmMoves DEF WriteConfig, Confs
<1>7. CASE Check \/ Stop
  BY <1>7 DEF Check, Stop
<1>8. CASE ReadConfig
  BY <1>8 DEF ReadConfig, Runs, Confs
<1>9. CASE WriteRevoked
  BY <1>9 DEF WriteRevoked, Runs, Confs
<1> QED
  BY <1>1, <1>2, <1>3, <1>4, <1>5, <1>6, <1>7, <1>8, <1>9 DEF ConfStep

-----------------------------------------------------------------------------
(* Who may be approved.                                                    *)

\* A phone key whose enrollment was signed and used up.
Enrolled(k) ==
  \E s \in Sessions : /\ does[s] = [command |-> "enroll", key |-> k]
                      /\ row[s] = "consumed" /\ s \in signed

\* Where the administrator's run has got to, its phone was approved.
ApprovalInv ==
  /\ \A k \in Keys : approved[k] # NoFile \/ conf.phone = k => Enrolled(k)
  /\ adm.at \in {"compare", "key", "certificate", "config"} => Enrolled(adm.phone)
  /\ adm.at = "revoke" => Enrolled(adm.phone)

\* Enrolled once, enrolled for good: a revocation takes only the approval back.
LEMMA EnrolledStays ==
  ASSUME CliInv, CliNext, NEW k, Enrolled(k)
  PROVE  Enrolled(k)'
<1>1. PICK s \in Sessions : /\ does[s] = [command |-> "enroll", key |-> k]
                            /\ row[s] = "consumed" /\ s \in signed
  BY DEF Enrolled
<1>2. step[s] # "none"
  BY <1>1 DEF CliInv, Fresh, Unasked
<1>3. does'[s] = does[s] /\ row'[s] = row[s] /\ s \in signed'
  BY <1>1, <1>2, RowsStay DEF CliInv
<1> QED
  BY <1>1, <1>3 DEF Enrolled

\* A session approves a key in the step that uses its enrollment up.
LEMMA ApprovalCliStep ==
  ASSUME CliInv, ApprovalInv, CliNext, UNCHANGED <<adm, rootVars>>
  PROVE  ApprovalInv'
<1>1. adm' = adm /\ conf' = conf
  BY DEF rootVars
<1>2. adm.at \in {"compare", "key", "certificate", "config", "revoke"} => Enrolled(adm.phone)'
  BY EnrolledStays DEF ApprovalInv
<1>3. ASSUME NEW k \in Keys, approved'[k] # NoFile \/ conf'.phone = k
      PROVE  Enrolled(k)'
  <2>1. CASE approved[k] # NoFile \/ conf.phone = k
    BY <2>1, EnrolledStays DEF ApprovalInv
  <2>2. CASE ~(approved[k] # NoFile \/ conf.phone = k)
    <3>1. PICK s \in Sessions : /\ Consume(s) /\ row'[s] = "consumed" /\ s \in signed
                                /\ does[s].command = "enroll" /\ does[s].key = k
      <4>1. approved' # approved
        BY <1>1, <1>3, <2>2
      <4>2. PICK s \in Sessions : Revoke(s) \/ Consume(s)
        BY <4>1 DEF CliNext, SessionStep, Start, Identify, Certify, Recover, Inspect, Prepare,
           Request, Poll, Record, Receipt, Leave, Finally, Withdraw, Interrupt, Kill,
           PhoneSigns, LoseFile
      <4>3. approved \in [Keys -> 0..MaxIds] /\ row \in [Sessions -> {"none", "pending", "consumed", "canceled"}]
        BY DEF CliInv, CliTypeOK
      <4>4. CASE Revoke(s)
        BY <1>1, <1>3, <2>2, <4>3, <4>4 DEF Revoke
      <4>5. CASE Consume(s)
        BY <1>1, <1>3, <2>2, <4>3, <4>5 DEF Consume, SetRow, At, CliInv, Signed
      <4> QED
        BY <4>2, <4>4, <4>5
    <3>2. does[s] = [command |-> "enroll", key |-> k]
      BY <3>1 DEF CliInv, CliTypeOK, NoCommand
    <3>3. does' = does /\ signed' = signed
      BY <3>1 DEF Consume, mailVars
    <3> QED
      BY <3>1, <3>2, <3>3 DEF Enrolled
  <2> QED
    BY <2>1, <2>2
<1> QED
  BY <1>1, <1>2, <1>3 DEF ApprovalInv

\* The administrator installs only a phone found approved.
LEMMA ApprovalAdmStep ==
  ASSUME CliTypeOK, AdmInv, ApprovalInv, ConfStep, UNCHANGED cliVars
  PROVE  ApprovalInv'
<1>1. \A k : Enrolled(k)' <=> Enrolled(k)
  BY DEF Enrolled, cliVars, mailVars
<1>2. approved' = approved
  BY DEF cliVars
<1> USE <1>1, <1>2, CliAssumption DEF ApprovalInv, AdmAt, rootVars
<1>3. CASE Install
  BY <1>3 DEF Install
<1>4. CASE ReadIdentity
  BY <1>4, AdmMoves DEF ReadIdentity, AdmInv
<1>5. CASE ReadApproval
  <2>1. adm.phone \in Keys
    BY <1>5 DEF ReadApproval, AdmInv, ConfTypeOK, Runs, NoRun
  <2> QED
    BY <1>5, <2>1, AdmMoves DEF ReadApproval, AdmInv
<1>6. CASE Compare \/ WriteKey \/ WriteCertificate
  BY <1>6, AdmMoves DEF Compare, WriteKey, WriteCertificate, AdmInv
<1>7. CASE WriteConfig
  BY <1>7, AdmMoves DEF WriteConfig, AdmInv
<1>8. CASE Check \/ Stop
  BY <1>8 DEF Check, Stop, NoRun
<1>9. CASE ReadConfig
  <2>1. conf.phone \in Keys
    BY <1>9 DEF ReadConfig, AdmInv, ConfTypeOK, Confs
  <2> QED
    BY <1>9, <2>1 DEF ReadConfig
<1>10. CASE WriteRevoked
  BY <1>10 DEF WriteRevoked, NoRun
<1> QED
  BY <1>3, <1>4, <1>5, <1>6, <1>7, <1>8, <1>9, <1>10 DEF ConfStep

-----------------------------------------------------------------------------
(* The theorems.                                                           *)

EnrollmentInv == CliInv /\ IdentityStands /\ AdmInv /\ ApprovalInv

\* The whole invariant holds at first,
LEMMA EnrollmentStarts == Init => EnrollmentInv
<1> SUFFICES ASSUME Init PROVE EnrollmentInv
  OBVIOUS
<1>1. CliInv /\ IdentityStands /\ AdmInv
  BY CliStarts, AdmStarts DEF Init
<1>2. ApprovalInv
  BY CliAssumption DEF Init, CliInit, ConfInit, ApprovalInv, NoRun, NoConf
<1> QED
  BY <1>1, <1>2 DEF EnrollmentInv

\* every step of a session or of the administrator keeps it,
LEMMA EnrollmentStep == EnrollmentInv /\ [Next]_vars => EnrollmentInv'
<1> SUFFICES ASSUME EnrollmentInv, [Next]_vars PROVE EnrollmentInv'
  OBVIOUS
<1>1. CASE CliNext /\ UNCHANGED <<adm, rootVars>>
  <2>1. CliInv' /\ IdentityStands' /\ ApprovalInv'
    BY <1>1, CliStep, IdentityStep, ApprovalCliStep DEF EnrollmentInv
  <2>2. AdmInv'
    BY <1>1 DEF EnrollmentInv, AdmInv, ConfTypeOK, ConfigMatchesKeys, rootVars
  <2> QED
    BY <2>1, <2>2 DEF EnrollmentInv
<1>2. ASSUME UNCHANGED cliVars PROVE CliInv' /\ IdentityStands'
  BY <1>2 DEF EnrollmentInv, CliInv, CliTypeOK, LockHeld, Fresh, SoleChallenge, Signed, Rows,
     MessagesHonest, Has, At, IdentityStands, cliVars, identityVars, mailVars
<1>3. CASE ConfStep /\ UNCHANGED cliVars
  BY <1>2, <1>3, AdmStep, ApprovalAdmStep DEF EnrollmentInv, CliInv
<1>4. CASE UNCHANGED vars
  <2>1. CliInv' /\ IdentityStands'
    BY <1>2, <1>4 DEF vars
  <2>2. AdmInv' /\ ApprovalInv'
    BY <1>4 DEF EnrollmentInv, AdmInv, ConfTypeOK, ConfigMatchesKeys, ApprovalInv, Enrolled,
       vars, rootVars, cliVars, mailVars
  <2> QED
    BY <2>1, <2>2 DEF EnrollmentInv
<1> QED
  BY <1>1, <1>3, <1>4 DEF Next

\* and so it holds always.
LEMMA EnrollmentAlways == Spec => []EnrollmentInv
<1>1. Init => EnrollmentInv
  BY EnrollmentStarts
<1>2. EnrollmentInv /\ [Next]_vars => EnrollmentInv'
  BY EnrollmentStep
<1> QED
  BY <1>1, <1>2, PTL DEF Spec

\* Sessions, files and the administrator's run are well typed in every state.
THEOREM EnrollmentTyped == Spec => []TypeOK
<1>1. EnrollmentInv => TypeOK
  BY DEF EnrollmentInv, CliInv, AdmInv, TypeOK
<1> QED
  BY <1>1, EnrollmentAlways, PTL

\* However many sessions run and are killed, one challenge at most can be used up
\* (host.py session.lock and the update at startup).
THEOREM OneChallengeOut == Spec => []OneChallenge
<1>1. EnrollmentInv => OneChallenge
  BY SoleIsOne DEF EnrollmentInv
<1> QED
  BY <1>1, EnrollmentAlways, PTL

\* Receipts, withdrawals and the reported success are true (approve()).
THEOREM HonestMessages == Spec => []MessagesHonest
<1>1. EnrollmentInv => MessagesHonest
  BY DEF EnrollmentInv, CliInv
<1> QED
  BY <1>1, EnrollmentAlways, PTL

\* Key and certificate belong together after any crash (machine_identity).
THEOREM IdentityAgrees == Spec => []IdentityStands
<1>1. EnrollmentInv => IdentityStands
  BY DEF EnrollmentInv
<1> QED
  BY <1>1, EnrollmentAlways, PTL

\* The installed configuration finds its key and certificate, wherever the
\* administrator's runs were cut short (configure-authority.py main()).
THEOREM ConfigurationAgrees == Spec => []ConfigMatchesKeys
<1>1. EnrollmentInv => ConfigMatchesKeys
  BY DEF EnrollmentInv, AdmInv
<1> QED
  BY <1>1, EnrollmentAlways, PTL

\* Only a phone key that signed an enrollment is ever approved or installed.
THEOREM OnlyTheEnrolled == Spec => []ApprovedWasEnrolled
<1>1. EnrollmentInv => ApprovedWasEnrolled
  BY DEF EnrollmentInv, ApprovalInv, Enrolled, ApprovedWasEnrolled
<1> QED
  BY <1>1, EnrollmentAlways, PTL
=============================================================================
