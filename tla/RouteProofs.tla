---------------------------- MODULE RouteProofs ----------------------------
(***************************************************************************)
(* Theorems about the two transports: for every set of addresses, every    *)
(* choice of the time limits and any number of threads, calls and answers. *)
(***************************************************************************)
EXTENDS PhoneRoute, SequenceTheorems, TLAPS

-----------------------------------------------------------------------------
(* The time of a call over the LAN.                                        *)

\* Until it has a connection a call keeps its fifteen seconds; with one it keeps
\* the watchdog's; only the second connection of a call can miss its watchdog.
TimeInv ==
  /\ clock \in Nat /\ watch \in 0..NoWatch /\ wait \in 0..TcpLimit
  /\ watch # NoWatch => watch <= ConnectLimit
  /\ stage \in {"tcp", "find"} => clock <= ConnectLimit
  /\ stage = "tcp" /\ ~refreshed => clock = 0
  /\ stage = "find" => refreshed
  /\ stage = "hello" => clock <= ConnectLimit
  /\ stage \in {"hello", "rpc"} =>
       IF watch = NoWatch THEN refreshed ELSE clock <= watch
  /\ stage \notin InCall => clock = 0

\* The call begins with the clock at zero.
LEMMA TimeStarts == LanInit => TimeInv
  BY LanAssumption DEF LanInit, TimeInv, NoWatch, InCall

\* A step of a connection spends at most what is left.
LEMMA TimeStep == ASSUME TimeInv, LanNext PROVE TimeInv'
<1> USE LanAssumption DEF TimeInv, NoWatch, InCall, mail
<1>1. CASE Construct
  BY <1>1 DEF Construct
<1>2. ASSUME NEW what \in LanCalls, Begin(what) PROVE TimeInv'
  <2>1. stage \notin InCall
    BY <1>2 DEF Begin, CallsFor
  <2> QED
    BY <1>2, <2>1 DEF Begin
<1>3. CASE Tcp
  BY <1>3 DEF Tcp, Fails, Raises, Ends, Left, Least
<1>4. CASE Hello
  <2>1. PICK d \in Patience :
          \/ Fails(d)
          \/ Raises
          \/ /\ stage' = "rpc" /\ clock' = clock + d
             /\ UNCHANGED <<op, watch, wait, address, refreshed, mail>>
          \/ Ends("idle") /\ UNCHANGED <<address, refreshed, mail>>
    BY <1>4 DEF Hello
  <2>2. d \in Nat /\ (watch # NoWatch => clock + d <= watch)
    BY <1>4, <2>1 DEF Hello, Patience
  <2>3. CASE Fails(d)
    BY <1>4, <2>2, <2>3 DEF Hello, Fails, Raises, Ends
  <2>4. CASE Raises \/ (Ends("idle") /\ UNCHANGED <<address, refreshed, mail>>)
    BY <2>4 DEF Raises, Ends
  <2>5. CASE /\ stage' = "rpc" /\ clock' = clock + d
             /\ UNCHANGED <<op, watch, wait, address, refreshed, mail>>
    BY <1>4, <2>2, <2>5 DEF Hello
  <2> QED
    BY <2>1, <2>3, <2>4, <2>5
<1>5. CASE Find
  <2>1. CASE Raises
    BY <2>1 DEF Raises, Ends
  <2>2. ASSUME NEW d \in 0..Least(FindLimit, Left), NEW a \in Addresses,
               clock' = clock + d, stage' = "tcp",
               UNCHANGED <<op, watch, wait, refreshed, mail>>
        PROVE  TimeInv'
    <3>1. d \in Nat /\ clock + d <= ConnectLimit
      BY DEF Least, Left
    <3> QED
      BY <1>5, <2>2, <3>1 DEF Find
  <2> QED
    BY <1>5, <2>1, <2>2 DEF Find
<1>6. CASE Rpc
  BY <1>6 DEF Rpc, Ends
<1>7. CASE Dropped
  BY <1>7 DEF Dropped, Ends
<1>8. CASE Arrives \/ Moves
  BY <1>8 DEF Arrives, Moves, connection
<1> QED
  BY <1>1, <1>2, <1>3, <1>4, <1>5, <1>6, <1>7, <1>8 DEF LanNext, LanStep

-----------------------------------------------------------------------------
(* The messages of a request over the LAN.                                 *)

LanCarried == {posted[i] : i \in DOMAIN posted}

\* Each message has one call, and what the call leaves behind is one message.
MailInv ==
  /\ posted \in Seq(Messages) /\ late \subseteq Messages
  /\ LanCarried \cup late \subseteq made
  /\ LanCarried \cap late = {}
  /\ stage \in InCall => op \in LanCalls \cap made /\ op \notin LanCarried \cup late
  /\ posted # <<>> => "request" \in LanCarried
  /\ told \subseteq LanCarried

\* What the courier allows to happen to the mail in one step.
Carrying(before, after, toldBefore, toldAfter) ==
  \/ after = before /\ toldAfter = toldBefore
  \/ \E name \in Messages :
       \/ /\ name \notin {before[i] : i \in DOMAIN before}
          /\ name = "request" <=> before = <<>>
          /\ after = Append(before, name)
          /\ toldAfter \in {toldBefore, toldBefore \cup {name}}
       \/ /\ name \in {before[i] : i \in DOMAIN before}
          /\ after = before /\ toldAfter = toldBefore \cup {name}

\* A sequence with one element more has one value more.
LEMMA OneMore ==
  ASSUME NEW S, NEW s \in Seq(S), NEW e \in S
  PROVE  /\ Append(s, e) \in Seq(S) /\ Append(s, e) # <<>>
         /\ {Append(s, e)[i] : i \in DOMAIN Append(s, e)} = {s[i] : i \in DOMAIN s} \cup {e}
<1>1. Append(s, e) \in Seq(S) /\ Len(Append(s, e)) = Len(s) + 1
  OBVIOUS
<1>2. DOMAIN Append(s, e) = 1..(Len(s) + 1) /\ DOMAIN s = 1..Len(s) /\ Len(s) \in Nat
  BY <1>1
<1>3. \A i \in 1..Len(s) : Append(s, e)[i] = s[i]
  OBVIOUS
<1>4. Append(s, e)[Len(s) + 1] = e
  OBVIOUS
<1>5. {Append(s, e)[i] : i \in DOMAIN Append(s, e)} = {s[i] : i \in DOMAIN s} \cup {e}
  <2>1. ASSUME NEW i \in DOMAIN Append(s, e)
        PROVE  Append(s, e)[i] \in {s[j] : j \in DOMAIN s} \cup {e}
    <3>1. CASE i = Len(s) + 1
      BY <1>4, <3>1
    <3>2. CASE i # Len(s) + 1
      <4>1. i \in 1..Len(s)
        BY <1>2, <3>2
      <4> QED
        BY <1>2, <1>3, <4>1
    <3> QED
      BY <3>1, <3>2
  <2>2. ASSUME NEW i \in DOMAIN s
        PROVE  s[i] \in {Append(s, e)[j] : j \in DOMAIN Append(s, e)}
    <3>1. i \in DOMAIN Append(s, e) /\ Append(s, e)[i] = s[i]
      BY <1>2, <1>3
    <3> QED
      BY <3>1
  <2>3. e \in {Append(s, e)[j] : j \in DOMAIN Append(s, e)}
    <3>1. Len(s) + 1 \in DOMAIN Append(s, e)
      BY <1>2
    <3> QED
      BY <1>4, <3>1
  <2> QED
    BY <2>1, <2>2, <2>3
<1>6. Append(s, e) # <<>>
  <2>1. Len(s) + 1 # 0
    BY <1>2
  <2>2. Len(<<>>) = 0
    OBVIOUS
  <2> QED
    BY <1>1, <2>1, <2>2
<1> QED
  BY <1>1, <1>5, <1>6

\* No mail at first.
LEMMA MailStarts == LanInit => MailInv
<1> SUFFICES ASSUME LanInit PROVE MailInv
  OBVIOUS
<1>1. posted = <<>> /\ late = {} /\ told = {} /\ stage = "new" /\ made = {}
  BY DEF LanInit
<1>2. LanCarried = {}
  BY <1>1 DEF LanCarried
<1>3. <<>> \in Seq(Messages)
  OBVIOUS
<1> QED
  BY <1>1, <1>2, <1>3 DEF MailInv, InCall

\* A message that the phone accepts is posted in its place.
LEMMA AcceptsInOrder ==
  ASSUME posted \in Seq(Messages), NEW name \in LanCalls, Accepts(name),
         name \notin LanCarried, posted # <<>> => "request" \in LanCarried
  PROVE  \/ posted' = posted /\ LanCarried' = LanCarried
         \/ /\ name \in Messages /\ (name = "request" <=> posted = <<>>)
            /\ posted' = Append(posted, name) /\ posted' \in Seq(Messages) /\ posted' # <<>>
            /\ LanCarried' = LanCarried \cup {name}
<1>1. CASE name \in Messages /\ (name = "request" \/ posted # <<>>)
  <2>1. posted' = Append(posted, name)
    BY <1>1 DEF Accepts
  <2>2. /\ posted' \in Seq(Messages) /\ posted' # <<>>
        /\ LanCarried' = LanCarried \cup {name}
    BY <1>1, <2>1, OneMore DEF LanCarried
  <2> QED
    BY <1>1, <2>1, <2>2
<1>2. CASE ~(name \in Messages /\ (name = "request" \/ posted # <<>>))
  BY <1>2 DEF Accepts, LanCarried
<1> QED
  BY <1>1, <1>2

\* Every step of a session treats the mail as the courier does.
LEMMA MailStep ==
  ASSUME MailInv, LanNext
  PROVE  MailInv' /\ Carrying(posted, posted', told, told')
<1> USE DEF MailInv, InCall
<1>1. ASSUME UNCHANGED <<posted, told, late, made>>,
             stage' \in InCall => stage \in InCall /\ op' = op
      PROVE  MailInv' /\ Carrying(posted, posted', told, told')
  BY <1>1 DEF LanCarried, Carrying
<1>2. CASE Construct \/ Moves
  BY <1>1, <1>2 DEF Construct, Moves, mail, connection
<1>3. ASSUME NEW what \in LanCalls, Begin(what)
      PROVE  MailInv' /\ Carrying(posted, posted', told, told')
  <2>1. what \in Messages => what \notin made
    BY <1>3 DEF Begin, CallsFor, Messages
  <2>2. LanCarried \subseteq Messages
    BY DEF LanCarried
  <2> QED
    BY <1>3, <2>1, <2>2 DEF Begin, LanCarried, Carrying
<1>4. CASE Tcp
  BY <1>1, <1>4 DEF Tcp, Fails, Raises, Ends, mail
<1>5. CASE Hello
  BY <1>1, <1>5 DEF Hello, Fails, Raises, Ends, mail
<1>6. CASE Find
  BY <1>1, <1>6 DEF Find, Raises, Ends, mail
<1>7. CASE Rpc
  <2>1. /\ stage' \notin InCall /\ made' = made
        /\ op \in LanCalls \cap made /\ op \notin LanCarried \cup late
    BY <1>7 DEF Rpc, Ends
  <2>2. CASE Accepts(op) /\ UNCHANGED late /\ told' \in {told, told \cup ({op} \cap LanCarried')}
    <3>1. CASE posted' = posted /\ LanCarried' = LanCarried
      <4>1. told' = told
        BY <2>1, <2>2, <3>1
      <4> QED
        BY <2>1, <2>2, <3>1, <4>1 DEF Carrying
    <3>2. CASE /\ op \in Messages /\ (op = "request" <=> posted = <<>>)
               /\ posted' = Append(posted, op) /\ posted' \in Seq(Messages) /\ posted' # <<>>
               /\ LanCarried' = LanCarried \cup {op}
      <4>1. told' \in {told, told \cup {op}}
        BY <2>2, <3>2
      <4>2. Carrying(posted, posted', told, told')
        BY <2>1, <3>2, <4>1 DEF Carrying, LanCarried
      <4>3. MailInv'
        BY <2>1, <2>2, <3>2, <4>1
      <4> QED
        BY <4>2, <4>3
    <3> QED
      BY <2>1, <2>2, <3>1, <3>2, AcceptsInOrder
  <2>3. CASE UNCHANGED <<posted, told>> /\ late' \in {late, late \cup ({op} \cap Messages)}
    BY <2>1, <2>3 DEF LanCarried, Carrying
  <2>4. ASSUME Accepts(op), op \in Messages => posted' # posted
        PROVE  {op} \cap Messages \subseteq LanCarried'
    BY <2>1, <2>4, AcceptsInOrder
  <2>5. \/ Accepts(op) /\ UNCHANGED <<late, told>>
        \/ UNCHANGED <<posted, told>> /\ late' \in {late, late \cup ({op} \cap Messages)}
        \/ /\ Accepts(op) /\ UNCHANGED late /\ told' = told \cup ({op} \cap Messages)
           /\ op \in Messages => posted' # posted
    BY <1>7 DEF Rpc
  <2>6. ASSUME Accepts(op), UNCHANGED late, told' = told \cup ({op} \cap Messages),
               op \in Messages => posted' # posted
        PROVE  told' \in {told, told \cup ({op} \cap LanCarried')}
    BY <2>1, <2>4, <2>6, AcceptsInOrder
  <2> QED
    BY <2>2, <2>3, <2>5, <2>6
<1>8. CASE Dropped
  BY <1>8 DEF Dropped, Ends, LanCarried, Carrying
<1>9. CASE Arrives
  <2>1. PICK name \in late : late' = late \ {name} /\ Accepts(name)
    BY <1>9 DEF Arrives
  <2>2. UNCHANGED <<stage, op, made, told>> /\ name \in LanCalls /\ name \notin LanCarried
    BY <1>9 DEF Arrives, connection, LanCalls
  <2>3. CASE posted' = posted /\ LanCarried' = LanCarried
    BY <2>1, <2>2, <2>3 DEF Carrying
  <2>4. CASE /\ name \in Messages /\ (name = "request" <=> posted = <<>>)
             /\ posted' = Append(posted, name) /\ posted' \in Seq(Messages) /\ posted' # <<>>
             /\ LanCarried' = LanCarried \cup {name}
    <3>1. Carrying(posted, posted', told, told')
      BY <2>2, <2>4 DEF Carrying, LanCarried
    <3>2. MailInv'
      BY <2>1, <2>2, <2>4
    <3> QED
      BY <3>1, <3>2
  <2> QED
    BY <2>1, <2>2, <2>3, <2>4, AcceptsInOrder
<1> QED
  BY <1>2, <1>3, <1>4, <1>5, <1>6, <1>7, <1>8, <1>9 DEF LanNext, LanStep

-----------------------------------------------------------------------------
(* One command at a time between a client and its worker.                  *)

ShareCarried == {shared[i] : i \in DOMAIN shared}
Busy == {"spooling", "sharing", "calling"}

\* A command is in the one pipe, or with the worker, or answered in the other; and
\* while the transport is open it is the command of the call that waits.
FlowInv ==
  /\ client \in {"new", "opening", "open", "closing", "closed", "dead"}
  /\ worker \in {"none", "booting", "idle", "exited"} \cup Busy
  /\ worker = "none" => client = "new"
  /\ client = "new" => worker = "none" /\ stdin = <<>> /\ replies = <<>> /\ calls = 0
  /\ client \in {"new", "opening"} => ~asked /\ stdin = <<>>
  /\ client = "opening" => /\ lock \in Threads /\ call = [op |-> "hello", id |-> 1]
                           /\ worker \notin Busy
  /\ worker = "booting" => stdin = <<>> /\ replies = <<>> /\ client # "open"
  /\ worker \in Busy => stdin = <<>> /\ replies = <<>>
  /\ stdin # <<>> => Tail(stdin) = <<>> /\ replies = <<>>
  /\ replies # <<>> => Tail(replies) = <<>>
  /\ client = "open" /\ lock = NoThread =>
       stdin = <<>> /\ replies = <<>> /\ worker \in {"idle", "exited"}
  /\ client = "open" => /\ stdin # <<>> => Head(stdin) = call
                        /\ worker \in Busy => command = call
  /\ client \in {"opening", "open"} /\ replies # <<>> => Head(replies).id = call.id
  /\ client = "closed" => worker = "exited"

\* An empty pipe with one line put into it.
LEMMA FirstLine ==
  ASSUME NEW e
  PROVE  Append(<<>>, e) # <<>> /\ Head(Append(<<>>, e)) = e /\ Tail(Append(<<>>, e)) = <<>>
  OBVIOUS

\* What an answer of the worker does to the pipes.
LEMMA EmitsOne ==
  ASSUME NEW r, Emits(r), replies = <<>>
  PROVE  \/ worker' = "exited" /\ replies' = <<>> /\ client = "dead"
         \/ /\ worker' = "idle" /\ replies' # <<>> /\ client # "dead"
            /\ Head(replies') = r /\ Tail(replies') = <<>>
  BY FirstLine DEF Emits, WorkerAt

\* Nothing is in a pipe at first.
LEMMA FlowStarts == ShareInit => FlowInv
  BY DEF ShareInit, FlowInv, Busy

\* The client sends only when nothing of an earlier call is left.
LEMMA FlowClient ==
  ASSUME FlowInv, NEW t \in Threads, ClientStep(t)
  PROVE  FlowInv'
<1> USE ShareAssumption DEF FlowInv, workerVars, Busy, NoThread
<1>1. CASE Open(t)
  BY <1>1 DEF Open, Begins
<1>2. CASE Receive(t)
  BY <1>2 DEF Receive
<1>3. CASE GiveUp(t) \/ Close(t) \/ Closed(t)
  BY <1>3 DEF GiveUp, Close, Closed
<1>4. ASSUME NEW what \in Operations \ {"hello"}, Sends(t, what) PROVE FlowInv'
  BY <1>4, FirstLine DEF Sends, Begins
<1> QED
  BY <1>1, <1>2, <1>3, <1>4 DEF ClientStep

\* The worker takes a command and answers it before it takes another.
LEMMA FlowWorker ==
  ASSUME FlowInv, WorkerStep \/ Hears \/ Killed \/ ClientDies
  PROVE  FlowInv'
<1> USE ShareAssumption DEF FlowInv, clientVars, workerVars, Busy, NoThread
<1>1. CASE Boot
  <2>1. worker = "booting" /\ UNCHANGED <<clientVars, stdin>>
    BY <1>1 DEF Boot
  <2> DEFINE hello == [op |-> "hello", id |-> 1]
  <2>a. /\ replies = <<>> /\ stdin = <<>> /\ client \notin {"new", "open", "closed"}
        /\ client = "opening" => call.id = 1
    BY <2>1
  <2>2. CASE Emits(ReplyTo(hello, TRUE, NoAnswer))
    <3>1. ReplyTo(hello, TRUE, NoAnswer).id = 1
      BY DEF ReplyTo
    <3>2. \/ worker' = "exited" /\ replies' = <<>>
          \/ worker' = "idle" /\ replies' # <<>> /\ Head(replies').id = 1 /\ Tail(replies') = <<>>
      BY <2>2, <2>a, <3>1, EmitsOne
    <3> HIDE DEF hello
    <3> QED
      BY <2>1, <2>a, <3>2
  <2>3. CASE replies' = Append(replies, ReplyTo(hello, FALSE, NoAnswer)) /\ WorkerAt("exited")
    <3>1. /\ Head(replies').id = 1 /\ Tail(replies') = <<>> /\ replies' # <<>>
      BY <2>3, <2>a, FirstLine DEF ReplyTo
    <3> HIDE DEF hello
    <3> QED
      BY <2>1, <2>3, <2>a, <3>1 DEF WorkerAt
  <2> QED
    BY <1>1, <2>2, <2>3 DEF Boot
<1>2. CASE TakeRead
  BY <1>2, EmitsOne DEF TakeRead, Takes, ReplyTo
<1>3. CASE TakeOther
  BY <1>3 DEF TakeOther, Takes, WorkerAt
<1>4. CASE Spool
  <2>1. worker = "spooling" /\ UNCHANGED <<clientVars, stdin>>
    BY <1>4 DEF Spool
  <2>2. CASE Emits(ReplyTo(command, FALSE, NoAnswer))
    <3>1. ReplyTo(command, FALSE, NoAnswer).id = command.id
      BY DEF ReplyTo
    <3> QED
      BY <2>1, <2>2, <3>1, EmitsOne
  <2>3. CASE WorkerAt("sharing") /\ UNCHANGED <<replies, command>>
    BY <2>1, <2>3 DEF WorkerAt
  <2> QED
    BY <1>4, <2>2, <2>3 DEF Spool
<1>5. CASE Share
  BY <1>5 DEF Share, WorkerAt
<1>6. CASE DaemonReturns
  <2>1. worker = "calling" /\ UNCHANGED <<clientVars, stdin>>
    BY <1>6 DEF DaemonReturns
  <2>2. PICK ok \in BOOLEAN : Emits(ReplyTo(command, ok, NoAnswer))
    BY <1>6 DEF DaemonReturns
  <2>3. ReplyTo(command, ok, NoAnswer).id = command.id
    BY DEF ReplyTo
  <2> QED
    BY <2>1, <2>2, <2>3, EmitsOne
<1>7. CASE EndOfInput \/ Hears \/ Killed
  BY <1>7 DEF EndOfInput, Hears, Killed, WorkerAt
<1>8. CASE ClientDies
  BY <1>8 DEF ClientDies
<1> QED
  BY <1>1, <1>2, <1>3, <1>4, <1>5, <1>6, <1>7, <1>8 DEF WorkerStep

-----------------------------------------------------------------------------
(* The messages of a request through KDE Connect.                          *)

Terminals == {"receipt", "cancel"}

\* A file is spooled once, its request before it, and a call that succeeded has
\* handed its message over.
SharedInv ==
  /\ shared \in Seq(Mails) /\ ShareCarried \subseteq spooled
  /\ ~asked => shared = <<>>
  /\ client = "open" /\ asked /\ shared = <<>> => lock # NoThread /\ call.op = "request"
  /\ stdin # <<>> => /\ Head(stdin).op = "request" => shared = <<>>
                     /\ Head(stdin).op \in Terminals => shared # <<>>
                     /\ Head(stdin).op \in Mails => asked
  /\ worker \in {"spooling", "sharing"} =>
       asked /\ command.op \in Mails /\ (command.op = "request" <=> shared = <<>>)
  /\ worker = "sharing" => command.op \in spooled /\ command.op \notin ShareCarried
  /\ worker = "calling" /\ command.op \in Mails => command.op \in ShareCarried
  /\ client = "open" /\ replies # <<>> /\ Head(replies).ok = TRUE /\ call.op \in Mails
       => call.op \in ShareCarried
  /\ accepted \subseteq ShareCarried

\* No file at first.
LEMMA SharedStarts == ShareInit => SharedInv
<1> SUFFICES ASSUME ShareInit PROVE SharedInv
  OBVIOUS
<1>1. /\ shared = <<>> /\ accepted = {} /\ stdin = <<>> /\ worker = "none"
      /\ client = "new"
  BY DEF ShareInit
<1>2. ShareCarried = {} /\ <<>> \in Seq(Mails)
  BY <1>1 DEF ShareCarried
<1> QED
  BY <1>1, <1>2 DEF SharedInv

\* A call of the client hands nothing over; the one that returned had.
LEMMA SharedClient ==
  ASSUME FlowInv, SharedInv, NEW t \in Threads, ClientStep(t)
  PROVE  SharedInv' /\ Carrying(shared, shared', accepted, accepted')
<1>1. ShareCarried' = ShareCarried /\ UNCHANGED <<shared, spooled, command>>
  BY DEF ClientStep, Open, Receive, GiveUp, Close, Closed, Sends, workerVars, ShareCarried
<1> USE <1>1, ShareAssumption DEF FlowInv, SharedInv, Busy, NoThread, Terminals, Mails
<1>2. CASE Open(t)
  BY <1>2 DEF Open, Begins, Carrying, workerVars
<1>3. CASE Receive(t)
  <2>1. accepted' = accepted \/ \E name \in Mails : name \in ShareCarried /\ accepted' = accepted \cup {name}
    BY <1>3 DEF Receive
  <2> QED
    BY <1>3, <2>1 DEF Receive, Carrying, Messages, ShareCarried, workerVars
<1>4. CASE GiveUp(t) \/ Close(t) \/ Closed(t)
  BY <1>4 DEF GiveUp, Close, Closed, Carrying, workerVars
<1>5. ASSUME NEW what \in Operations \ {"hello"}, Sends(t, what)
      PROVE  SharedInv' /\ Carrying(shared, shared', accepted, accepted')
  <2>1. /\ client = "open" /\ lock = NoThread /\ lock' = t /\ t # NoThread
        /\ call'.op = what /\ stdin' \in {stdin, Append(stdin, call')} /\ stdin = <<>>
        /\ IF what = "request" THEN ~asked ELSE what \in Terminals => asked
        /\ asked' = (asked \/ what = "request")
        /\ UNCHANGED <<client, accepted, replies, worker>>
    BY <1>5 DEF Sends, Begins, Permitted, workerVars
  <2>2. stdin' # <<>> => Head(stdin').op = what
    BY <2>1, FirstLine
  <2>3. replies' = <<>>
    BY <2>1
  <2>4. /\ Carrying(shared, shared', accepted, accepted')
        /\ what \in Mails => asked'
        /\ what = "request" => shared = <<>>
        /\ what \in Terminals => shared # <<>>
        /\ asked' /\ shared = <<>> => what = "request"
    BY <2>1 DEF Carrying
  <2> QED
    BY <2>1, <2>2, <2>3, <2>4
<1> QED
  BY <1>2, <1>3, <1>4, <1>5 DEF ClientStep

\* The worker hands a message over once, after it has written its file.
LEMMA SharedWorker ==
  ASSUME FlowInv, SharedInv, WorkerStep \/ Hears \/ Killed \/ ClientDies
  PROVE  SharedInv' /\ Carrying(shared, shared', accepted, accepted')
<1> USE ShareAssumption
    DEF FlowInv, SharedInv, Busy, NoThread, Terminals, Mails, clientVars, workerVars
<1>1. CASE Share
  <2>1. /\ worker = "sharing" /\ shared' = Append(shared, command.op) /\ worker' = "calling"
        /\ UNCHANGED <<clientVars, stdin, replies, command, queue, heard, spooled>>
    BY <1>1 DEF Share, WorkerAt
  <2>2. /\ shared' \in Seq(Mails) /\ shared' # <<>>
        /\ ShareCarried' = ShareCarried \cup {command.op}
    BY <2>1, OneMore DEF ShareCarried
  <2>3. Carrying(shared, shared', accepted, accepted')
    BY <2>1 DEF Carrying, ShareCarried, Messages
  <2> QED
    BY <2>1, <2>2, <2>3
<1>2. ASSUME shared' = shared
      PROVE  ShareCarried' = ShareCarried
  BY <1>2 DEF ShareCarried
<1>3. ASSUME UNCHANGED <<shared, accepted>>
      PROVE  Carrying(shared, shared', accepted, accepted')
  BY <1>3 DEF Carrying
<1>4. CASE Boot
  BY <1>2, <1>3, <1>4, EmitsOne DEF Boot, WorkerAt
<1>5. CASE TakeRead
  BY <1>2, <1>3, <1>5, EmitsOne DEF TakeRead, Takes
<1>6. CASE TakeOther
  BY <1>2, <1>3, <1>6 DEF TakeOther, Takes, WorkerAt
<1>7. CASE Spool
  BY <1>2, <1>3, <1>7, EmitsOne DEF Spool, WorkerAt, ReplyTo
<1>8. CASE DaemonReturns
  BY <1>2, <1>3, <1>8, EmitsOne DEF DaemonReturns
<1>9. CASE EndOfInput \/ Hears \/ Killed \/ ClientDies
  BY <1>2, <1>3, <1>9 DEF EndOfInput, Hears, Killed, ClientDies, WorkerAt
<1> QED
  BY <1>1, <1>4, <1>5, <1>6, <1>7, <1>8, <1>9 DEF WorkerStep

-----------------------------------------------------------------------------
(* Types.                                                                  *)

\* The Boolean variables of both transports.
Flags == refreshed \in BOOLEAN /\ asked \in BOOLEAN

\* Both are FALSE at first.
LEMMA FlagsStart == RouteInit => Flags
  BY Zenon DEF RouteInit, LanInit, ShareInit, Flags

\* Nothing but a Boolean value is put into them.
LEMMA FlagsKeep == ASSUME Flags, [RouteNext]_routeVars PROVE Flags'
<1> USE DEF Flags
<1>1. ASSUME LanNext PROVE refreshed' \in BOOLEAN
  BY <1>1, Zenon DEF LanNext, Construct, Begin, LanStep, Tcp, Hello, Find, Rpc, Dropped, Arrives, Moves,
     Fails, Raises
<1>2. ASSUME ShareNext PROVE asked' \in BOOLEAN
  BY <1>2, Zenon DEF ShareNext, ClientStep, Open, Receive, GiveUp, Close, Closed, Sends, ClientDies,
     WorkerStep, Boot, TakeRead, TakeOther, Spool, Share, DaemonReturns, EndOfInput, Hears, Killed,
     clientVars
<1>3. UNCHANGED lanVars => refreshed' = refreshed
  BY DEF lanVars
<1>4. UNCHANGED shareVars => asked' = asked
  BY DEF shareVars, clientVars
<1> QED
  BY <1>1, <1>2, <1>3, <1>4, Zenon DEF RouteNext, routeVars

\* The rest of a session over the LAN, what TimeInv and MailInv say apart.
LanSorts ==
  /\ stage \in Stages /\ op \in LanCalls \cup {"none"}
  /\ address \in Addresses /\ home \in Addresses /\ made \subseteq LanCalls

\* A session begins in its first stage.
LEMMA LanSortsStart == LanInit => LanSorts
  BY DEF LanInit, LanSorts, Stages

\* An address comes from the configuration or from KDE Connect.
LEMMA LanSortsKeep == ASSUME LanSorts, LanNext PROVE LanSorts'
<1> USE DEF LanSorts, Stages, InCall, mail, connection
<1>1. CASE Construct \/ \E what \in LanCalls : Begin(what)
  BY <1>1 DEF Construct, Begin
<1>2. CASE Tcp \/ Hello
  BY <1>2 DEF Tcp, Hello, Fails, Raises, Ends
<1>3. CASE Find \/ Rpc
  BY <1>3 DEF Find, Rpc, Raises, Ends
<1>4. CASE Dropped \/ Arrives \/ Moves
  BY <1>4 DEF Dropped, Arrives, Moves, Ends
<1> QED
  BY <1>1, <1>2, <1>3, <1>4 DEF LanNext, LanStep

\* A command comes from a call, a reply from a command, and calls are counted.
ShareSorts ==
  /\ lock \in Threads \cup {NoThread} /\ call \in Calls \cup {NoCall} /\ calls \in 0..MaxCalls
  /\ client # "new" => calls > 0
  /\ stdin \in Seq(Calls) /\ replies \in Seq(Replies)
  /\ command \in Calls \cup {NoCall}
  /\ worker \in Busy => command \in Calls
  /\ accepted \subseteq Mails /\ spooled \subseteq Mails

\* The answers, as they were heard.
AnswerSorts == heard \in 0..MaxHeard /\ queue \in Seq(Nat) /\ got \in Seq(Nat)

\* Before the worker is started there is no call and no line.
LEMMA SortsStart == ShareInit => ShareSorts /\ AnswerSorts
  BY ShareAssumption DEF ShareInit, ShareSorts, AnswerSorts, Busy

\* A reply that the worker writes.
LEMMA EmitsTyped ==
  ASSUME ShareSorts, NEW r \in Replies, Emits(r)
  PROVE  replies' \in Seq(Replies) /\ command' = NoCall /\ worker' \in {"exited", "idle"}
  BY DEF Emits, WorkerAt, ShareSorts

\* A reply has the number of its call.
LEMMA RepliesTyped ==
  ASSUME NEW c \in Calls, NEW ok \in BOOLEAN, NEW value \in Nat
  PROVE  ReplyTo(c, ok, value) \in Replies
  BY DEF ReplyTo, Replies, Calls

\* What a step puts into a pipe or the queue is of the pipe's or the queue's kind.
LEMMA SortsKeep ==
  ASSUME FlowInv, SharedInv, ShareSorts, AnswerSorts, ShareNext PROVE ShareSorts' /\ AnswerSorts'
<1> USE ShareAssumption DEF ShareSorts, AnswerSorts, Busy
<1>1. ASSUME NEW t \in Threads, ClientStep(t) PROVE ShareSorts' /\ AnswerSorts'
  <2>1. CASE Open(t)
    <3>1. [op |-> "hello", id |-> calls + 1] \in Calls
      BY <2>1 DEF Open, Begins, Calls, Operations
    <3> QED
      BY <2>1, <3>1 DEF Open, Begins
  <2>2. CASE Receive(t)
    <3>1. replies' \in Seq(Replies) /\ Head(replies) \in Replies
      BY <2>2 DEF Receive
    <3>2. got' \in Seq(Nat)
      <4>1. Head(replies).value \in Nat
        BY <3>1 DEF Replies
      <4>2. got' = got \/ got' = Append(got, Head(replies).value)
        BY <2>2 DEF Receive
      <4>3. Append(got, Head(replies).value) \in Seq(Nat)
        BY <4>1, OneMore
      <4> QED
        BY <4>2, <4>3
    <3> QED
      BY <2>2, <3>1, <3>2 DEF Receive, workerVars
  <2>3. CASE GiveUp(t) \/ Close(t) \/ Closed(t)
    BY <2>3 DEF GiveUp, Close, Closed, workerVars
  <2>4. ASSUME NEW what \in Operations \ {"hello"}, Sends(t, what) PROVE ShareSorts' /\ AnswerSorts'
    <3>1. [op |-> what, id |-> calls + 1] \in Calls
      BY <2>4 DEF Sends, Begins, Calls
    <3>2. stdin' \in Seq(Calls)
      <4>1. call' \in Calls /\ (stdin' = Append(stdin, call') \/ stdin' = stdin)
        BY <2>4, <3>1 DEF Sends, Begins
      <4>2. Append(stdin, call') \in Seq(Calls)
        BY <4>1, OneMore
      <4> QED
        BY <4>1, <4>2
    <3> QED
      BY <2>4, <3>1, <3>2 DEF Sends, Begins, workerVars
  <2> QED
    BY <1>1, <2>1, <2>2, <2>3, <2>4 DEF ClientStep
<1>2. CASE Boot
  <2>1. [op |-> "hello", id |-> 1] \in Calls
    BY <1>2 DEF Boot, FlowInv, Calls, Operations
  <2>2. \A ok \in BOOLEAN : ReplyTo([op |-> "hello", id |-> 1], ok, NoAnswer) \in Replies
    BY <2>1, RepliesTyped DEF NoAnswer
  <2>3. UNCHANGED <<clientVars, stdin, queue, heard, spooled, shared>>
    BY <1>2 DEF Boot
  <2>4. CASE Emits(ReplyTo([op |-> "hello", id |-> 1], TRUE, NoAnswer))
    BY <2>2, <2>3, <2>4, EmitsTyped DEF clientVars
  <2>5. CASE /\ replies' = Append(replies, ReplyTo([op |-> "hello", id |-> 1], FALSE, NoAnswer))
             /\ WorkerAt("exited") /\ UNCHANGED command
    <3>1. replies' \in Seq(Replies)
      BY <2>2, <2>5, OneMore
    <3> QED
      BY <2>3, <2>5, <3>1 DEF clientVars, WorkerAt
  <2> QED
    BY <1>2, <2>4, <2>5 DEF Boot
<1>3. CASE TakeRead
  <2>1. stdin # <<>> /\ Head(stdin) \in Calls /\ stdin' \in Seq(Calls)
    BY <1>3 DEF TakeRead, Takes
  <2>2. (IF queue = <<>> THEN NoAnswer ELSE Head(queue)) \in Nat /\ queue' \in Seq(Nat)
    BY <1>3 DEF TakeRead, NoAnswer
  <2>3. ReplyTo(Head(stdin), TRUE, IF queue = <<>> THEN NoAnswer ELSE Head(queue)) \in Replies
    BY <2>1, <2>2, RepliesTyped
  <2>4. replies' \in Seq(Replies) /\ command' = NoCall /\ worker' \in {"exited", "idle"}
    BY <1>3, <2>3, EmitsTyped DEF TakeRead
  <2> QED
    BY <1>3, <2>1, <2>2, <2>4 DEF TakeRead, clientVars
<1>4. CASE TakeOther
  BY <1>4 DEF TakeOther, Takes, WorkerAt, clientVars
<1>5. CASE Spool \/ DaemonReturns
  <2>1. command \in Calls /\ UNCHANGED <<clientVars, stdin, queue, heard>>
    BY <1>5 DEF Spool, DaemonReturns
  <2>2. \A ok \in BOOLEAN : ReplyTo(command, ok, NoAnswer) \in Replies
    BY <2>1, RepliesTyped DEF NoAnswer
  <2>3. spooled' \subseteq Mails
    BY <1>5 DEF Spool, DaemonReturns, SharedInv
  <2>4. CASE \E ok \in BOOLEAN : Emits(ReplyTo(command, ok, NoAnswer))
    BY <2>1, <2>2, <2>3, <2>4, EmitsTyped DEF clientVars
  <2>5. CASE UNCHANGED <<replies, command>> /\ WorkerAt("sharing")
    BY <2>1, <2>3, <2>5 DEF clientVars, WorkerAt
  <2> QED
    BY <1>5, <2>4, <2>5 DEF Spool, DaemonReturns
<1>6. CASE Share \/ EndOfInput \/ Killed \/ ClientDies
  BY <1>6 DEF Share, EndOfInput, Killed, ClientDies, WorkerAt, clientVars, workerVars, NoThread, FlowInv
<1>7. CASE Hears
  BY <1>7 DEF Hears, clientVars
<1> QED
  BY <1>1, <1>2, <1>3, <1>4, <1>5, <1>6, <1>7 DEF ShareNext, WorkerStep

-----------------------------------------------------------------------------
(* The answers of the phone through KDE Connect.                           *)

\* How many answers have left the worker's queue, read or pushed out.
Passed == heard - Len(queue)

\* The queue holds the last ones heard, in order.
InQueue ==
  /\ Len(queue) <= QueueMax /\ Len(queue) <= heard
  /\ \A i \in 1..Len(queue) : queue[i] = Passed + i

\* What was returned came before them, each answer once and in order.
Returned ==
  /\ \A i \in 1..Len(got) : got[i] \in 1..Passed
  /\ \A i, j \in 1..Len(got) : i < j => got[i] < got[j]

\* The answer in the pipe comes after what was returned and before the queue.
InPipe ==
  replies # <<>> =>
    /\ Head(replies).value \in 0..Passed
    /\ Head(replies).value # NoAnswer =>
         Head(replies).ok = TRUE /\ \A i \in 1..Len(got) : got[i] < Head(replies).value

\* Of what has left the queue only that is missing which QueueMax later ones pushed out.
NoneLost ==
  client # "dead" =>
    \A n \in 1..Passed : n + QueueMax > heard =>
      \/ \E i \in 1..Len(got) : got[i] = n
      \/ replies # <<>> /\ Head(replies).value = n

KeptInv == InQueue /\ Returned /\ InPipe /\ NoneLost

\* Nothing has been heard at first.
LEMMA KeptStarts == ShareInit => KeptInv
  BY ShareAssumption DEF ShareInit, KeptInv, InQueue, Returned, InPipe, NoneLost, Passed

\* The numbers in it.
LEMMA KeptNumbers ==
  ASSUME AnswerSorts
  PROVE  /\ Len(queue) \in Nat /\ Len(got) \in Nat /\ heard \in Nat /\ Passed \in Int
         /\ QueueMax \in Nat \ {0}
         /\ \A i \in 1..Len(got) : got[i] \in Nat
         /\ \A i \in 1..Len(queue) : queue[i] \in Nat
  BY ShareAssumption DEF AnswerSorts, Passed

\* A step that has nothing to do with answers; a reply without one may be written.
LEMMA KeptAside ==
  ASSUME KeptInv, AnswerSorts, UNCHANGED <<got, queue, heard>>, client = "dead" => client' = "dead",
         \/ replies' = replies
         \/ replies = <<>> /\ replies' # <<>> /\ Head(replies').value = NoAnswer
  PROVE  KeptInv'
<1>1. Passed' = Passed
  BY DEF Passed
<1>2. InQueue' /\ Returned'
  BY <1>1 DEF KeptInv, InQueue, Returned
<1>3. Passed \in Nat
  BY KeptNumbers DEF KeptInv, InQueue, Passed
<1>4. InPipe'
  BY <1>1, <1>3 DEF KeptInv, InPipe, NoAnswer
<1>5. NoneLost'
  BY <1>1, <1>3 DEF KeptInv, NoneLost
<1> QED
  BY <1>2, <1>4, <1>5 DEF KeptInv

\* A reply without an answer.
LEMMA EmitsNothing ==
  ASSUME NEW c, NEW ok \in BOOLEAN, Emits(ReplyTo(c, ok, NoAnswer)), replies = <<>>
  PROVE  \/ replies' = replies
         \/ replies' # <<>> /\ Head(replies').value = NoAnswer
<1>1. ReplyTo(c, ok, NoAnswer).value = NoAnswer
  BY DEF ReplyTo
<1> QED
  BY <1>1, EmitsOne

\* The answer in the pipe is returned.
LEMMA KeptReceive ==
  ASSUME FlowInv, ShareSorts, AnswerSorts, KeptInv, NEW t \in Threads, Receive(t)
  PROVE  KeptInv'
<1>1. /\ replies # <<>> /\ replies' = <<>> /\ client # "dead" /\ UNCHANGED <<queue, heard>>
      /\ Head(replies).value \in 0..Passed
  BY DEF Receive, FlowInv, workerVars, KeptInv, InPipe
<1>a. InQueue' /\ Passed' = Passed /\ InPipe'
  BY <1>1 DEF KeptInv, InQueue, InPipe, Passed
<1> DEFINE v == Head(replies).value
<1>2. CASE v = NoAnswer
  <2>1. got' = got
    BY <1>2 DEF Receive
  <2>2. Returned'
    BY <1>a, <2>1 DEF KeptInv, Returned
  <2>3. NoneLost'
    BY <1>1, <1>a, <1>2, <2>1 DEF KeptInv, NoneLost, NoAnswer
  <2> QED
    BY <1>a, <2>2, <2>3 DEF KeptInv
<1>3. CASE v # NoAnswer
  <2>1. /\ got' = Append(got, v) /\ v \in Nat \ {0} /\ v <= Passed
        /\ \A i \in 1..Len(got) : got[i] < v
    BY <1>1, <1>3, KeptNumbers DEF Receive, KeptInv, InPipe, NoAnswer
  <2> HIDE DEF v
  <2>2. /\ Len(got') = Len(got) + 1 /\ got'[Len(got) + 1] = v
        /\ \A i \in 1..Len(got) : got'[i] = got[i]
    BY <2>1, AppendProperties DEF AnswerSorts
  <2>3. \A i \in 1..Len(got') : got'[i] \in 1..Passed'
    BY <1>a, <2>1, <2>2, KeptNumbers DEF KeptInv, Returned
  <2>4. ASSUME NEW i \in 1..Len(got'), NEW j \in 1..Len(got'), i < j PROVE got'[i] < got'[j]
    <3> DEFINE n == Len(got)
    <3>0. n \in Nat /\ Len(got') = n + 1
      BY <2>2, KeptNumbers
    <3> HIDE DEF n
    <3>1. i \in 1..n /\ (j \in 1..n \/ j = n + 1)
      BY <2>4, <3>0
    <3> USE DEF n
    <3>2. CASE j \in 1..Len(got)
      BY <2>2, <2>4, <3>1, <3>2 DEF KeptInv, Returned
    <3>3. CASE j = Len(got) + 1
      BY <2>1, <2>2, <3>1, <3>3
    <3> QED
      BY <3>1, <3>2, <3>3
  <2>5. ASSUME NEW n \in 1..Passed, n + QueueMax > heard
        PROVE  \E i \in 1..Len(got') : got'[i] = n
    <3>1. CASE v = n
      <4>1. Len(got) + 1 \in 1..Len(got')
        BY <2>2, KeptNumbers
      <4> QED
        BY <2>2, <3>1, <4>1
    <3>2. CASE v # n
      <4>1. PICK i \in 1..Len(got) : got[i] = n
        BY <1>1, <2>5, <3>2 DEF KeptInv, NoneLost, v
      <4>2. i \in 1..Len(got')
        BY <2>2, KeptNumbers
      <4> QED
        BY <2>2, <4>1, <4>2
    <3> QED
      BY <3>1, <3>2
  <2>6. Returned' /\ NoneLost'
    BY <1>1, <1>a, <2>3, <2>4, <2>5 DEF Returned, NoneLost
  <2> QED
    BY <1>a, <2>6 DEF KeptInv
<1> QED
  BY <1>2, <1>3

\* The oldest answer of the queue goes into the pipe, or is lost with a dead client.
LEMMA KeptTakeRead ==
  ASSUME FlowInv, ShareSorts, AnswerSorts, KeptInv, TakeRead PROVE KeptInv'
<1>1. replies = <<>> /\ UNCHANGED <<got, heard, client>>
  BY DEF TakeRead, Takes, FlowInv, clientVars
<1>2. CASE queue = <<>>
  <2>1. queue' = queue /\ Emits(ReplyTo(Head(stdin), TRUE, NoAnswer))
    BY <1>2 DEF TakeRead
  <2>2. replies' = replies \/ (replies' # <<>> /\ Head(replies').value = NoAnswer)
    BY <1>1, <2>1, EmitsNothing
  <2> QED
    BY <1>1, <2>1, <2>2, KeptAside
<1>3. CASE queue # <<>>
  <2>1. queue' = Tail(queue) /\ Emits(ReplyTo(Head(stdin), TRUE, Head(queue)))
    BY <1>3 DEF TakeRead
  <2>2. /\ Len(queue) > 0 /\ Len(queue') = Len(queue) - 1
        /\ \A i \in 1..Len(queue') : queue'[i] = queue[i + 1]
        /\ Head(queue) = queue[1]
    BY <1>3, <2>1, HeadTailProperties, KeptNumbers, EmptySeq DEF AnswerSorts
  <2>3. Head(queue) = Passed + 1 /\ Passed' = Passed + 1
    BY <1>1, <2>2, KeptNumbers DEF KeptInv, InQueue, Passed
  <2>4. \A i \in 1..Len(queue') : queue'[i] = Passed' + i
    BY <2>2, <2>3, KeptNumbers DEF KeptInv, InQueue
  <2>5. /\ ReplyTo(Head(stdin), TRUE, Head(queue)).value = Head(queue)
        /\ ReplyTo(Head(stdin), TRUE, Head(queue)).ok = TRUE
    BY DEF ReplyTo
  <2>6. \/ replies' = <<>> /\ client' = "dead"
        \/ replies' # <<>> /\ Head(replies').value = Passed' /\ Head(replies').ok = TRUE
    BY <1>1, <2>1, <2>3, <2>5, EmitsOne
  <2>7. \A i \in 1..Len(got) : got[i] \in 1..Passed /\ got[i] < Passed'
    BY <2>3, KeptNumbers DEF KeptInv, Returned
  <2>8. Len(queue') <= QueueMax /\ Len(queue') <= heard
    BY <2>2, KeptNumbers DEF KeptInv, InQueue
  <2>9. Passed' \in Nat /\ Passed' # NoAnswer
    BY <2>3, KeptNumbers DEF KeptInv, InQueue, Passed, NoAnswer
  <2>10. ASSUME client' # "dead", NEW n \in 1..Passed', n + QueueMax > heard
         PROVE  (\E i \in 1..Len(got) : got[i] = n) \/ Head(replies').value = n
    <3>1. n = Passed' \/ n \in 1..Passed
      BY <2>3, KeptNumbers
    <3> QED
      BY <1>1, <2>6, <2>10, <3>1 DEF KeptInv, NoneLost
  <2>11. InQueue'
    BY <1>1, <2>4, <2>8 DEF InQueue
  <2>12. Returned'
    BY <1>1, <2>3, <2>7, KeptNumbers DEF KeptInv, Returned
  <2>13. InPipe'
    BY <1>1, <2>6, <2>7, <2>9 DEF InPipe
  <2>14. NoneLost'
    BY <1>1, <2>6, <2>10 DEF NoneLost
  <2> QED
    BY <2>11, <2>12, <2>13, <2>14 DEF KeptInv
<1> QED
  BY <1>2, <1>3

\* An answer is heard, and pushes out the oldest of a full queue.
LEMMA KeptHears ==
  ASSUME AnswerSorts, KeptInv, Hears PROVE KeptInv'
<1>1. UNCHANGED <<got, replies, client>> /\ heard' = heard + 1 /\ heard + 1 \in Nat
  BY KeptNumbers DEF Hears, clientVars
<1>2. Passed \in Nat
  BY KeptNumbers DEF KeptInv, InQueue, Passed
<1>3. CASE Len(queue) < QueueMax
  <2>1. queue' = Append(queue, heard + 1)
    BY <1>3 DEF Hears
  <2>2. /\ Len(queue') = Len(queue) + 1 /\ queue'[Len(queue) + 1] = heard + 1
        /\ \A i \in 1..Len(queue) : queue'[i] = queue[i]
    BY <1>1, <2>1, AppendProperties DEF AnswerSorts
  <2>3. Passed' = Passed /\ Passed + Len(queue') = heard + 1
    BY <1>1, <2>2, KeptNumbers DEF Passed
  <2>4. ASSUME NEW i \in 1..Len(queue') PROVE queue'[i] = Passed' + i
    <3>1. i \in 1..Len(queue) \/ i = Len(queue) + 1
      BY <2>2, KeptNumbers
    <3> QED
      BY <2>2, <2>3, <3>1, KeptNumbers DEF KeptInv, InQueue
  <2>5. InQueue'
    BY <1>1, <1>3, <2>2, <2>4, KeptNumbers DEF KeptInv, InQueue
  <2>6. Returned' /\ InPipe'
    BY <1>1, <2>3 DEF KeptInv, Returned, InPipe
  <2>7. NoneLost'
    BY <1>1, <1>2, <2>3, KeptNumbers DEF KeptInv, NoneLost
  <2> QED
    BY <2>5, <2>6, <2>7 DEF KeptInv
<1>4. CASE ~(Len(queue) < QueueMax)
  <2>1. queue' = Append(Tail(queue), heard + 1)
    BY <1>4 DEF Hears
  <2>2. Len(queue) = QueueMax /\ queue # <<>>
    BY <1>4, KeptNumbers, EmptySeq DEF KeptInv, InQueue
  <2>3. /\ Tail(queue) \in Seq(Nat) /\ Len(Tail(queue)) = Len(queue) - 1
        /\ \A i \in 1..Len(Tail(queue)) : Tail(queue)[i] = queue[i + 1]
    BY <2>2, HeadTailProperties DEF AnswerSorts
  <2>4. /\ Len(queue') = Len(Tail(queue)) + 1 /\ queue'[Len(Tail(queue)) + 1] = heard + 1
        /\ \A i \in 1..Len(Tail(queue)) : queue'[i] = Tail(queue)[i]
    BY <1>1, <2>1, <2>3, AppendProperties
  <2>5. /\ Len(queue') = Len(queue) /\ queue'[Len(queue)] = heard + 1
        /\ \A i \in 1..(Len(queue) - 1) : queue'[i] = queue[i + 1]
    BY <2>3, <2>4, KeptNumbers
  <2>6. Passed' = Passed + 1 /\ Passed' + Len(queue) = heard + 1
    BY <1>1, <2>5, KeptNumbers DEF Passed
  <2>7. ASSUME NEW i \in 1..Len(queue') PROVE queue'[i] = Passed' + i
    <3>1. i \in 1..(Len(queue) - 1) \/ i = Len(queue)
      BY <2>5, KeptNumbers
    <3>2. CASE i \in 1..(Len(queue) - 1)
      <4>1. i + 1 \in 1..Len(queue) /\ queue[i + 1] = Passed + (i + 1)
        BY <3>2, KeptNumbers DEF KeptInv, InQueue
      <4> QED
        BY <1>2, <2>5, <2>6, <3>2, <4>1
    <3> QED
      BY <2>5, <2>6, <3>1, <3>2
  <2>8. InQueue'
    BY <1>1, <2>2, <2>5, <2>7, KeptNumbers DEF KeptInv, InQueue
  <2>9. Returned' /\ InPipe'
    BY <1>1, <1>2, <2>6, KeptNumbers DEF KeptInv, Returned, InPipe
  <2>10. ASSUME NEW n \in 1..Passed', n + QueueMax > heard' PROVE n \in 1..Passed /\ n + QueueMax > heard
    BY <1>1, <1>2, <2>2, <2>6, <2>10, KeptNumbers DEF Passed
  <2>11. NoneLost'
    BY <1>1, <2>10 DEF KeptInv, NoneLost
  <2> QED
    BY <2>8, <2>9, <2>11 DEF KeptInv
<1> QED
  BY <1>3, <1>4

\* Every step.
LEMMA KeptStep ==
  ASSUME FlowInv, ShareSorts, AnswerSorts, KeptInv, ShareNext PROVE KeptInv'
<1>1. ASSUME NEW t \in Threads, ClientStep(t) PROVE KeptInv'
  <2>1. CASE Receive(t)
    BY <2>1, KeptReceive
  <2>2. CASE Open(t) \/ GiveUp(t) \/ Close(t) \/ Closed(t)
    BY <2>2, KeptAside DEF Open, GiveUp, Close, Closed, workerVars
  <2>3. ASSUME NEW what \in Operations \ {"hello"}, Sends(t, what) PROVE KeptInv'
    BY <2>3, KeptAside DEF Sends, workerVars
  <2> QED
    BY <1>1, <2>1, <2>2, <2>3 DEF ClientStep
<1>2. CASE Boot
  <2>1. replies = <<>> /\ UNCHANGED <<clientVars, queue, heard>>
    BY <1>2 DEF Boot, FlowInv
  <2>2. CASE Emits(ReplyTo([op |-> "hello", id |-> 1], TRUE, NoAnswer))
    BY <2>1, <2>2, EmitsNothing, KeptAside DEF clientVars
  <2>3. CASE replies' = Append(replies, ReplyTo([op |-> "hello", id |-> 1], FALSE, NoAnswer))
    <3>1. replies' # <<>> /\ Head(replies').value = NoAnswer
      BY <2>1, <2>3, FirstLine DEF ReplyTo
    <3> QED
      BY <2>1, <3>1, KeptAside DEF clientVars
  <2> QED
    BY <1>2, <2>2, <2>3 DEF Boot
<1>3. CASE Spool \/ DaemonReturns
  <2>1. replies = <<>> /\ UNCHANGED <<clientVars, queue, heard>>
    BY <1>3 DEF Spool, DaemonReturns, FlowInv, Busy
  <2>2. replies' = replies \/ \E ok \in BOOLEAN : Emits(ReplyTo(command, ok, NoAnswer))
    BY <1>3 DEF Spool, DaemonReturns
  <2>3. replies' = replies \/ (replies' # <<>> /\ Head(replies').value = NoAnswer)
    BY <2>1, <2>2, EmitsNothing
  <2> QED
    BY <2>1, <2>3, KeptAside DEF clientVars
<1>4. CASE TakeOther \/ Share \/ EndOfInput \/ Killed \/ ClientDies
  BY <1>4, KeptAside DEF TakeOther, Share, EndOfInput, Killed, ClientDies, clientVars, workerVars
<1> QED
  BY <1>1, <1>2, <1>3, <1>4, KeptTakeRead, KeptHears DEF ShareNext, WorkerStep

\* What is in the pipe: nothing, or one reply.
InFlight == [i \in DOMAIN replies |-> replies[i].value]

LEMMA OneInFlight ==
  ASSUME FlowInv, ShareSorts
  PROVE  /\ InFlight \in Seq(Nat) /\ Len(InFlight) \in {0, 1}
         /\ Len(InFlight) = 0 <=> replies = <<>>
         /\ replies # <<>> => InFlight[1] = Head(replies).value
<1>1. replies \in Seq(Replies) /\ \A r \in Replies : r.value \in Nat
  BY DEF ShareSorts, Replies
<1>2. DOMAIN replies = 1..Len(replies) /\ Len(replies) \in Nat
  BY <1>1, LenProperties
<1>3. \A i \in 1..Len(replies) : replies[i] \in Replies
  BY <1>1, ElementOfSeq
<1>4. InFlight \in [1..Len(replies) -> Nat]
  BY <1>1, <1>2, <1>3 DEF InFlight
<1>5. InFlight \in Seq(Nat)
  BY <1>2, <1>4, SeqDef
<1>6. Len(InFlight) = Len(replies)
  <2>1. Len(InFlight) \in Nat /\ 1..Len(InFlight) = 1..Len(replies)
    BY <1>4, <1>5, LenProperties
  <2> QED
    BY <1>2, <2>1
<1>7. CASE replies = <<>>
  BY <1>5, <1>6, <1>7, EmptySeq
<1>8. CASE replies # <<>>
  <2>1. Tail(replies) = <<>>
    BY <1>8 DEF FlowInv
  <2>2. Len(Tail(replies)) = Len(replies) - 1
    BY <1>1, <1>8, HeadTailProperties
  <2>3. Len(Tail(replies)) = 0
    BY <2>1, EmptySeq
  <2>4. Len(replies) = 1
    BY <1>2, <2>2, <2>3
  <2>5. InFlight[1] = replies[1].value
    BY <1>2, <2>4 DEF InFlight
  <2> QED
    BY <1>5, <1>6, <1>8, <2>4, <2>5
<1> QED
  BY <1>7, <1>8

\* Where the answers on their way are.
LEMMA AnswersAt ==
  ASSUME FlowInv, ShareSorts, AnswerSorts
  PROVE  LET m == Len(got)  k == Len(InFlight)  q == Len(queue) IN
         /\ m \in Nat /\ k \in {0, 1} /\ q \in Nat
         /\ DOMAIN Answers = 1..(m + k + q)
         /\ \A i \in 1..m : Answers[i] = got[i]
         /\ k = 1 => Answers[m + 1] = Head(replies).value
         /\ \A i \in 1..q : Answers[m + k + i] = queue[i]
<1> DEFINE m == Len(got)
           k == Len(InFlight)
           q == Len(queue)
           S == got \o InFlight
<1>1. m \in Nat /\ k \in {0, 1} /\ q \in Nat /\ InFlight \in Seq(Nat)
  BY OneInFlight, KeptNumbers
<1>2. /\ S \in Seq(Nat) /\ Len(S) = m + k
      /\ \A i \in 1..(m + k) : S[i] = IF i <= m THEN got[i] ELSE InFlight[i - m]
  BY <1>1, ConcatProperties DEF AnswerSorts
<1>3. Answers = S \o queue
  BY DEF Answers, InFlight
<1>4. S \o queue \in Seq(Nat) /\ Len(S \o queue) = Len(S) + q
  BY <1>2, ConcatProperties DEF AnswerSorts
<1>5. \A i \in 1..(Len(S) + q) : (S \o queue)[i] = IF i <= Len(S) THEN S[i] ELSE queue[i - Len(S)]
  BY <1>2, ConcatProperties DEF AnswerSorts
<1>6. DOMAIN Answers = 1..(m + k + q)
  BY <1>2, <1>3, <1>4, LenProperties
<1>7. k = 1 => InFlight[1] = Head(replies).value
  BY OneInFlight
<1> HIDE DEF m, k, q, S
<1>8. \A i \in 1..(m + k + q) : Answers[i] = IF i <= m + k THEN S[i] ELSE queue[i - (m + k)]
  BY <1>2, <1>3, <1>5
<1>9. \A i \in 1..m : Answers[i] = got[i]
  BY <1>1, <1>2, <1>8
<1>10. k = 1 => Answers[m + 1] = Head(replies).value
  BY <1>1, <1>2, <1>7, <1>8
<1>11. \A i \in 1..q : Answers[m + k + i] = queue[i]
  BY <1>1, <1>8
<1> QED
  BY <1>1, <1>6, <1>9, <1>10, <1>11 DEF m, k, q

\* They are in order, and those that matter are there.
LEMMA KeptAnswers ==
  ASSUME FlowInv, ShareSorts, AnswerSorts, KeptInv PROVE AnswersKept
<1> DEFINE m == Len(got)
           k == Len(InFlight)
           q == Len(queue)
<1>1. /\ m \in Nat /\ k \in {0, 1} /\ q \in Nat /\ DOMAIN Answers = 1..(m + k + q)
      /\ \A i \in 1..m : Answers[i] = got[i]
      /\ k = 1 => Answers[m + 1] = Head(replies).value
      /\ \A i \in 1..q : Answers[m + k + i] = queue[i]
  BY AnswersAt
<1>2. Passed \in Nat /\ heard \in Nat /\ heard = Passed + q
  BY KeptNumbers DEF KeptInv, InQueue, Passed
<1>3. (k = 1) <=> (replies # <<>>)
  BY <1>1, OneInFlight
<1>4. \A i \in 1..m : Answers[i] \in 1..Passed
  BY <1>1 DEF KeptInv, Returned
<1>5. k = 1 => Answers[m + 1] \in 0..Passed
  BY <1>1, <1>3 DEF KeptInv, InPipe
<1>6. \A i \in 1..q : Answers[m + k + i] = Passed + i
  BY <1>1 DEF KeptInv, InQueue
<1>7. \A i, j \in 1..m : i < j => Answers[i] < Answers[j]
  BY <1>1 DEF KeptInv, Returned
<1>8. k = 1 /\ Answers[m + 1] # NoAnswer => \A i \in 1..m : Answers[i] < Answers[m + 1]
  BY <1>1, <1>3 DEF KeptInv, InPipe
<1>9. client # "dead" =>
        \A n \in 1..Passed : n + QueueMax > heard =>
          (\E i \in 1..m : Answers[i] = n) \/ (k = 1 /\ Answers[m + 1] = n)
  BY <1>1, <1>3 DEF KeptInv, NoneLost
<1> HIDE DEF m, k, q
<1>10. ASSUME NEW i \in DOMAIN Answers, NEW j \in DOMAIN Answers, i < j,
              NoAnswer \notin {Answers[i], Answers[j]}
       PROVE  Answers[i] < Answers[j]
  <2>1. i \in 1..(m + k + q) /\ j \in 1..(m + k + q)
    BY <1>1
  <2>2. CASE j > m + k
    <3>1. j - (m + k) \in 1..q /\ m + k + (j - (m + k)) = j
      BY <1>1, <2>1, <2>2
    <3>2. Answers[j] = Passed + (j - (m + k))
      BY <1>6, <3>1
    <3>3. CASE i > m + k
      <4>1. i - (m + k) \in 1..q /\ m + k + (i - (m + k)) = i
        BY <1>1, <2>1, <3>3
      <4>2. Answers[i] = Passed + (i - (m + k))
        BY <1>6, <4>1
      <4> QED
        BY <1>1, <1>2, <1>10, <2>1, <3>2, <4>2
    <3>4. CASE i <= m + k
      <4>1. i \in 1..m \/ (k = 1 /\ i = m + 1)
        BY <1>1, <2>1, <3>4
      <4>2. Answers[i] \in 0..Passed
        BY <1>2, <1>4, <1>5, <4>1
      <4> QED
        BY <1>1, <1>2, <2>1, <2>2, <3>2, <4>2
    <3> QED
      BY <1>1, <2>1, <3>3, <3>4
  <2>3. CASE j <= m
    BY <1>1, <1>7, <1>10, <2>1, <2>3
  <2>4. CASE k = 1 /\ j = m + 1
    <3>1. i \in 1..m /\ Answers[m + 1] # NoAnswer
      BY <1>1, <1>10, <2>1, <2>4
    <3> QED
      BY <1>8, <2>4, <3>1
  <2> QED
    BY <1>1, <2>1, <2>2, <2>3, <2>4
<1>11. ASSUME client # "dead", NEW s \in 1..heard, s + QueueMax > heard
       PROVE  \E i \in DOMAIN Answers : Answers[i] = s
  <2>1. CASE s <= Passed
    <3>1. (\E i \in 1..m : Answers[i] = s) \/ (k = 1 /\ Answers[m + 1] = s)
      BY <1>2, <1>9, <1>11, <2>1
    <3>2. \A i \in 1..m : i \in DOMAIN Answers
      BY <1>1
    <3>3. k = 1 => m + 1 \in DOMAIN Answers
      BY <1>1
    <3> QED
      BY <3>1, <3>2, <3>3
  <2>2. CASE s > Passed
    <3>1. s - Passed \in 1..q /\ Passed + (s - Passed) = s
      BY <1>1, <1>2, <1>11, <2>2
    <3>2. Answers[m + k + (s - Passed)] = s
      BY <1>6, <3>1
    <3>3. m + k + (s - Passed) \in DOMAIN Answers
      BY <1>1, <3>1
    <3> QED
      BY <3>2, <3>3
  <2> QED
    BY <1>2, <1>11, <2>1, <2>2
<1> QED
  BY <1>10, <1>11 DEF AnswersKept, Range

-----------------------------------------------------------------------------
(* The theorems.                                                           *)

RouteInv == TimeInv /\ MailInv /\ FlowInv /\ SharedInv

\* One step of the route's own transport, and the other's variables at rest.
LEMMA LanRest ==
  ASSUME TimeInv, MailInv, UNCHANGED lanVars
  PROVE  TimeInv' /\ MailInv'
  BY DEF TimeInv, MailInv, LanCarried, lanVars, connection, mail

\* The same for KDE Connect.
LEMMA ShareRest ==
  ASSUME FlowInv, SharedInv, UNCHANGED shareVars
  PROVE  FlowInv' /\ SharedInv'
  BY DEF FlowInv, SharedInv, ShareCarried, Busy, shareVars, clientVars, workerVars

\* A step of the client or the worker.
LEMMA ShareSteps ==
  ASSUME FlowInv, SharedInv, ShareNext
  PROVE  FlowInv' /\ SharedInv' /\ Carrying(shared, shared', accepted, accepted')
<1>1. ASSUME NEW t \in Threads, ClientStep(t)
      PROVE  FlowInv' /\ SharedInv' /\ Carrying(shared, shared', accepted, accepted')
  BY <1>1, FlowClient, SharedClient
<1>2. CASE WorkerStep \/ Hears \/ Killed \/ ClientDies
  BY <1>2, FlowWorker, SharedWorker
<1> QED
  BY <1>1, <1>2 DEF ShareNext

\* The invariant of both holds at first,
LEMMA RouteStarts == RouteInit => RouteInv
  BY TimeStarts, MailStarts, FlowStarts, SharedStarts DEF RouteInit, RouteInv

\* every step keeps it,
LEMMA RouteStep == RouteInv /\ [RouteNext]_routeVars => RouteInv'
<1> SUFFICES ASSUME RouteInv, [RouteNext]_routeVars PROVE RouteInv'
  OBVIOUS
<1>1. CASE LanNext /\ UNCHANGED shareVars
  BY <1>1, TimeStep, MailStep, ShareRest DEF RouteInv
<1>2. CASE ShareNext /\ UNCHANGED lanVars
  BY <1>2, ShareSteps, LanRest DEF RouteInv
<1>3. CASE UNCHANGED routeVars
  BY <1>3, ShareRest, LanRest DEF RouteInv, routeVars
<1> QED
  BY <1>1, <1>2, <1>3 DEF RouteNext

\* and so it holds always.
LEMMA RouteAlways == RouteSpec => []RouteInv
<1>1. RouteInit => RouteInv
  BY RouteStarts
<1>2. RouteInv /\ [RouteNext]_routeVars => RouteInv'
  BY RouteStep
<1> QED
  BY <1>1, <1>2, PTL DEF RouteSpec

\* With it, what the two transports hold at any time.
RouteSorts == Flags /\ LanSorts /\ ShareSorts /\ AnswerSorts /\ KeptInv

\* Its parts about KDE Connect, while the LAN is used.
LEMMA SortsRest ==
  ASSUME ShareSorts, AnswerSorts, KeptInv, UNCHANGED shareVars
  PROVE  ShareSorts' /\ AnswerSorts' /\ KeptInv'
BY DEF ShareSorts, AnswerSorts, Busy, KeptInv, InQueue, Returned, InPipe, NoneLost, Passed,
   shareVars, clientVars, workerVars

\* It holds at first, and every step that finds RouteInv keeps it.
LEMMA SortsAlways == RouteSpec => []RouteSorts
<1>1. RouteInit => RouteSorts
  BY FlagsStart, LanSortsStart, SortsStart, KeptStarts DEF RouteInit, RouteSorts
<1>2. ASSUME RouteInv, RouteSorts, [RouteNext]_routeVars PROVE RouteSorts'
  <2>1. Flags'
    BY <1>2, FlagsKeep DEF RouteSorts
  <2>2. UNCHANGED lanVars => LanSorts'
    BY <1>2 DEF RouteSorts, LanSorts, lanVars, connection, mail
  <2>3. CASE LanNext /\ UNCHANGED shareVars
    BY <1>2, <2>1, <2>3, LanSortsKeep, SortsRest DEF RouteSorts
  <2>4. CASE ShareNext /\ UNCHANGED lanVars
    BY <1>2, <2>1, <2>2, <2>4, SortsKeep, KeptStep DEF RouteInv, RouteSorts
  <2>5. CASE UNCHANGED routeVars
    BY <1>2, <2>1, <2>2, <2>5, SortsRest DEF RouteSorts, routeVars
  <2> QED
    BY <1>2, <2>3, <2>4, <2>5 DEF RouteNext
<1> QED
  BY <1>1, <1>2, RouteAlways, PTL DEF RouteSpec

\* The state of both transports is what it is meant to be: a watchdog is set for a
\* time within the call's limit, a line in a pipe is a command or a reply, an
\* answer is one that was announced (NetworkPhone, KdeConnectPhone, _worker).
THEOREM RouteIsTyped == RouteSpec => []RouteTypeOK
<1>1. ASSUME RouteInv, RouteSorts PROVE LanTypeOK
  <2>1. refreshed \in BOOLEAN
    BY <1>1, Zenon DEF RouteSorts, Flags
  <2>2. told \subseteq Messages
    BY <1>1 DEF RouteInv, MailInv, LanCarried
  <2> QED
    BY <1>1, <2>1, <2>2 DEF RouteInv, TimeInv, MailInv, RouteSorts, LanSorts, LanTypeOK
<1>2. ASSUME RouteInv, RouteSorts PROVE ShareTypeOK
  <2>1. asked \in BOOLEAN
    BY <1>2, Zenon DEF RouteSorts, Flags
  <2> QED
    BY <1>2, <2>1 DEF RouteInv, FlowInv, SharedInv, RouteSorts, ShareSorts, AnswerSorts, Busy, ShareTypeOK
<1> QED
  BY <1>1, <1>2, RouteAlways, SortsAlways, PTL DEF RouteTypeOK

\* An answer that the worker heard reaches the caller in its turn and once, unless
\* QueueMax later ones pushed it out: for a queue of any length, any number of
\* threads, calls and answers, and replies that are late (_worker, _rpc, read()).
THEOREM AnswersAreKept == RouteSpec => []AnswersKept
<1>1. RouteInv /\ RouteSorts => AnswersKept
  BY KeptAnswers DEF RouteInv, RouteSorts
<1> QED
  BY <1>1, RouteAlways, SortsAlways, PTL

\* A call over the LAN keeps its deadline unless its watchdog was missed, which only
\* its second connection can do, for any limits with TCP's below the call's
\* (NetworkPhone._connect, _connect_once).
THEOREM CallsInTime == RouteSpec => []CallInTime
<1>1. RouteInv => CallInTime
  BY LanAssumption DEF RouteInv, TimeInv, CallInTime, InCall, NoWatch
<1> QED
  BY <1>1, RouteAlways, PTL

\* The line that a call finds in the worker's pipe is its own answer, however many
\* threads call and whenever they give up (KdeConnectPhone._rpc).
THEOREM RepliesAreOwn == RouteSpec => []ReplyIsOwn
<1>1. RouteInv => ReplyIsOwn
  BY DEF RouteInv, FlowInv, ReplyIsOwn
<1> QED
  BY <1>1, RouteAlways, PTL

\* Nothing is spooled or shared behind a close() that returned.
THEOREM ClosedStaysQuiet == RouteSpec => ClosedIsQuiet
<1>1. ASSUME RouteInv, [RouteNext]_routeVars
      PROVE  [client = "closed" => UNCHANGED <<spooled, shared>>]_shareVars
  <2>1. CASE UNCHANGED shareVars
    BY <2>1
  <2>2. CASE ShareNext
    <3> SUFFICES ASSUME client = "closed" PROVE UNCHANGED <<spooled, shared>>
      OBVIOUS
    <3>1. worker = "exited"
      BY <1>1 DEF RouteInv, FlowInv
    <3>2. ASSUME NEW t \in Threads, ClientStep(t) PROVE UNCHANGED <<spooled, shared>>
      BY <3>2 DEF ClientStep, Open, Receive, GiveUp, Close, Closed, Sends, workerVars
    <3>3. CASE WorkerStep
      BY <3>1, <3>3 DEF WorkerStep, Boot, TakeRead, TakeOther, Takes, Spool, Share,
         DaemonReturns, EndOfInput
    <3>4. CASE ClientDies \/ Hears \/ Killed
      BY <3>4 DEF ClientDies, Hears, Killed, workerVars
    <3> QED
      BY <2>2, <3>2, <3>3, <3>4 DEF ShareNext
  <2> QED
    BY <1>1, <2>1, <2>2 DEF RouteNext, routeVars
<1> QED
  BY <1>1, RouteAlways, PTL DEF RouteSpec, ClosedIsQuiet

\* Either transport implements the courier: no message twice, none before its
\* request, none reported that was not posted (NetworkPhone, KdeConnectPhone).
THEOREM RouteCarries == RouteSpec => CarriesInOrder
<1>1. RouteInit => Parcel!CourierInit
  BY DEF RouteInit, LanInit, ShareInit, Parcel!CourierInit
<1>2. ASSUME RouteInv, [RouteNext]_routeVars
      PROVE  [Parcel!CourierNext]_<<IF route = "lan" THEN posted ELSE shared,
                                    IF route = "lan" THEN told ELSE accepted>>
  <2>2. CASE route = "lan" /\ UNCHANGED route /\ LanNext
    BY <1>2, <2>2, MailStep
    DEF RouteInv, Carrying, Messages, Parcel!CourierNext, Parcel!Hand, Parcel!Tell, Parcel!Carried
  <2>3. CASE route # "lan" /\ UNCHANGED route /\ ShareNext
    BY <1>2, <2>3, ShareSteps
    DEF RouteInv, Carrying, Messages, Parcel!CourierNext, Parcel!Hand, Parcel!Tell, Parcel!Carried
  <2>4. CASE UNCHANGED routeVars
    BY <2>4 DEF routeVars, lanVars, shareVars, mail, clientVars, workerVars
  <2> QED
    BY <1>2, <2>2, <2>3, <2>4 DEF RouteNext
<1> QED
  BY <1>1, <1>2, RouteAlways, PTL DEF RouteSpec, CarriesInOrder, Parcel!CourierSpec
=============================================================================
