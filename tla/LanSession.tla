----------------------------- MODULE LanSession -----------------------------
(***************************************************************************)
(* host.py NetworkPhone, as one session uses it: every call is a new TLS   *)
(* connection to the phone, which is believed only once its greeting,      *)
(* signed by the approved key, names the certificate of this connection;   *)
(* then one signed RPC and its answer.  The time of a call is counted from *)
(* its beginning, in units of five seconds; a watchdog cuts the connection.*)
(* The phone's address may be out of date, and then KDE Connect is asked   *)
(* once per session for another.                                           *)
(***************************************************************************)
EXTENDS Naturals, Sequences

CONSTANTS
  Addresses,     \* private LAN addresses
  Resolves,      \* TRUE: the session was given a KDE Connect device
  ConnectLimit,  \* the deadline of a call: 15 s
  TcpLimit,      \* and of its parts: a socket operation 5 s,
  WatchLimit,    \* the watchdog 10 s,
  FindLimit      \* the discovery refresh 5 s

ASSUME LanAssumption ==
  /\ Resolves \in BOOLEAN
  /\ ConnectLimit \in Nat /\ TcpLimit \in Nat /\ WatchLimit \in Nat /\ FindLimit \in Nat
  /\ TcpLimit < ConnectLimit

VARIABLES
  stage,      \* where the call is: the step that will be taken next
  op,         \* what the call is for
  clock,      \* time since it began
  watch,      \* when the watchdog fires, or NoWatch
  wait,       \* the timeout the connection's socket keeps
  address,    \* self.address
  refreshed,  \* self.refreshed
  home,       \* the address the phone has now
  made,       \* the calls the session has made
  late,       \* messages the phone has received and not yet looked at
  posted,     \* the messages the phone has accepted
  told        \* those whose call returned

connection == <<stage, op, clock, watch, wait>>
mail == <<home, made, late, posted, told>>
lanVars == <<connection, address, refreshed, mail>>

Messages == {"request", "receipt", "cancel"}
LanCalls == Messages \cup {"check", "read"}
InCall == {"tcp", "hello", "find", "rpc"}
Stages == {"new", "idle", "failed", "gone"} \cup InCall

\* No watchdog runs, or the one that did found no socket to shut down.
NoWatch == ConnectLimit + 1

LanTypeOK ==
  /\ stage \in Stages
  /\ op \in LanCalls \cup {"none"}
  /\ clock \in Nat /\ watch \in 0..NoWatch /\ wait \in 0..TcpLimit
  /\ address \in Addresses /\ home \in Addresses
  /\ refreshed \in BOOLEAN
  /\ made \subseteq LanCalls
  /\ late \subseteq Messages
  /\ posted \in Seq(Messages)
  /\ told \subseteq Messages

LanInit ==
  /\ stage = "new" /\ op = "none" /\ clock = 0 /\ watch = NoWatch /\ wait = 0
  /\ address \in Addresses /\ home \in Addresses
  /\ refreshed = FALSE /\ made = {} /\ late = {} /\ posted = <<>> /\ told = {}

-----------------------------------------------------------------------------
Left == ConnectLimit - clock
Least(a, b) == IF a <= b THEN a ELSE b

\* The endpoint the session was given, or what KDE Connect reports, or neither.
Construct ==
  /\ stage = "new" /\ stage' \in {"idle", "gone"}
  /\ address' \in IF Resolves THEN Addresses ELSE {address}
  /\ UNCHANGED <<op, clock, watch, wait, refreshed, mail>>

\* approve(): check(), the request, readings of the answer and the receipt, each
\* after the one before has returned; and a withdrawal when anything went wrong.
CallsFor(what) ==
  /\ made \cap {"receipt", "cancel"} = {}
  /\ CASE what = "check"   -> stage = "idle" /\ made = {}
       [] what = "request" -> stage = "idle" /\ made = {"check"}
       [] what = "cancel"  -> stage \in {"idle", "failed"} /\ "request" \in made
       [] OTHER            -> stage = "idle" /\ "request" \in made

Begin(what) ==
  /\ CallsFor(what)
  /\ stage' = "tcp" /\ op' = what /\ made' = made \cup {what}
  /\ UNCHANGED <<clock, watch, wait, address, refreshed, home, late, posted, told>>

\* The connection is closed and the call returns or raises.
Ends(next) ==
  /\ stage' = next /\ op' = "none"
  /\ clock' = 0 /\ watch' = NoWatch /\ wait' = 0

Raises == Ends("failed") /\ UNCHANGED <<address, refreshed, mail>>

\* _connect's except OSError: one refresh, unless there was one or cannot be.
Fails(d) ==
  IF Resolves /\ ~refreshed
  THEN /\ stage' = "find" /\ refreshed' = TRUE
       /\ clock' = clock + d /\ watch' = NoWatch /\ wait' = 0
       /\ UNCHANGED <<op, address, mail>>
  ELSE Raises

\* Mutant: the watchdog has its ten seconds whatever time is left.
TcpFreshWatch ==
  /\ stage = "tcp" /\ Left > 0
  /\ \E d \in 0..Least(TcpLimit, Left) :
       /\ clock' = clock + d /\ stage' = "hello" /\ wait' = Least(TcpLimit, Left)
       /\ watch' = clock' + WatchLimit
  /\ UNCHANGED <<op, address, refreshed, mail>>

\* create_connection, unless discovery has used up the time.  A watchdog that
\* fires at once may meet the socket between wrap_socket, which empties it, and
\* the assignment that shows it the new one: then nothing is shut down.
Tcp ==
  /\ stage = "tcp"
  /\ \/ Left <= 0 /\ Fails(0)
     \/ \E d \in 0..Least(TcpLimit, Left) : Left > 0 /\ Fails(d)
     \/ \E d \in 0..Least(TcpLimit, Left) :
          /\ Left > 0
          /\ clock' = clock + d /\ stage' = "hello" /\ wait' = Least(TcpLimit, Left)
          /\ watch' \in {Least(clock' + WatchLimit, ConnectLimit)}
                          \cup IF clock' = ConnectLimit THEN {NoWatch} ELSE {}
          /\ UNCHANGED <<op, address, refreshed, mail>>

\* How long the other side may take: until the watchdog, or, with none, until
\* the socket has been silent for its timeout.
Patience == IF watch = NoWatch THEN 0..wait ELSE 0..(watch - clock)

\* Mutant: no watchdog; whoever has taken the connection may keep it.
HelloWaits ==
  /\ stage = "hello" /\ address = home
  /\ stage' = "rpc"
  /\ UNCHANGED <<op, clock, watch, wait, address, refreshed, mail>>

\* The handshake and the signed greeting.  A connection that breaks is an
\* OSError; another device, or what is no greeting, is refused for good.
Hello ==
  /\ stage = "hello"
  /\ \E d \in Patience :
       \/ Fails(d)
       \/ Raises
       \/ /\ address = home /\ op # "check"
          /\ stage' = "rpc" /\ clock' = clock + d
          /\ UNCHANGED <<op, watch, wait, address, refreshed, mail>>
       \/ /\ address = home /\ op = "check"
          /\ Ends("idle") /\ UNCHANGED <<address, refreshed, mail>>

\* Mutant: the refresh has its five seconds whatever time is left.
FindLong ==
  /\ stage = "find"
  /\ \E d \in 0..FindLimit, a \in Addresses :
       clock' = clock + d /\ address' = a /\ stage' = "tcp"
  /\ UNCHANGED <<op, watch, wait, refreshed, mail>>

\* kdeconnect_endpoint(refresh=True): a reachable address, the old one or
\* another, before the budget is spent; or none, or KDE Connect cannot be asked.
Find ==
  /\ stage = "find"
  /\ \/ Raises
     \/ \E d \in 0..Least(FindLimit, Left), a \in Addresses :
          /\ Left > 0
          /\ clock' = clock + d /\ address' = a /\ stage' = "tcp"
          /\ UNCHANGED <<op, watch, wait, refreshed, mail>>

\* exchange(): a receipt or a withdrawal is refused without its request.
Accepts(name) ==
  posted' = IF name \in Messages /\ (name = "request" \/ posted # <<>>)
            THEN Append(posted, name) ELSE posted

\* Mutant: a call whose answer was lost is made again on a new connection.
RpcAgain ==
  /\ stage = "rpc" /\ Accepts(op)
  /\ stage' = "tcp"
  /\ UNCHANGED <<op, clock, watch, wait, address, refreshed, home, made, late, told>>

\* _exchange: the RPC is carried out or refused and the answer comes or not, or
\* the connection ends before the phone has looked; nothing is sent again.
Rpc ==
  /\ stage = "rpc"
  /\ \/ /\ Ends("idle") /\ Accepts(op)
        /\ op \in Messages => posted' # posted
        /\ told' = told \cup ({op} \cap Messages) /\ UNCHANGED late
     \/ Ends("failed") /\ Accepts(op) /\ UNCHANGED <<late, told>>
     \/ /\ Ends("failed") /\ UNCHANGED <<posted, told>>
        /\ late' \in {late, late \cup ({op} \cap Messages)}
  /\ UNCHANGED <<address, refreshed, home, made>>

\* SIGTERM ends the call, a kill the session; what is on its way may still arrive.
Dropped ==
  /\ stage \in InCall /\ \E next \in {"failed", "gone"} : Ends(next)
  /\ late' \in {late, late \cup IF stage = "rpc" THEN {op} \cap Messages ELSE {}}
  /\ UNCHANGED <<address, refreshed, home, made, posted, told>>

\* The phone's thread gets at a message whose sender has gone.
Arrives ==
  \E name \in late :
    /\ late' = late \ {name} /\ Accepts(name)
    /\ UNCHANGED <<connection, address, refreshed, home, made, told>>

\* The phone gets another address.
Moves ==
  /\ stage # "gone"
  /\ home' \in Addresses \ {home}
  /\ UNCHANGED <<connection, address, refreshed, made, late, posted, told>>

LanStep == Tcp \/ Hello \/ Find \/ Rpc

LanNext ==
  \/ Construct \/ (\E what \in LanCalls : Begin(what))
  \/ LanStep \/ Dropped \/ Arrives \/ Moves

\* Sockets, the watchdog and the discovery budget time out.
LanFairness == WF_lanVars(LanStep)
LanSpec == LanInit /\ [][LanNext]_lanVars /\ LanFairness
-----------------------------------------------------------------------------
\* A call ends within its fifteen seconds, refresh and second connection
\* included, but for the one whose watchdog fired and was missed; and that one
\* has no connection left but the last (_connect, _connect_once).
CallInTime ==
  /\ watch # NoWatch => watch <= ConnectLimit
  /\ clock > ConnectLimit => watch = NoWatch /\ refreshed /\ stage = "rpc"

\* "Retry only connection establishment [...] keep the original time bound": no
\* call lasts longer than fifteen seconds (host.py:216-217).
TimeBoundKept == clock <= ConnectLimit

\* Every call returns or raises, whoever has taken the phone's address.
LanCallsEnd == stage \in InCall ~> stage \in {"idle", "failed", "gone"}
=============================================================================
