----------------------------- MODULE PhoneRoute -----------------------------
(***************************************************************************)
(* The transport of one request: the TLS connection to the phone or signed *)
(* files through KDE Connect, as the command line or the configuration     *)
(* says (approve(), Backend.open of the protected helper).  Callers use    *)
(* both alike, so both must keep the promise of the courier.               *)
(***************************************************************************)
EXTENDS LanSession, KdeShare

VARIABLE route

routeVars == <<route, lanVars, shareVars>>

RouteInit == route \in {"lan", "kdeconnect"} /\ LanInit /\ ShareInit

RouteNext ==
  /\ UNCHANGED route
  /\ \/ route = "lan" /\ LanNext /\ UNCHANGED shareVars
     \/ route = "kdeconnect" /\ ShareNext /\ UNCHANGED lanVars

RouteSpec ==
  RouteInit /\ [][RouteNext]_routeVars /\ LanFairness /\ ShareFairness
-----------------------------------------------------------------------------
\* Both transports are well typed.
RouteTypeOK == LanTypeOK /\ ShareTypeOK

\* Either transport implements the courier: whatever was called, refused, lost,
\* given up or killed, no message is posted twice, none before its request, and
\* none is reported that was not posted (NetworkPhone, KdeConnectPhone).
Parcel == INSTANCE Courier WITH
  posted <- IF route = "lan" THEN posted ELSE shared,
  told <- IF route = "lan" THEN told ELSE accepted
CarriesInOrder == Parcel!CourierSpec

\* Every call of either transport returns or raises: its deadline, the watchdog or
\* the end of the other process releases the caller.
CallsEnd == LanCallsEnd /\ ShareCallsEnd
=============================================================================
