---------------------------- MODULE RelayContract ----------------------------
(***************************************************************************)
(* What the native driver promises SteamVR about relayed trackers,         *)
(* whatever the helper, the sockets and the threads do: a relay object is  *)
(* created for a tracker the original DLL registered, once; it is never    *)
(* taken away or given to another tracker; and a relay object is connected *)
(* only while the helper is being heard.                                   *)
(***************************************************************************)
CONSTANT Serials

VARIABLES
  registered,   \* serials the original DLL has registered
  relays,       \* serials that have a relay object
  connected,    \* relays whose pose is a connected one
  online        \* bridge_online_

vars == <<registered, relays, connected, online>>

Init ==
  /\ registered = {}
  /\ relays = {}
  /\ connected = {}
  /\ online = FALSE

Register(s) ==
  /\ registered' = registered \cup {s}
  /\ UNCHANGED <<relays, connected, online>>

Hear ==
  /\ online' = TRUE
  /\ UNCHANGED <<registered, relays, connected>>

Create(s) ==
  /\ s \in registered \ relays
  /\ relays' = relays \cup {s}
  /\ online' = TRUE
  /\ UNCHANGED <<registered, connected>>

Refresh(s) ==
  /\ s \in relays
  /\ online' = TRUE
  /\ connected' \in {connected \cup {s}, connected \ {s}}
  /\ UNCHANGED <<registered, relays>>

\* The helper fell silent, or the driver is cleaned up.
Disconnect ==
  /\ connected' = {}
  /\ online' \in {online, FALSE}
  /\ UNCHANGED <<registered, relays>>

Next == \/ Hear \/ Disconnect
        \/ \E s \in Serials : Register(s) \/ Create(s) \/ Refresh(s)

Spec == Init /\ [][Next]_vars
=============================================================================
