--------------------------- MODULE PhysicalMirror ---------------------------
(***************************************************************************)
(* How the devices SteamVR tracks reach the original Windows provider: the *)
(* native driver's RunFrame reads SteamVR's poses once and sends a datagram*)
(* or two for each device (native/driver_main.cpp, SendPhysicalState); the *)
(* helper's main thread keeps a table of them and, once the provider has   *)
(* installed its hooks, announces each device and its poses to it          *)
(* (windows/fake_openvr.cpp, bridge_host_main.cpp).                        *)
(*                                                                         *)
(* The helper handles datagrams on one thread, so a handler is one step;   *)
(* the native loop is one step per datagram.  Devices are those that are   *)
(* not relay objects (IsRelayObject); one property, the serial number,     *)
(* stands for the mirrored ones.  One Init of the native driver.           *)
(***************************************************************************)
EXTENDS Naturals, Sequences

CONSTANTS
  NumDevices,   \* device indices of SteamVR
  High,         \* those from 48 on: no stub, and the indices of trackers
  MaxChanges,   \* bound: devices connected or disconnected by SteamVR
  MaxLosses,    \* bound: datagrams lost between bound sockets
  MaxRejects,   \* bound: announcements the provider refuses
  Capacity      \* bound: datagrams waiting in the helper's socket

Device == 1..NumDevices

ASSUME MirrorAssumption ==
  /\ NumDevices \in Nat \ {0}
  /\ High \subseteq Device
  /\ MaxChanges \in Nat
  /\ MaxLosses \in Nat
  /\ MaxRejects \in Nat
  /\ Capacity \in Nat \ {0}

VARIABLES
  present,             \* bDeviceIsConnected of SteamVR's raw poses
  changes,
  \* native driver
  physical_connected,
  refresh_due,         \* five seconds have passed since last_property_refresh_
  frame,               \* where SendPhysicalState is in its loop
  \* socket
  toHelper, losses,
  \* helper process
  stage,               \* how far bridge_host_main.cpp has come
  enabled,             \* physical_injection_enabled_
  physical_poses,      \* bDeviceIsConnected of each entry
  serial,              \* who wrote the serial number in each property container
  physical_injected,
  trackers,            \* indices TrackedDeviceAdded has given the provider's trackers
  \* original provider
  seen,                \* devices whose last pose callback said connected
  rejects

steamVars == <<present, changes>>
nativeVars == <<physical_connected, refresh_due, frame>>
linkVars == <<toHelper, losses>>
tableVars == <<physical_poses, serial, physical_injected, trackers>>
providerVars == <<seen, rejects>>
vars == <<steamVars, nativeVars, linkVars, stage, enabled, tableVars, providerVars>>

-----------------------------------------------------------------------------
Message == [type : {"PhysicalPose", "PhysicalProperty", "PhysicalDisconnected"}, device : Device]
Stages == {"off", "priming", "loading", "running", "stopped"}
NoFrame == [at |-> 0]
Frame == {NoFrame} \cup
  [at : Device, poses : [Device -> BOOLEAN], refresh : BOOLEAN, step : {"state", "properties"}]

TypeOK ==
  /\ present \in [Device -> BOOLEAN]
  /\ changes \in 0..MaxChanges
  /\ physical_connected \in [Device -> BOOLEAN]
  /\ refresh_due \in BOOLEAN
  /\ frame \in Frame
  /\ toHelper \in Seq(Message)
  /\ losses \in 0..MaxLosses
  /\ stage \in Stages
  /\ enabled \in BOOLEAN
  /\ physical_poses \in [Device -> BOOLEAN]
  /\ serial \in [Device -> {"none", "physical", "provider"}]
  /\ physical_injected \in [Device -> BOOLEAN]
  /\ trackers \subseteq High
  /\ seen \in [Device -> BOOLEAN]
  /\ rejects \in 0..MaxRejects

Init ==
  /\ present = [d \in Device |-> FALSE]
  /\ changes = 0
  /\ physical_connected = [d \in Device |-> FALSE]
  /\ refresh_due = TRUE
  /\ frame = NoFrame
  /\ toHelper = <<>>
  /\ losses = 0
  /\ stage = "off"
  /\ enabled = FALSE
  /\ physical_poses = [d \in Device |-> FALSE]
  /\ serial = [d \in Device |-> "none"]
  /\ physical_injected = [d \in Device |-> FALSE]
  /\ trackers = {}
  /\ seen = [d \in Device |-> FALSE]
  /\ rejects = 0

-----------------------------------------------------------------------------
(* SteamVR and the clock.                                                  *)

\* A device appears in, or disappears from, SteamVR's raw poses.
DeviceChanges(d) ==
  /\ changes < MaxChanges
  /\ changes' = changes + 1
  /\ present' = [present EXCEPT ![d] = ~ @]
  /\ UNCHANGED <<nativeVars, linkVars, stage, enabled, tableVars, providerVars>>

FiveSecondsPass ==
  /\ ~ refresh_due
  /\ refresh_due' = TRUE
  /\ UNCHANGED <<steamVars, physical_connected, frame, linkVars, stage, enabled, tableVars,
                 providerVars>>

-----------------------------------------------------------------------------
(* Native driver: SendPhysicalState of RunFrame.                           *)

Bound == stage \in {"priming", "loading", "running"}

\* A datagram for an unbound port is gone; Capacity holds the sender back.
Send(type, d) ==
  IF Bound
  THEN /\ Len(toHelper) < Capacity
       /\ \/ /\ toHelper' = Append(toHelper, [type |-> type, device |-> d])
             /\ UNCHANGED losses
          \/ /\ losses < MaxLosses
             /\ losses' = losses + 1
             /\ UNCHANGED toHelper
  ELSE UNCHANGED linkVars

\* The poses are read once, before the loop, and so is the refresh decision.
BeginFrame ==
  /\ frame = NoFrame
  /\ frame' = [at |-> 1, poses |-> present, refresh |-> refresh_due, step |-> "state"]
  /\ UNCHANGED <<steamVars, physical_connected, refresh_due, linkVars, stage, enabled,
                 tableVars, providerVars>>

\* MUTANT of Advance: the loop runs one past the last device.
AdvanceMutant ==
  IF frame.at <= NumDevices
  THEN frame' = [frame EXCEPT !.at = @ + 1, !.step = "state"] /\ UNCHANGED refresh_due
  ELSE frame' = NoFrame /\ refresh_due' = (refresh_due /\ ~ frame.refresh)

\* On to the next device; a refresh counts as done when the loop has ended.
Advance ==
  IF frame.at < NumDevices
  THEN frame' = [frame EXCEPT !.at = @ + 1, !.step = "state"] /\ UNCHANGED refresh_due
  ELSE frame' = NoFrame /\ refresh_due' = (refresh_due /\ ~ frame.refresh)

\* MUTANT of SendState: properties are sent only when a device is new.
SendStateMutant ==
  LET d == frame.at IN
  /\ frame # NoFrame
  /\ frame.step = "state"
  /\ \/ /\ frame.poses[d]
        /\ Send("PhysicalPose", d)
        /\ physical_connected' = [physical_connected EXCEPT ![d] = TRUE]
        /\ IF ~ physical_connected[d]
           THEN frame' = [frame EXCEPT !.step = "properties"] /\ UNCHANGED refresh_due
           ELSE Advance
     \/ /\ ~ frame.poses[d]
        /\ IF physical_connected[d] THEN Send("PhysicalDisconnected", d) ELSE UNCHANGED linkVars
        /\ physical_connected' = [physical_connected EXCEPT ![d] = FALSE]
        /\ Advance
  /\ UNCHANGED <<steamVars, stage, enabled, tableVars, providerVars>>

\* MUTANT of SendState: a disconnection is remembered but not sent.
SendStateSilentMutant ==
  LET d == frame.at IN
  /\ frame # NoFrame
  /\ frame.step = "state"
  /\ \/ /\ frame.poses[d]
        /\ Send("PhysicalPose", d)
        /\ physical_connected' = [physical_connected EXCEPT ![d] = TRUE]
        /\ IF ~ physical_connected[d] \/ frame.refresh
           THEN frame' = [frame EXCEPT !.step = "properties"] /\ UNCHANGED refresh_due
           ELSE Advance
     \/ /\ ~ frame.poses[d]
        /\ physical_connected' = [physical_connected EXCEPT ![d] = FALSE]
        /\ Advance
        /\ UNCHANGED linkVars
  /\ UNCHANGED <<steamVars, stage, enabled, tableVars, providerVars>>

SendState ==
  LET d == frame.at IN
  /\ frame # NoFrame
  /\ frame.step = "state"
  /\ \/ /\ frame.poses[d]
        /\ Send("PhysicalPose", d)
        /\ physical_connected' = [physical_connected EXCEPT ![d] = TRUE]
        /\ IF ~ physical_connected[d] \/ frame.refresh
           THEN frame' = [frame EXCEPT !.step = "properties"] /\ UNCHANGED refresh_due
           ELSE Advance
     \/ /\ ~ frame.poses[d]
        /\ IF physical_connected[d] THEN Send("PhysicalDisconnected", d) ELSE UNCHANGED linkVars
        /\ physical_connected' = [physical_connected EXCEPT ![d] = FALSE]
        /\ Advance
  /\ UNCHANGED <<steamVars, stage, enabled, tableVars, providerVars>>

SendProperties ==
  /\ frame # NoFrame
  /\ frame.step = "properties"
  /\ Send("PhysicalProperty", frame.at)
  /\ Advance
  /\ UNCHANGED <<steamVars, physical_connected, stage, enabled, tableVars, providerVars>>

-----------------------------------------------------------------------------
(* Helper: the tables and the calls into the original provider.            *)

\* TryInjectPhysicalDevice on the devices in D, given what the caller has just
\* stored: announce a connected device with a known serial number that has not
\* been announced; a refusal lets the next datagram try again.
Announceable(D, on, poses, serials) ==
  {d \in D \ High : on /\ poses[d] /\ ~ physical_injected[d] /\ serials[d] # "none"}

TryInject(D) ==
  \E refused \in SUBSET D :
    /\ refused # {} => rejects < MaxRejects
    /\ rejects' = IF refused = {} THEN rejects ELSE rejects + 1
    /\ physical_injected' = [d \in Device |-> physical_injected[d] \/ d \in D \ refused]

\* MUTANT of InjectPoses: a device that has gone is not reported.
InjectPosesMutant(D, on, poses) ==
  seen' = [d \in Device |-> IF on /\ d \in D THEN seen[d] \/ poses[d] ELSE seen[d]]

\* InjectPhysicalPose on the devices in D: made whether or not injection is
\* enabled, but before the provider has installed its hooks nobody sees it.
InjectPoses(D, on, poses) ==
  seen' = [d \in Device |-> IF on /\ d \in D THEN poses[d] ELSE seen[d]]

\* The next datagram, handled by the priming loop or the main loop.
Take(type) ==
  /\ stage \in {"priming", "running"}
  /\ toHelper # <<>>
  /\ Head(toHelper).type = type
  /\ toHelper' = Tail(toHelper)
  /\ UNCHANGED <<steamVars, nativeVars, losses, stage, enabled, trackers>>

OnPhysicalPose ==
  LET d == Head(toHelper).device
      poses == [physical_poses EXCEPT ![d] = TRUE] IN
  /\ Take("PhysicalPose")
  /\ IF d \in High THEN UNCHANGED <<physical_poses, physical_injected, providerVars>>
     ELSE /\ physical_poses' = poses
          /\ TryInject(Announceable({d}, enabled, poses, serial))
          /\ InjectPoses({d}, enabled, poses)
  /\ UNCHANGED serial

OnPhysicalProperty ==
  LET d == Head(toHelper).device
      serials == [serial EXCEPT ![d] = "physical"] IN
  /\ Take("PhysicalProperty")
  /\ serial' = serials
  /\ TryInject(Announceable({d}, enabled, physical_poses, serials))
  /\ UNCHANGED <<physical_poses, seen>>

\* MUTANT of OnPhysicalDisconnected: the device stays marked as announced.
OnPhysicalDisconnectedMutant ==
  LET d == Head(toHelper).device
      poses == [physical_poses EXCEPT ![d] = FALSE] IN
  /\ Take("PhysicalDisconnected")
  /\ physical_poses' = poses
  /\ InjectPoses({d} \ High, enabled, poses)
  /\ UNCHANGED <<physical_injected, serial, rejects>>

OnPhysicalDisconnected ==
  LET d == Head(toHelper).device
      poses == [physical_poses EXCEPT ![d] = FALSE] IN
  /\ Take("PhysicalDisconnected")
  /\ physical_poses' = poses
  /\ physical_injected' = [physical_injected EXCEPT ![d] = FALSE]
  /\ InjectPoses({d} \ High, enabled, poses)
  /\ UNCHANGED <<serial, rejects>>

-----------------------------------------------------------------------------
(* Helper: the stages of main.                                             *)

HelperStarts ==
  /\ stage = "off"
  /\ stage' = "priming"
  /\ UNCHANGED <<steamVars, nativeVars, linkVars, enabled, tableVars, providerVars>>

\* The 250 ms of priming are over; the socket is not read until Init returns.
LoadProvider ==
  /\ stage = "priming"
  /\ stage' = "loading"
  /\ UNCHANGED <<steamVars, nativeVars, linkVars, enabled, tableVars, providerVars>>

\* Init of the provider returned; EnablePhysicalInjection catches up on the
\* devices that were connected while priming.
EnablePhysicalInjection ==
  LET connected == {d \in Device \ High : physical_poses[d]} IN
  /\ stage = "loading"
  /\ stage' = "running"
  /\ enabled' = TRUE
  /\ TryInject(Announceable(connected, TRUE, physical_poses, serial))
  /\ InjectPoses(connected, TRUE, physical_poses)
  /\ UNCHANGED <<steamVars, nativeVars, linkVars, physical_poses, serial, trackers>>

\* Any failure to load or initialize, a timeout or a Shutdown.
HelperStops ==
  /\ Bound
  /\ stage' = "stopped"
  /\ toHelper' = <<>>
  /\ UNCHANGED <<steamVars, nativeVars, losses, enabled, tableVars, providerVars>>

\* The provider registers a tracker at the next index from 48 on and writes its
\* serial number (TrackedDeviceAdded, WritePropertyBatch).
ProviderWrites(d) ==
  /\ stage \in {"loading", "running"}
  /\ d \in High
  /\ trackers' = trackers \cup {d}
  /\ serial' = [serial EXCEPT ![d] = "provider"]
  /\ UNCHANGED <<steamVars, nativeVars, linkVars, stage, enabled, physical_poses,
                 physical_injected, providerVars>>

-----------------------------------------------------------------------------
NativeStep == BeginFrame \/ SendState \/ SendProperties
Receive == OnPhysicalPose \/ OnPhysicalProperty \/ OnPhysicalDisconnected
Next ==
  \/ \E d \in Device : DeviceChanges(d)
  \/ FiveSecondsPass
  \/ NativeStep
  \/ Receive
  \/ HelperStarts \/ LoadProvider \/ EnablePhysicalInjection \/ HelperStops
  \/ \E d \in High : ProviderWrites(d)

Spec == Init /\ [][Next]_vars
-----------------------------------------------------------------------------
(* Properties.                                                             *)

\* A device the provider has been told of is one the helper holds to be
\* connected, with a serial number: OnPhysicalDisconnected takes both back.
InjectedIsConnected ==
  \A d \in Device : physical_injected[d] =>
    enabled /\ physical_poses[d] /\ serial[d] # "none"

\* Once injection is enabled, what the pose callbacks have told the provider
\* and what GetRawTrackedDevicePoses answers agree on every device, those
\* primed before the hooks existed included.
CallbacksMatchTable ==
  enabled => \A d \in Device \ High : seen[d] = physical_poses[d]

\* With nothing lost, a device the helper holds to be connected either is, for
\* the native driver, or its disconnection is on its way.
NoGhosts ==
  Bound /\ losses = 0 =>
    \A d \in Device : physical_poses[d] =>
      \/ physical_connected[d]
      \/ \E k \in 1..Len(toHelper) :
           toHelper[k] = [type |-> "PhysicalDisconnected", device |-> d]

-----------------------------------------------------------------------------
(* Liveness.  RunFrame is called again and again, time passes, the helper's *)
(* loop drains its socket; strong fairness where Capacity can hold the      *)
(* native driver back, which the program does not.                          *)

Fairness ==
  /\ WF_vars(FiveSecondsPass)
  /\ WF_vars(BeginFrame)
  /\ SF_vars(SendState)
  /\ SF_vars(SendProperties)
  /\ WF_vars(Receive)

FairSpec == Spec /\ Fairness

\* A device that stays connected is announced to a running provider, and shown
\* to it as connected, whatever was lost, refused, or sent before the helper
\* was there to receive it.
DevicesAnnounced ==
  \A d \in Device \ High :
    stage = "running" /\ present[d]
      ~> stage # "running" \/ ~ present[d] \/ (physical_injected[d] /\ seen[d])
=============================================================================
