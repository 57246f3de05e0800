-------------------------- MODULE TrackerRelaySafety --------------------------
(***************************************************************************)
(* The relay's safety, for every number of trackers, slots, sessions and   *)
(* losses: what the native driver keeps about its relay objects through    *)
(* every replay, timeout, Cleanup and re-Init; that the whole implements   *)
(* RelayContract; and what the helper's datagrams bring to them: poses in  *)
(* order, poses of their own tracker, no update before its announcement.   *)
(***************************************************************************)
EXTENDS TrackerRelayProofs, FiniteSetTheorems

\* The strengthening that is inductive together with TypeOK: a slot that has
\* never been configured is empty, and its object is not SteamVR's; a
\* configured one has a tracker's serial.
SlotsWellFormed ==
  \A s \in Slot :
    IF slots[s].configured THEN slots[s].serial \in Serials
                           ELSE slots[s].pose = Disconnected /\ object[s] = "none"
InactiveNotShown ==
  \A s \in Slot : object[s] # "active" => shown[s] = Disconnected
RelaySafety ==
  /\ TypeOK
  /\ SlotsWellFormed
  /\ InactiveNotShown
  /\ SlotPerSerial
  /\ ConnectedOnlyWhileOnline
  /\ ContainerMirrorsCache

-----------------------------------------------------------------------------
\* Only the native driver's own steps touch a slot or its flags.
LEMMA OthersKeepSlots ==
  ASSUME ProcessStep \/ MainStep \/ CallStep \/ (\E t \in Threads : FinishCall(t))
  PROVE  UNCHANGED <<nativeVars, slots, steamVars>>
<1>1. CASE ProcessStep
  BY <1>1 DEF ProcessStep, HelperStop, HelperStart
<1>2. CASE MainStep
  BY <1>2 DEF MainStep, SendHeartbeat, HelperReceive, ReplayAdded, ReplayCopy,
              ReplayProperty, ReplayPose
<1>3. CASE CallStep
  BY <1>3 DEF CallStep, TrackedDeviceAdded, TrackedDevicePoseUpdated, WriteProperty
<1>4. CASE \E t \in Threads : FinishCall(t)
  BY <1>4 DEF FinishCall, SendTrackerAdded, ActivateDriver, SendTrackerPose,
              RelayTrackerProperty
<1>5. QED  BY <1>1, <1>2, <1>3, <1>4

\* A step that leaves them all alone keeps every property of the relay objects.
LEMMA SafetyFrame ==
  ASSUME RelaySafety, TypeOK', UNCHANGED <<nativeVars, slots, steamVars>>
  PROVE  RelaySafety'
  BY DEF RelaySafety, SlotsWellFormed, InactiveNotShown, SlotPerSerial,
         ConnectedOnlyWhileOnline, ContainerMirrorsCache, nativeVars, steamVars

LEMMA InitSafety == Init => RelaySafety
<1> SUFFICES ASSUME Init PROVE RelaySafety  OBVIOUS
<1>1. \A s \in Slot : /\ slots[s].configured = FALSE /\ slots[s].pose = Disconnected
                      /\ object[s] = "none" /\ shown[s] = Disconnected
  BY DEF Init, EmptySlot
<1>2. QED
  BY <1>1, InitType DEF RelaySafety, SlotsWellFormed, InactiveNotShown, SlotPerSerial,
                        ConnectedOnlyWhileOnline, ContainerMirrorsCache

\* MarkDisconnected on every configured tracker leaves nothing connected.
LEMMA DisconnectSafety ==
  ASSUME RelaySafety, TypeOK', DisconnectTrackers
  PROVE  RelaySafety'
<1>1. \A s \in Slot : /\ slots[s] \in SlotState
                      /\ slots'[s].configured = slots[s].configured
                      /\ slots'[s].serial = slots[s].serial
                      /\ slots'[s].cache = slots[s].cache
                      /\ slots'[s].pose = Disconnected
                      /\ object'[s] = object[s] /\ container'[s] = container[s]
  BY DEF RelaySafety, SlotsWellFormed, TypeOK, NativeTypeOK, SlotState, DisconnectTrackers
<1>2. \A s \in Slot : shown'[s] = Disconnected
  BY DEF RelaySafety, SlotsWellFormed, InactiveNotShown, DisconnectTrackers
<1>3. SlotsWellFormed' /\ InactiveNotShown' /\ ConnectedOnlyWhileOnline'
  BY <1>1, <1>2 DEF RelaySafety, SlotsWellFormed, InactiveNotShown, ConnectedOnlyWhileOnline
<1>4. SlotPerSerial' /\ ContainerMirrorsCache'
  BY <1>1 DEF RelaySafety, SlotPerSerial, ContainerMirrorsCache
<1>5. QED  BY <1>3, <1>4 DEF RelaySafety

LEMMA NativeSafety ==
  ASSUME RelaySafety, TypeOK', NativeInit \/ Cleanup \/ SendHello \/ CheckHelperTimeout
  PROVE  RelaySafety'
<1>1. CASE NativeInit
  <2>1. UNCHANGED <<slots, steamVars, bridge_online>> /\ initialized' = TRUE /\ ~ initialized
    BY <1>1 DEF NativeInit
  <2>2. QED
    BY <2>1 DEF RelaySafety, SlotsWellFormed, InactiveNotShown, SlotPerSerial,
                ConnectedOnlyWhileOnline, ContainerMirrorsCache, steamVars
<1>2. CASE Cleanup \/ CheckHelperTimeout
  BY <1>2, DisconnectSafety DEF Cleanup, CheckHelperTimeout
<1>3. CASE SendHello
  BY <1>3, SafetyFrame DEF SendHello
<1>4. QED  BY <1>1, <1>2, <1>3

\* AcquireTracker gives a new serial a slot of its own, and a known serial keeps
\* the slot it has.
LEMMA AddedSafety ==
  ASSUME RelaySafety, TypeOK', OnTrackerAdded
  PROVE  RelaySafety'
<1> DEFINE m == Head(toNative)
<1>1. /\ initialized' = initialized /\ initialized /\ bridge_online' = TRUE
      /\ UNCHANGED <<shown, container>> /\ m.serial \in Serials
  BY TakeType, MessageFields DEF OnTrackerAdded, Take, RelaySafety
<1>2. \A s \in Slot : slots[s] \in SlotState
  BY DEF RelaySafety, TypeOK, NativeTypeOK
<1>3. CASE UNCHANGED slots /\ UNCHANGED object
  BY <1>1, <1>3 DEF RelaySafety, SlotsWellFormed, InactiveNotShown, SlotPerSerial,
                    ConnectedOnlyWhileOnline, ContainerMirrorsCache
<1>4. ASSUME NEW s \in Slot, Configure(s, m),
             \/ /\ ~ slots[s].configured /\ WithSerial(m.serial) = {}
                /\ \E accepted \in BOOLEAN :
                     object' = IF accepted THEN [object EXCEPT ![s] = "added"] ELSE object
             \/ s \in WithSerial(m.serial) /\ UNCHANGED object
      PROVE  RelaySafety'
  <2>1. /\ slots'[s].configured /\ slots'[s].serial = m.serial
        /\ slots'[s].pose = Disconnected /\ slots'[s].cache = slots[s].cache
        /\ \A r \in Slot : r # s => slots'[r] = slots[r]
    BY <1>2, <1>4 DEF Configure, SlotState, RelaySafety, TypeOK, NativeTypeOK
  <2>2. \A r \in Slot : r # s => ~ (slots[r].configured /\ slots[r].serial = m.serial)
    BY <1>4 DEF WithSerial, RelaySafety, SlotPerSerial
  <2>3. SlotPerSerial'
    BY <2>1, <2>2 DEF RelaySafety, SlotPerSerial
  <2>4. \A r \in Slot : /\ r # s => object'[r] = object[r]
                        /\ object'[r] = "active" <=> object[r] = "active"
    <3>1. s \in WithSerial(m.serial) \/ object[s] = "none"
      BY <1>4 DEF RelaySafety, SlotsWellFormed
    <3>2. QED  BY <1>4, <3>1 DEF RelaySafety, TypeOK, NativeTypeOK, WithSerial
  <2>5. SlotsWellFormed' /\ InactiveNotShown' /\ ConnectedOnlyWhileOnline'
    BY <1>1, <2>1, <2>4 DEF RelaySafety, SlotsWellFormed, InactiveNotShown,
                             ConnectedOnlyWhileOnline
  <2>6. ContainerMirrorsCache'
    BY <1>1, <2>1, <2>4 DEF RelaySafety, ContainerMirrorsCache
  <2>7. QED  BY <2>3, <2>5, <2>6 DEF RelaySafety
<1>5. Unconfigured # {} => AcquireTracker \in Slot /\ ~ slots[AcquireTracker].configured
  BY SearchResult DEF Unconfigured
<1>6. WithSerial(m.serial) # {} => /\ FindTrackerBySerial(m.serial) \in Slot
                                   /\ FindTrackerBySerial(m.serial) \in WithSerial(m.serial)
  BY SearchResult DEF WithSerial
<1>7. QED  BY <1>3, <1>4, <1>5, <1>6 DEF OnTrackerAdded

\* A property goes to the cache, and to SteamVR exactly when the object is active.
LEMMA PropertySafety ==
  ASSUME RelaySafety, TypeOK', OnTrackerProperty
  PROVE  RelaySafety'
<1> DEFINE m == Head(toNative)
           s == FindTrackerByRemote(m.index)
<1>1. /\ initialized' = initialized /\ initialized /\ bridge_online' = TRUE
      /\ UNCHANGED <<shown, object>>
  BY DEF OnTrackerProperty, Take
<1>2. \A r \in Slot : slots[r] \in SlotState
  BY DEF RelaySafety, TypeOK, NativeTypeOK
<1>3. CASE UNCHANGED slots /\ UNCHANGED container
  BY <1>1, <1>3 DEF RelaySafety, SlotsWellFormed, InactiveNotShown, SlotPerSerial,
                    ConnectedOnlyWhileOnline, ContainerMirrorsCache
<1>4. CASE WithRemote(m.index) # {}
  <2>1. s \in Slot
    BY <1>4, SearchResult DEF WithRemote
  <2>2. slots' = [slots EXCEPT ![s].cache[m.prop] = m.write]
    BY <1>4 DEF OnTrackerProperty
  <2>3. container' = IF object[s] = "active"
                     THEN [container EXCEPT ![s][m.prop] = Applied(m.write)] ELSE container
    BY <1>4 DEF OnTrackerProperty
  <2>4. m.prop \in Props /\ m.write \in Relayed
    BY TakeType, MessageFields DEF OnTrackerProperty, RelaySafety
  <2> HIDE DEF s, m
  <2>5. /\ \A r \in Slot : /\ slots'[r].configured = slots[r].configured
                           /\ slots'[r].serial = slots[r].serial
                           /\ slots'[r].pose = slots[r].pose
                           /\ r # s => slots'[r].cache = slots[r].cache
        /\ slots'[s].cache = [slots[s].cache EXCEPT ![m.prop] = m.write]
    BY <1>2, <2>1, <2>2 DEF SlotState, RelaySafety, TypeOK, NativeTypeOK
  <2>6. SlotsWellFormed' /\ InactiveNotShown' /\ ConnectedOnlyWhileOnline' /\ SlotPerSerial'
    BY <1>1, <2>5 DEF RelaySafety, SlotsWellFormed, InactiveNotShown,
                      ConnectedOnlyWhileOnline, SlotPerSerial
  <2>7. ContainerMirrorsCache'
    <3> SUFFICES ASSUME NEW r \in Slot, object[r] = "active", NEW p \in Props
                 PROVE  container'[r][p] = IF slots'[r].cache[p] = "unset" THEN "default"
                                           ELSE Applied(slots'[r].cache[p])
      BY <1>1 DEF ContainerMirrorsCache, Applied
    <3>1. container[r][p] = IF slots[r].cache[p] = "unset" THEN "default"
                            ELSE Applied(slots[r].cache[p])
      BY DEF RelaySafety, ContainerMirrorsCache
    <3>2. CASE r # s
      <4>1. container'[r] = container[r] /\ slots'[r].cache = slots[r].cache
        BY <2>1, <2>3, <2>5, <3>2 DEF RelaySafety, TypeOK, NativeTypeOK
      <4>2. QED  BY <3>1, <4>1
    <3>3. CASE r = s
      <4>1. container'[r] = [container[r] EXCEPT ![m.prop] = Applied(m.write)]
        BY <2>1, <2>3, <3>3 DEF RelaySafety, TypeOK, NativeTypeOK
      <4>2. container[r] \in [Props -> Relayed \cup {"unset", "default"}]
        BY DEF RelaySafety, TypeOK, NativeTypeOK
      <4>3. slots[r].cache \in [Props -> Relayed \cup {"unset"}]
        BY <1>2 DEF SlotState
      <4>4. m.write # "unset"
        BY <2>4, PropertyAssumption DEF Relayed
      <4>5. CASE p = m.prop
        <5>1. container'[r][p] = Applied(m.write)
          BY <4>1, <4>2, <4>5
        <5>2. slots'[r].cache[p] = m.write
          BY <2>5, <3>3, <4>3, <4>5
        <5>3. QED  BY <4>4, <5>1, <5>2
      <4>6. CASE p # m.prop
        <5>1. container'[r][p] = container[r][p]
          BY <4>1, <4>2, <4>6
        <5>2. slots'[r].cache[p] = slots[r].cache[p]
          BY <2>5, <3>3, <4>3, <4>6
        <5>3. QED  BY <3>1, <5>1, <5>2
      <4>7. QED  BY <4>5, <4>6
    <3>4. QED  BY <3>2, <3>3
  <2>8. QED  BY <2>6, <2>7 DEF RelaySafety
<1>5. QED  BY <1>3, <1>4 DEF OnTrackerProperty

LEMMA PoseSafety ==
  ASSUME RelaySafety, TypeOK', OnTrackerPose
  PROVE  RelaySafety'
<1> DEFINE m == Head(toNative)
           s == FindTrackerByRemote(m.index)
<1>1. /\ initialized' = initialized /\ initialized /\ bridge_online' = TRUE
      /\ UNCHANGED <<container, object>>
  BY DEF OnTrackerPose, Take
<1>2. \A r \in Slot : slots[r] \in SlotState
  BY DEF RelaySafety, TypeOK, NativeTypeOK
<1>3. CASE UNCHANGED slots /\ UNCHANGED shown
  BY <1>1, <1>3 DEF RelaySafety, SlotsWellFormed, InactiveNotShown, SlotPerSerial,
                    ConnectedOnlyWhileOnline, ContainerMirrorsCache
<1>4. CASE WithRemote(m.index) # {}
  <2>1. s \in Slot /\ slots[s].configured
    BY <1>4, SearchResult DEF WithRemote
  <2>2. /\ slots' = [slots EXCEPT ![s].pose = m.pose]
        /\ shown' = IF object[s] = "active" THEN [shown EXCEPT ![s] = m.pose] ELSE shown
    BY <1>4 DEF OnTrackerPose
  <2> HIDE DEF s, m
  <2>3. \A r \in Slot : /\ slots'[r].configured = slots[r].configured
                        /\ slots'[r].serial = slots[r].serial
                        /\ slots'[r].cache = slots[r].cache
                        /\ r # s => slots'[r].pose = slots[r].pose /\ shown'[r] = shown[r]
                        /\ object[r] # "active" => shown'[r] = shown[r]
    BY <1>2, <2>1, <2>2 DEF SlotState, RelaySafety, TypeOK, NativeTypeOK
  <2>4. SlotsWellFormed' /\ InactiveNotShown' /\ ConnectedOnlyWhileOnline'
    BY <1>1, <2>1, <2>3 DEF RelaySafety, SlotsWellFormed, InactiveNotShown,
                             ConnectedOnlyWhileOnline
  <2>5. SlotPerSerial' /\ ContainerMirrorsCache'
    BY <1>1, <2>3 DEF RelaySafety, SlotPerSerial, ContainerMirrorsCache
  <2>6. QED  BY <2>4, <2>5 DEF RelaySafety
<1>5. QED  BY <1>3, <1>4 DEF OnTrackerPose

LEMMA SteamSafety ==
  ASSUME RelaySafety, TypeOK', SteamStep
  PROVE  RelaySafety'
<1>1. PICK s \in Slot : Activate(s) \/ Deactivate(s)
  BY DEF SteamStep
<1>2. /\ UNCHANGED <<slots, initialized, bridge_online>>
      /\ \A r \in Slot : r # s => container'[r] = container[r] /\ object'[r] = object[r]
      /\ \A r \in Slot : shown'[r] \in {shown[r], Disconnected}
  BY <1>1 DEF Activate, Deactivate, nativeVars, RelaySafety, TypeOK, NativeTypeOK
<1>3. SlotPerSerial' /\ ConnectedOnlyWhileOnline'
  BY <1>2 DEF RelaySafety, SlotPerSerial, ConnectedOnlyWhileOnline
<1>4. SlotsWellFormed'
  BY <1>1, <1>2 DEF RelaySafety, SlotsWellFormed, Activate, Deactivate, TypeOK, NativeTypeOK
<1>5. InactiveNotShown'
  BY <1>1, <1>2 DEF RelaySafety, InactiveNotShown, Activate, Deactivate, TypeOK, NativeTypeOK
<1>6. ContainerMirrorsCache'
  <2>1. CASE Activate(s)
    <3>1. container'[s] = [p \in Props |-> IF slots[s].cache[p] = "unset" THEN "default"
                                           ELSE Applied(slots[s].cache[p])]
      BY <2>1 DEF Activate, RelaySafety, TypeOK, NativeTypeOK
    <3>2. QED
      BY <1>2, <3>1 DEF RelaySafety, ContainerMirrorsCache, Applied
  <2>2. CASE Deactivate(s)
    <3>1. object'[s] # "active"
      BY <2>2 DEF Deactivate, RelaySafety, TypeOK, NativeTypeOK
    <3>2. QED
      BY <1>2, <3>1 DEF RelaySafety, ContainerMirrorsCache, Applied
  <2>3. QED  BY <1>1, <2>1, <2>2
<1>7. QED  BY <1>3, <1>4, <1>5, <1>6 DEF RelaySafety

LEMMA ReceiveSafety ==
  ASSUME RelaySafety, TypeOK', Receive
  PROVE  RelaySafety'
<1>1. CASE RejectDatagram
  BY <1>1, SafetyFrame DEF RejectDatagram
<1>2. CASE OnHeartbeat
  BY <1>2 DEF OnHeartbeat, Take, RelaySafety, SlotsWellFormed, InactiveNotShown,
              SlotPerSerial, ConnectedOnlyWhileOnline, ContainerMirrorsCache, steamVars
<1>3. QED  BY <1>1, <1>2, AddedSafety, PropertySafety, PoseSafety DEF Receive

LEMMA NextSafety ==
  ASSUME RelaySafety, [Next]_vars
  PROVE  RelaySafety'
<1>1. TypeOK'
  BY NextType DEF RelaySafety
<1>2. CASE UNCHANGED vars
  BY <1>1, <1>2, SafetyFrame DEF vars
<1>3. CASE NativeStep
  BY <1>1, <1>3, NativeSafety, ReceiveSafety DEF NativeStep
<1>4. CASE SteamStep
  BY <1>1, <1>4, SteamSafety
<1>5. CASE ProcessStep \/ MainStep \/ CallStep \/ (\E t \in Threads : FinishCall(t))
  BY <1>1, <1>5, OthersKeepSlots, SafetyFrame
<1>6. QED  BY <1>2, <1>3, <1>4, <1>5 DEF Next

LEMMA Safety == Spec => []RelaySafety
  BY InitSafety, NextSafety, PTL DEF Spec

-----------------------------------------------------------------------------
\* However registrations are lost, replayed, re-sent by a later helper or
\* re-indexed, OnTrackerAdded never gives two relay objects one serial.
THEOREM OneSlotPerSerial == Spec => []SlotPerSerial
<1>1. RelaySafety => SlotPerSerial
  BY DEF RelaySafety
<1>2. QED  BY <1>1, Safety, PTL

\* No relay object looks connected once the native driver has cleaned up or has
\* declared the helper silent.
THEOREM NothingConnectedOffline == Spec => []ConnectedOnlyWhileOnline
<1>1. RelaySafety => ConnectedOnlyWhileOnline
  BY DEF RelaySafety
<1>2. QED  BY <1>1, Safety, PTL

\* An active relay object's SteamVR properties are the defaults overlaid with
\* every relayed write, in whatever order writes and activations came.
THEOREM ContainerFollowsCache == Spec => []ContainerMirrorsCache
<1>1. RelaySafety => ContainerMirrorsCache
  BY DEF RelaySafety
<1>2. QED  BY <1>1, Safety, PTL

-----------------------------------------------------------------------------
(* The refinement of RelayContract.  It needs one more invariant: whatever *)
(* the helper announces, and whatever announcement is still in flight,     *)
(* was registered by the original DLL.                                     *)

Announced(q) == {q[k].serial : k \in {h \in 1..Len(q) : q[h].type = "TrackerAdded"}}
AnnouncementsRegistered ==
  /\ \A i \in Registered : SerialOf[trackers[i]] \in registered
  /\ Announced(toNative) \subseteq registered

LEMMA AnnouncedAppend ==
  ASSUME NEW q \in Seq(ToNative), NEW m \in ToNative, Announced(q) \subseteq registered,
         m.type = "TrackerAdded" => m.serial \in registered
  PROVE  Announced(Append(q, m)) \subseteq registered
<1> DEFINE r == Append(q, m)
<1>1. Len(r) = Len(q) + 1 /\ \A k \in 1..Len(r) : r[k] = IF k <= Len(q) THEN q[k] ELSE m
  OBVIOUS
<1>2. ASSUME NEW k \in 1..Len(r), r[k].type = "TrackerAdded" PROVE r[k].serial \in registered
  <2>1. CASE k <= Len(q)
    BY <1>1, <1>2, <2>1 DEF Announced
  <2>2. CASE ~ (k <= Len(q))
    BY <1>1, <1>2, <2>2
  <2>3. QED  BY <2>1, <2>2
<1> HIDE DEF r
<1>3. QED  BY <1>2 DEF Announced, r

LEMMA AnnouncedTail ==
  ASSUME NEW q \in Seq(ToNative), q # <<>>
  PROVE  Announced(Tail(q)) \subseteq Announced(q)
<1>1. /\ Len(Tail(q)) = Len(q) - 1
      /\ \A k \in 1..Len(Tail(q)) : Tail(q)[k] = q[k + 1] /\ k + 1 \in 1..Len(q)
  OBVIOUS
<1>2. QED  BY <1>1 DEF Announced

LEMMA AnnouncementsTransmit ==
  ASSUME TypeOK, AnnouncementsRegistered, NEW m \in ToNative, Transmit(m),
         m.type = "TrackerAdded" => m.serial \in registered,
         UNCHANGED <<trackers, registered>>
  PROVE  AnnouncementsRegistered'
<1>1. toNative' = toNative \/ toNative' = Append(toNative, m)
  BY DEF Transmit, Deliver, Lose
<1>2. toNative \in Seq(ToNative)
  BY DEF TypeOK, LinkTypeOK
<1>3. Announced(toNative') \subseteq registered
  BY <1>1, <1>2, AnnouncedAppend DEF AnnouncementsRegistered
<1>4. QED  BY <1>3 DEF AnnouncementsRegistered, Registered, Announced

LEMMA AnnouncementsFrame ==
  ASSUME AnnouncementsRegistered, UNCHANGED <<trackers, registered>>,
         Announced(toNative') \subseteq Announced(toNative)
  PROVE  AnnouncementsRegistered'
  BY DEF AnnouncementsRegistered, Registered, Announced

LEMMA NextAnnouncements ==
  ASSUME TypeOK, AnnouncementsRegistered, [Next]_vars
  PROVE  AnnouncementsRegistered'
<1>1. Announced(<<>>) = {}
  BY DEF Announced
<1>2. toNative \in Seq(ToNative)
  BY DEF TypeOK, LinkTypeOK
<1>3. CASE UNCHANGED vars
  BY <1>3, AnnouncementsFrame DEF vars, tableVars, linkVars
<1>4. CASE NativeStep
  <2>1. UNCHANGED <<trackers, registered>>
    BY <1>4 DEF NativeStep, NativeInit, Cleanup, SendHello, CheckHelperTimeout, Receive,
       RejectDatagram, OnHeartbeat, OnTrackerAdded, OnTrackerProperty, OnTrackerPose, Take,
       tableVars
  <2>2. \/ toNative' = <<>> \/ toNative' = toNative
        \/ toNative # <<>> /\ toNative' = Tail(toNative)
    BY <1>4 DEF NativeStep, NativeInit, Cleanup, SendHello, CheckHelperTimeout, Receive,
       RejectDatagram, OnHeartbeat, OnTrackerAdded, OnTrackerProperty, OnTrackerPose, Take,
       linkVars
  <2>3. Announced(toNative') \subseteq Announced(toNative)
    BY <1>1, <1>2, <2>2, AnnouncedTail
  <2>4. QED  BY <2>1, <2>3, AnnouncementsFrame
<1>5. CASE SteamStep
  BY <1>5, AnnouncementsFrame DEF SteamStep, Activate, Deactivate, linkVars, tableVars
<1>6. CASE ProcessStep
  <2>1. CASE HelperStop
    BY <2>1 DEF HelperStop, AnnouncementsRegistered, Registered, Announced
  <2>2. CASE \E s \in launches : HelperStart(s)
    BY <2>2, AnnouncementsFrame DEF HelperStart, tableVars
  <2>3. QED  BY <1>6, <2>1, <2>2 DEF ProcessStep
<1>7. ASSUME helper # 0 PROVE /\ Heartbeat \in ToNative /\ Heartbeat.type = "Heartbeat"
                              /\ \A i \in Registered : /\ TrackerAdded(i) \in ToNative
                                                       /\ TrackerAdded(i).serial \in registered
  BY <1>7, Datagrams DEF Heartbeat, TrackerAdded, AnnouncementsRegistered
<1>8. CASE MainStep
  <2>1. CASE SendHeartbeat
    BY <1>7, <2>1, AnnouncementsTransmit DEF SendHeartbeat, SendToNative, tableVars
  <2>2. CASE HelperReceive
    <3>1. CASE UNCHANGED toNative
      BY <2>2, <3>1, AnnouncementsFrame DEF HelperReceive, tableVars
    <3>2. CASE Transmit(Heartbeat)
      BY <1>7, <2>2, <3>2, AnnouncementsTransmit DEF HelperReceive, tableVars
    <3>3. QED  BY <2>2, <3>1, <3>2 DEF HelperReceive
  <2>3. CASE ReplayAdded
    <3>1. helper # 0 /\ job[Main].at \in Registered
      BY <2>3, JobFacts, ThreadAssumption DEF ReplayAdded
    <3>2. Transmit(TrackerAdded(job[Main].at)) /\ UNCHANGED <<trackers, registered>>
      BY <2>3 DEF ReplayAdded, SendToNative, tableVars
    <3>3. QED  BY <1>7, <3>1, <3>2, AnnouncementsTransmit
  <2>4. CASE ReplayCopy
    BY <2>4, AnnouncementsFrame DEF ReplayCopy, linkVars, tableVars
  <2>5. CASE ReplayProperty
    <3>1. /\ helper # 0 /\ job[Main].at \in Registered
          /\ job[Main].pending \in SUBSET (Props \X Relayed)
      BY <2>5, JobFacts, ThreadAssumption DEF ReplayProperty, ReplayState
    <3>2. PICK e \in job[Main].pending :
            Transmit(TrackerProperty(job[Main].at, e[1], e[2]))
      BY <2>5 DEF ReplayProperty, SendToNative
    <3>3. TrackerProperty(job[Main].at, e[1], e[2]) \in ToNative
      BY <3>1, Datagrams
    <3>4. QED
      BY <2>5, <3>2, <3>3, AnnouncementsTransmit DEF ReplayProperty, TrackerProperty, tableVars
  <2>6. CASE ReplayPose
    <3>1. CASE UNCHANGED toNative
      BY <2>6, <3>1, AnnouncementsFrame DEF ReplayPose, tableVars
    <3>2. CASE job[Main].poses[job[Main].at] # 0
      <4> DEFINE m == TrackerPose(job[Main].at, job[Main].poses[job[Main].at], TRUE)
      <4>1. /\ helper # 0 /\ job[Main].at \in Registered /\ job[Main].at \in Index
            /\ job[Main].poses \in [Index -> 0..MaxUpdates]
        BY <2>6, JobFacts, ThreadAssumption DEF ReplayPose, ReplayState
      <4>2. job[Main].poses[job[Main].at] \in 1..MaxUpdates
        BY <3>2, <4>1, SizeAssumption
      <4>3. m \in ToNative /\ m.type = "TrackerPose"
        BY <4>1, <4>2, Datagrams DEF TrackerPose
      <4>4. Transmit(m)
        BY <2>6, <3>2 DEF ReplayPose, SendToNative
      <4> HIDE DEF m
      <4>5. QED  BY <2>6, <4>3, <4>4, AnnouncementsTransmit DEF ReplayPose, tableVars
    <3>3. QED  BY <2>6, <3>1, <3>2 DEF ReplayPose, linkVars
  <2>7. QED  BY <1>8, <2>1, <2>2, <2>3, <2>4, <2>5, <2>6 DEF MainStep
<1>9. CASE CallStep
  <2>1. ASSUME NEW d \in Drivers, TrackedDeviceAdded(d) PROVE AnnouncementsRegistered'
    <3>1. /\ trackers' = Append(trackers, d) /\ registered' = registered \cup {SerialOf[d]}
          /\ toNative' = toNative /\ trackers \in Seq(Drivers)
      BY <2>1 DEF TrackedDeviceAdded, linkVars, TypeOK, TableTypeOK
    <3>2. \A i \in 1..Len(trackers') : \/ i \in Registered /\ trackers'[i] = trackers[i]
                                       \/ trackers'[i] = d
      BY <3>1 DEF Registered
    <3>3. QED  BY <3>1, <3>2 DEF AnnouncementsRegistered, Registered, Announced
  <2>2. CASE \/ \E i \in known : TrackedDevicePoseUpdated(i)
             \/ \E i \in known, p \in Props, w \in Write : WriteProperty(i, p, w)
    BY <2>2, AnnouncementsFrame DEF TrackedDevicePoseUpdated, WriteProperty, linkVars
  <2>3. QED  BY <1>9, <2>1, <2>2 DEF CallStep
<1>10. ASSUME NEW t \in Threads, FinishCall(t) PROVE AnnouncementsRegistered'
  <2>1. CASE SendTrackerAdded(t)
    <3>1. helper # 0 /\ job[t].index \in Registered
      BY <2>1, JobFacts DEF SendTrackerAdded
    <3>2. Transmit(TrackerAdded(job[t].index)) /\ UNCHANGED <<trackers, registered>>
      BY <2>1 DEF SendTrackerAdded, SendToNative, tableVars
    <3>3. QED  BY <1>7, <3>1, <3>2, AnnouncementsTransmit
  <2>2. CASE ActivateDriver(t)
    BY <2>2, AnnouncementsFrame DEF ActivateDriver, linkVars
  <2>3. CASE SendTrackerPose(t)
    <3>1. helper # 0 /\ job[t].index \in Registered /\ job[t].n \in 1..MaxUpdates
      BY <2>3, JobFacts DEF SendTrackerPose
    <3> DEFINE m == TrackerPose(job[t].index, job[t].n, FALSE)
    <3>2. m \in ToNative /\ m.type = "TrackerPose"
      BY <3>1, Datagrams DEF TrackerPose
    <3>3. Transmit(m)
      BY <2>3 DEF SendTrackerPose, SendToNative
    <3> HIDE DEF m
    <3>4. QED  BY <2>3, <3>2, <3>3, AnnouncementsTransmit DEF SendTrackerPose, tableVars
  <2>4. CASE RelayTrackerProperty(t)
    <3>1. CASE UNCHANGED toNative
      BY <2>4, <3>1, AnnouncementsFrame DEF RelayTrackerProperty, tableVars
    <3>2. CASE job[t].write \notin Oversized
      <4>1. /\ helper # 0 /\ job[t].index \in Registered /\ job[t].prop \in Props
            /\ job[t].write \in Relayed
        BY <2>4, <3>2, JobFacts DEF RelayTrackerProperty, Write, Relayed
      <4>2. TrackerProperty(job[t].index, job[t].prop, job[t].write) \in ToNative
        BY <4>1, Datagrams
      <4>3. Transmit(TrackerProperty(job[t].index, job[t].prop, job[t].write))
        BY <2>4, <3>2 DEF RelayTrackerProperty, SendToNative
      <4>4. QED
        BY <2>4, <4>2, <4>3, AnnouncementsTransmit
        DEF RelayTrackerProperty, TrackerProperty, tableVars
    <3>3. QED  BY <2>4, <3>1, <3>2 DEF RelayTrackerProperty, linkVars
  <2>5. QED  BY <1>10, <2>1, <2>2, <2>3, <2>4 DEF FinishCall
<1>11. QED  BY <1>3, <1>4, <1>5, <1>6, <1>8, <1>9, <1>10 DEF Next

\* The serials with a relay object, and those whose object is connected.
Relays == {slots[s].serial : s \in {r \in Slot : slots[r].configured}}
ConnectedRelays == {slots[s].serial : s \in {r \in Slot : slots[r].pose # Disconnected}}

\* What a step leaves alone in every slot, the contract does not see change.
LEMMA SameRelays ==
  ASSUME \A s \in Slot : /\ slots'[s].configured = slots[s].configured
                         /\ slots'[s].serial = slots[s].serial
  PROVE  /\ Relays' = Relays
         /\ (\A s \in Slot : slots'[s].pose = slots[s].pose)
              => ConnectedRelays' = ConnectedRelays
         /\ (\A s \in Slot : slots'[s].pose = Disconnected) => ConnectedRelays' = {}
  BY DEF Relays, ConnectedRelays

\* One slot takes a pose, connected or not: its serial joins or leaves the
\* connected ones, because no other slot has that serial.
LEMMA OneRelayRefreshed ==
  ASSUME RelaySafety, SlotPerSerial', NEW s \in Slot, slots'[s].configured,
         SlotsWellFormed',
         slots[s].configured => slots'[s].serial = slots[s].serial,
         slots[s].configured \/ slots[s].pose = Disconnected,
         \A r \in Slot : r # s => slots'[r] = slots[r]
  PROVE  ConnectedRelays' = IF slots'[s].pose # Disconnected
                            THEN ConnectedRelays \cup {slots'[s].serial}
                            ELSE ConnectedRelays \ {slots'[s].serial}
<1> DEFINE n == slots'[s].serial
<1>1. \A r \in Slot : r # s /\ slots[r].pose # Disconnected => slots'[r].serial # n
  BY DEF SlotPerSerial, SlotsWellFormed
<1>2. \A x : x \in ConnectedRelays' <=>
        (slots'[s].pose # Disconnected /\ x = n) \/ (x \in ConnectedRelays /\ x # n)
  <2>1. \A x : x \in ConnectedRelays /\ x # n =>
          \E r \in Slot : r # s /\ slots[r].pose # Disconnected /\ x = slots[r].serial
    BY DEF ConnectedRelays
  <2>2. \A x : x \in ConnectedRelays' <=>
          \E r \in Slot : slots'[r].pose # Disconnected /\ x = slots'[r].serial
    BY DEF ConnectedRelays
  <2>3. \A r \in Slot : r # s /\ slots[r].pose # Disconnected => slots[r].serial \in ConnectedRelays
    BY DEF ConnectedRelays
  <2>4. QED  BY <1>1, <2>1, <2>2, <2>3
<1> HIDE DEF n
<1>3. CASE slots'[s].pose # Disconnected
  BY <1>2, <1>3 DEF n
<1>4. CASE slots'[s].pose = Disconnected
  BY <1>2, <1>4 DEF n
<1>5. QED  BY <1>3, <1>4

LEMMA ContractInit == Init => Contract!Init
<1> SUFFICES ASSUME Init PROVE Contract!Init  OBVIOUS
<1>1. \A s \in Slot : slots[s].configured = FALSE /\ slots[s].pose = Disconnected
  BY DEF Init, EmptySlot
<1>2. Relays = {} /\ ConnectedRelays = {}
  BY <1>1 DEF Relays, ConnectedRelays
<1>3. QED  BY <1>2 DEF Init, Contract!Init, Relays, ConnectedRelays

\* A registration that reaches the native driver creates the relay object,
\* refreshes the one it re-indexes, or only shows that the helper is alive.
LEMMA AddedContract ==
  ASSUME RelaySafety, RelaySafety', AnnouncementsRegistered, OnTrackerAdded
  PROVE  Contract!Next
<1> DEFINE m == Head(toNative)
<1>1. registered' = registered /\ bridge_online' = TRUE /\ m.serial \in Serials
  BY TakeType, MessageFields DEF OnTrackerAdded, RelaySafety, Take, tableVars
<1>2. CASE UNCHANGED slots
  <2>1. Contract!Hear
    BY <1>1, <1>2 DEF Contract!Hear
  <2>2. QED  BY <2>1 DEF Contract!Next
<1>3. ASSUME NEW s \in Slot, Configure(s, m),
             \/ ~ slots[s].configured /\ WithSerial(m.serial) = {}
             \/ s \in WithSerial(m.serial)
      PROVE  Contract!Next
  <2>1. slots[s] \in SlotState /\ slots \in [Slot -> SlotState]
    BY DEF RelaySafety, TypeOK, NativeTypeOK
  <2>2. /\ slots'[s].configured /\ slots'[s].serial = m.serial
        /\ slots'[s].pose = Disconnected
        /\ \A r \in Slot : r # s => slots'[r] = slots[r]
    BY <1>3, <2>1 DEF Configure, SlotState
  <2>3. ConnectedRelays' = ConnectedRelays \ {m.serial}
    BY <1>3, <2>2, OneRelayRefreshed DEF RelaySafety, SlotsWellFormed, WithSerial
  <2>4. CASE ~ slots[s].configured /\ WithSerial(m.serial) = {}
    <3>1. m.serial \notin Relays /\ m.serial \notin ConnectedRelays
      BY <2>4 DEF WithSerial, Relays, ConnectedRelays, RelaySafety, SlotsWellFormed
    <3>2. Relays' = Relays \cup {m.serial}
      BY <2>2, <2>4 DEF Relays
    <3>3. m.serial \in registered
      <4>1. toNative \in Seq(ToNative) /\ toNative # <<>> /\ m.type = "TrackerAdded"
        BY DEF OnTrackerAdded, Take, RelaySafety, TypeOK, LinkTypeOK
      <4>2. m.serial \in Announced(toNative)
        BY <4>1 DEF Announced
      <4>3. QED  BY <4>2 DEF AnnouncementsRegistered
    <3>4. Contract!Create(m.serial)
      BY <1>1, <2>3, <3>1, <3>2, <3>3 DEF Contract!Create, Relays, ConnectedRelays
    <3> HIDE DEF m
    <3>5. QED  BY <1>1, <3>4 DEF Contract!Next, Contract!Create
  <2>5. CASE s \in WithSerial(m.serial)
    <3>1. m.serial \in Relays
      BY <2>5 DEF WithSerial, Relays
    <3>2. Relays' = Relays
      BY <2>2, <2>5 DEF Relays, WithSerial
    <3>3. Contract!Refresh(m.serial)
      BY <1>1, <2>3, <3>1, <3>2 DEF Contract!Refresh, Relays, ConnectedRelays
    <3> HIDE DEF m
    <3>4. QED  BY <1>1, <3>3 DEF Contract!Next, Contract!Refresh
  <2>6. QED  BY <1>3, <2>4, <2>5
<1>4. Unconfigured # {} => AcquireTracker \in Slot /\ ~ slots[AcquireTracker].configured
  BY SearchResult DEF Unconfigured
<1>5. WithSerial(m.serial) # {} => /\ FindTrackerBySerial(m.serial) \in Slot
                                   /\ FindTrackerBySerial(m.serial) \in WithSerial(m.serial)
  BY SearchResult DEF WithSerial
<1>6. QED  BY <1>2, <1>3, <1>4, <1>5 DEF OnTrackerAdded

LEMMA PoseContract ==
  ASSUME RelaySafety, RelaySafety', OnTrackerPose
  PROVE  Contract!Next
<1> DEFINE m == Head(toNative)
           s == FindTrackerByRemote(m.index)
<1>1. registered' = registered /\ bridge_online' = TRUE
  BY DEF OnTrackerPose, Take, tableVars
<1>2. CASE UNCHANGED slots
  <2>1. Contract!Hear
    BY <1>1, <1>2 DEF Contract!Hear
  <2>2. QED  BY <2>1 DEF Contract!Next
<1>3. CASE WithRemote(m.index) # {}
  <2>1. s \in Slot /\ slots[s].configured
    BY <1>3, SearchResult DEF WithRemote
  <2>2. slots' = [slots EXCEPT ![s].pose = m.pose]
    BY <1>3 DEF OnTrackerPose
  <2> HIDE DEF s, m
  <2>3. slots \in [Slot -> SlotState]
    BY DEF RelaySafety, TypeOK, NativeTypeOK
  <2>4. \A r \in Slot : /\ slots'[r].configured = slots[r].configured
                        /\ slots'[r].serial = slots[r].serial
                        /\ r # s => slots'[r] = slots[r]
    BY <2>1, <2>2, <2>3 DEF SlotState
  <2>5. ConnectedRelays' \in {ConnectedRelays \cup {slots[s].serial},
                              ConnectedRelays \ {slots[s].serial}}
    BY <2>1, <2>4, OneRelayRefreshed DEF RelaySafety
  <2>6. Relays' = Relays
    BY <2>4, SameRelays
  <2>7. slots[s].serial \in Relays
    BY <2>1 DEF Relays
  <2>8. Contract!Refresh(slots[s].serial)
    BY <1>1, <2>5, <2>6, <2>7 DEF Contract!Refresh, Relays, ConnectedRelays
  <2>9. slots[s].serial \in Serials
    BY <2>1 DEF RelaySafety, SlotsWellFormed
  <2>10. QED  BY <2>8, <2>9 DEF Contract!Next, Contract!Refresh
<1>4. QED  BY <1>2, <1>3 DEF OnTrackerPose

\* Every step of the bridge is a step of the contract, or none.
LEMMA NextContract ==
  ASSUME RelaySafety, RelaySafety', AnnouncementsRegistered, [Next]_vars
  PROVE  [Contract!Next]_(Contract!vars)
<1> DEFINE unseen == UNCHANGED <<registered, Relays, ConnectedRelays, bridge_online>>
<1>1. ASSUME unseen PROVE [Contract!Next]_(Contract!vars)
  BY <1>1 DEF Contract!vars, Relays, ConnectedRelays
<1>2. ASSUME UNCHANGED <<slots, bridge_online, registered>> PROVE [Contract!Next]_(Contract!vars)
  BY <1>2 DEF Contract!vars
<1>3. CASE UNCHANGED vars
  BY <1>2, <1>3 DEF vars, nativeVars, tableVars
<1>4. CASE Cleanup \/ CheckHelperTimeout
  <2>1. \A s \in Slot : /\ slots'[s].configured = slots[s].configured
                        /\ slots'[s].serial = slots[s].serial
                        /\ slots'[s].pose = Disconnected
    BY <1>4 DEF Cleanup, CheckHelperTimeout, DisconnectTrackers, RelaySafety, SlotsWellFormed,
                TypeOK, NativeTypeOK, SlotState
  <2>2. Relays' = Relays /\ ConnectedRelays' = {}
    BY <2>1, SameRelays
  <2>3. registered' = registered /\ bridge_online' \in {bridge_online, FALSE}
    BY <1>4 DEF Cleanup, CheckHelperTimeout, tableVars
  <2>4. Contract!Disconnect
    BY <2>2, <2>3 DEF Contract!Disconnect, Relays, ConnectedRelays
  <2>5. QED  BY <2>4 DEF Contract!Next
<1>5. CASE NativeInit \/ SendHello \/ RejectDatagram
  BY <1>2, <1>5 DEF NativeInit, SendHello, RejectDatagram, nativeVars, tableVars
<1>6. CASE OnHeartbeat \/ OnTrackerProperty
  <2>1. registered' = registered /\ bridge_online' = TRUE
    BY <1>6 DEF OnHeartbeat, OnTrackerProperty, Take, tableVars
  <2>2. \A s \in Slot : /\ slots'[s].configured = slots[s].configured
                        /\ slots'[s].serial = slots[s].serial
                        /\ slots'[s].pose = slots[s].pose
    <3>1. CASE UNCHANGED slots
      BY <3>1
    <3>2. CASE /\ WithRemote(Head(toNative).index) # {}
               /\ slots' = [slots EXCEPT ![FindTrackerByRemote(Head(toNative).index)]
                                            .cache[Head(toNative).prop] = Head(toNative).write]
      BY <3>2 DEF RelaySafety, TypeOK, NativeTypeOK, SlotState
    <3>3. QED  BY <1>6, <3>1, <3>2 DEF OnHeartbeat, OnTrackerProperty
  <2>3. UNCHANGED <<Relays, ConnectedRelays>>
    BY <2>2, SameRelays
  <2>4. Contract!Hear
    BY <2>1, <2>3 DEF Contract!Hear, Relays, ConnectedRelays
  <2>5. QED  BY <2>4 DEF Contract!Next
<1>7. CASE OnTrackerAdded \/ OnTrackerPose
  BY <1>7, AddedContract, PoseContract
<1>8. CASE SteamStep
  BY <1>2, <1>8 DEF SteamStep, Activate, Deactivate, nativeVars, tableVars
<1>9. CASE ProcessStep \/ MainStep \/ CallStep \/ (\E t \in Threads : FinishCall(t))
  <2>1. UNCHANGED <<slots, bridge_online>>
    BY <1>9, OthersKeepSlots DEF nativeVars
  <2>2. UNCHANGED registered \/ \E d \in Drivers : registered' = registered \cup {SerialOf[d]}
    <3>1. CASE ProcessStep
      BY <3>1 DEF ProcessStep, HelperStop, HelperStart, tableVars
    <3>2. CASE MainStep
      BY <3>2 DEF MainStep, SendHeartbeat, HelperReceive, ReplayAdded, ReplayCopy,
                  ReplayProperty, ReplayPose, tableVars
    <3>3. CASE CallStep
      BY <3>3 DEF CallStep, TrackedDeviceAdded, TrackedDevicePoseUpdated, WriteProperty
    <3>4. CASE \E t \in Threads : FinishCall(t)
      BY <3>4 DEF FinishCall, SendTrackerAdded, ActivateDriver, SendTrackerPose,
                  RelayTrackerProperty, tableVars
    <3>5. QED  BY <1>9, <3>1, <3>2, <3>3, <3>4
  <2>3. ASSUME NEW d \in Drivers, registered' = registered \cup {SerialOf[d]}
        PROVE  Contract!Next
    <3>1. SerialOf[d] \in Serials
      BY DriverAssumption
    <3>2. UNCHANGED <<Relays, ConnectedRelays>>
      BY <2>1 DEF Relays, ConnectedRelays
    <3>3. Contract!Register(SerialOf[d])
      BY <2>1, <2>3, <3>2 DEF Contract!Register, Relays, ConnectedRelays
    <3>4. QED  BY <3>1, <3>3 DEF Contract!Next, Contract!Register
  <2>4. QED  BY <1>2, <2>1, <2>2, <2>3
<1>10. QED
  BY <1>3, <1>4, <1>5, <1>6, <1>7, <1>8, <1>9 DEF Next, NativeStep, Receive

\* The driver, the helper, the sockets and the threads between them implement
\* RelayContract: one relay object per tracker the original DLL registered,
\* never taken away or handed to another, connected only while it is heard.
THEOREM Refinement == Spec => RefinesContract
<1>1. Init => AnnouncementsRegistered
  BY DEF Init, AnnouncementsRegistered, Registered, Announced
<1>2. TypeOK /\ AnnouncementsRegistered /\ [Next]_vars => AnnouncementsRegistered'
  BY NextAnnouncements
<1>3. RelaySafety => TypeOK
  BY DEF RelaySafety
<1>4. RelaySafety /\ RelaySafety' /\ AnnouncementsRegistered /\ [Next]_vars
        => [Contract!Next]_(Contract!vars)
  BY NextContract
<1>5. QED  BY <1>1, <1>2, <1>3, <1>4, ContractInit, Safety, PTL
           DEF Spec, RefinesContract, Contract!Spec

-----------------------------------------------------------------------------
(* What the helper sends, and how its threads move on: the facts that the  *)
(* invariants about datagrams in flight share.                             *)

\* The indices whose announcement has been sent before: the DLL knows them, is
\* about to be told them, or they are the ones ReplayTrackers is at.
OnceAnnounced(i) ==
  \/ i \in known
  \/ \E t \in Threads : job[t].op = "activate" /\ job[t].index = i
  \/ \E t \in Threads : job[t].op \in {"copy", "send"} /\ job[t].at = i

\* The DLL only updates trackers whose index it knows.
JobsKnown == \A t \in Threads : job[t].op \in {"pose", "property"} => job[t].index \in known

\* ReplayTrackers' copy of trackers_ is never ahead of the table.
Copies ==
  \A t \in Threads : job[t].op \in {"replay", "copy", "send"} =>
    \A i \in Index : job[t].poses[i] <= last_pose[i]

\* What the helper may put on the wire in this state.
Sendable(m) ==
  /\ m \in ToNative
  /\ m.session = helper
  /\ m.type # "Heartbeat" => m.index \in Registered
  /\ m.type = "TrackerAdded" => m.serial = SerialOf[trackers[m.index]]
  /\ m.type \in {"TrackerProperty", "TrackerPose"} => OnceAnnounced(m.index)
  /\ m.type = "TrackerPose" =>
       /\ m.pose \in [driver : Drivers, n : 1..MaxUpdates]
       /\ m.pose.driver = trackers[m.index]
       /\ IF m.replayed THEN m.pose.n <= last_pose[m.index]
          ELSE \E t \in Threads : /\ job[t].op = "pose" /\ job[t].index = m.index
                                  /\ job[t].n = m.pose.n

\* A step of the helper's main loop, or the rest of a call, sends at most one
\* datagram and leaves the tables alone.
LEMMA HelperSends ==
  ASSUME TypeOK, Copies, JobsKnown, MainStep \/ (\E t \in Threads : FinishCall(t))
  PROVE  /\ UNCHANGED <<nativeVars, slots, steamVars, trackers, last_pose, properties,
                        updates, registered, processVars>>
         /\ UNCHANGED <<toNative, losses>> \/ \E m : Sendable(m) /\ Transmit(m)
<1>1. UNCHANGED <<nativeVars, slots, steamVars>>
  BY OthersKeepSlots
<1>2. ASSUME helper # 0
      PROVE  /\ Sendable(Heartbeat)
             /\ \A i \in Registered : Sendable(TrackerAdded(i))
             /\ \A i \in Registered, p \in Props, w \in Relayed :
                  OnceAnnounced(i) => Sendable(TrackerProperty(i, p, w))
             /\ \A i \in Registered, n \in 1..MaxUpdates :
                  OnceAnnounced(i) /\ n <= last_pose[i] => Sendable(TrackerPose(i, n, TRUE))
             /\ \A i \in Registered, n \in 1..MaxUpdates :
                  /\ OnceAnnounced(i)
                  /\ \E t \in Threads : job[t].op = "pose" /\ job[t].index = i /\ job[t].n = n
                  => Sendable(TrackerPose(i, n, FALSE))
  <2>1. \A i \in Registered : trackers[i] \in Drivers
    BY DEF TypeOK, TableTypeOK, Registered
  <2>2. Sendable(Heartbeat) /\ \A i \in Registered : Sendable(TrackerAdded(i))
    BY <1>2, Datagrams DEF Sendable, Heartbeat, TrackerAdded
  <2>3. \A i \in Registered, p \in Props, w \in Relayed :
          OnceAnnounced(i) => Sendable(TrackerProperty(i, p, w))
    BY <1>2, Datagrams DEF Sendable, TrackerProperty
  <2>4. ASSUME NEW i \in Registered, NEW n \in 1..MaxUpdates, OnceAnnounced(i),
               NEW again \in BOOLEAN,
               IF again THEN n <= last_pose[i]
               ELSE \E t \in Threads : job[t].op = "pose" /\ job[t].index = i /\ job[t].n = n
        PROVE  Sendable(TrackerPose(i, n, again))
    <3> DEFINE m == TrackerPose(i, n, again)
    <3>1. /\ m \in ToNative /\ m.session = helper /\ m.index = i /\ m.type = "TrackerPose"
          /\ m.replayed = again /\ m.pose = [driver |-> trackers[i], n |-> n]
      BY <1>2, Datagrams DEF TrackerPose
    <3>2. /\ m.pose \in [driver : Drivers, n : 1..MaxUpdates]
          /\ m.pose.driver = trackers[i] /\ m.pose.n = n
      BY <2>1, <3>1
    <3> HIDE DEF m
    <3>3. Sendable(m)
      BY <2>4, <3>1, <3>2 DEF Sendable
    <3>4. QED  BY <3>3 DEF m
  <2>5. QED  BY <2>2, <2>3, <2>4
<1>3. CASE MainStep
  <2>1. UNCHANGED <<trackers, last_pose, properties, updates, registered, processVars>>
    BY <1>3 DEF MainStep, SendHeartbeat, HelperReceive, ReplayAdded, ReplayCopy,
                ReplayProperty, ReplayPose, tableVars
  <2>2. Main \in Threads
    BY ThreadAssumption
  <2>3. ASSUME job[Main].op \in {"replay", "copy", "send"}
        PROVE  /\ helper # 0 /\ job[Main].at \in Registered /\ job[Main].at \in Index
               /\ job[Main].poses \in [Index -> 0..MaxUpdates]
               /\ job[Main].pending \in SUBSET (Props \X Relayed)
               /\ job[Main].poses[job[Main].at] <= last_pose[job[Main].at]
               /\ job[Main].op \in {"copy", "send"} => OnceAnnounced(job[Main].at)
    BY <2>2, <2>3, JobFacts DEF ReplayState, Copies, OnceAnnounced
  <2>4. CASE SendHeartbeat \/ HelperReceive
    <3>1. helper # 0 /\ (UNCHANGED <<toNative, losses>> \/ Transmit(Heartbeat))
      BY <2>4 DEF SendHeartbeat, HelperReceive, SendToNative
    <3>2. QED  BY <1>1, <1>2, <2>1, <3>1
  <2>5. CASE ReplayAdded
    BY <1>1, <1>2, <2>1, <2>3, <2>5 DEF ReplayAdded, SendToNative
  <2>6. CASE ReplayCopy
    BY <1>1, <2>1, <2>6 DEF ReplayCopy, linkVars
  <2>7. CASE ReplayProperty
    <3>1. job[Main].op = "send"
      BY <2>7 DEF ReplayProperty
    <3>2. PICK e \in job[Main].pending : Transmit(TrackerProperty(job[Main].at, e[1], e[2]))
      BY <2>7 DEF ReplayProperty, SendToNative
    <3>3. e[1] \in Props /\ e[2] \in Relayed
      BY <2>3, <3>1
    <3>4. Sendable(TrackerProperty(job[Main].at, e[1], e[2]))
      BY <1>2, <2>3, <3>1, <3>3
    <3>5. QED  BY <1>1, <2>1, <3>2, <3>4
  <2>8. CASE ReplayPose
    <3> DEFINE n == job[Main].poses[job[Main].at]
    <3>1. job[Main].op = "send"
      BY <2>8 DEF ReplayPose
    <3>2. CASE n = 0
      BY <1>1, <2>1, <2>8, <3>2 DEF ReplayPose, linkVars
    <3>3. CASE n # 0
      <4>1. n \in 1..MaxUpdates
        BY <2>3, <3>1, <3>3, SizeAssumption
      <4>2. Transmit(TrackerPose(job[Main].at, n, TRUE))
        BY <2>8, <3>3 DEF ReplayPose, SendToNative
      <4>3. Sendable(TrackerPose(job[Main].at, n, TRUE))
        BY <1>2, <2>3, <3>1, <4>1
      <4>4. QED  BY <1>1, <2>1, <4>2, <4>3
    <3>4. QED  BY <3>2, <3>3
  <2>9. QED  BY <1>3, <2>4, <2>5, <2>6, <2>7, <2>8 DEF MainStep
<1>4. ASSUME NEW t \in Threads, FinishCall(t)
      PROVE  /\ UNCHANGED <<trackers, last_pose, properties, updates, registered, processVars>>
             /\ UNCHANGED <<toNative, losses>> \/ \E m : Sendable(m) /\ Transmit(m)
  <2>1. UNCHANGED <<trackers, last_pose, properties, updates, registered, processVars>>
    BY <1>4 DEF FinishCall, SendTrackerAdded, ActivateDriver, SendTrackerPose,
                RelayTrackerProperty, tableVars
  <2>2. CASE SendTrackerAdded(t)
    <3>1. helper # 0 /\ job[t].index \in Registered
      BY <2>2, JobFacts DEF SendTrackerAdded
    <3>2. QED  BY <1>2, <2>1, <2>2, <3>1 DEF SendTrackerAdded, SendToNative
  <2>3. CASE ActivateDriver(t)
    BY <2>1, <2>3 DEF ActivateDriver, linkVars
  <2>4. CASE SendTrackerPose(t)
    <3>1. /\ helper # 0 /\ job[t].op = "pose" /\ job[t].index \in Registered
          /\ job[t].n \in 1..MaxUpdates /\ OnceAnnounced(job[t].index)
      BY <2>4, JobFacts DEF SendTrackerPose, JobsKnown, OnceAnnounced
    <3>2. Sendable(TrackerPose(job[t].index, job[t].n, FALSE))
      BY <1>2, <3>1
    <3>3. Transmit(TrackerPose(job[t].index, job[t].n, FALSE))
      BY <2>4 DEF SendTrackerPose, SendToNative
    <3>4. QED  BY <2>1, <3>2, <3>3
  <2>5. CASE RelayTrackerProperty(t)
    <3>1. /\ helper # 0 /\ job[t].index \in Registered /\ job[t].prop \in Props
          /\ job[t].write \in Write /\ OnceAnnounced(job[t].index)
      BY <2>5, JobFacts DEF RelayTrackerProperty, JobsKnown, OnceAnnounced
    <3>2. CASE job[t].write \in Oversized
      BY <2>1, <2>5, <3>2 DEF RelayTrackerProperty, linkVars
    <3>3. CASE job[t].write \notin Oversized
      <4>1. job[t].write \in Relayed
        BY <3>1, <3>3 DEF Write, Relayed
      <4>2. Sendable(TrackerProperty(job[t].index, job[t].prop, job[t].write))
        BY <1>2, <3>1, <4>1
      <4>3. Transmit(TrackerProperty(job[t].index, job[t].prop, job[t].write))
        BY <2>5, <3>3 DEF RelayTrackerProperty, SendToNative
      <4>4. QED  BY <2>1, <4>2, <4>3
    <3>4. QED  BY <3>2, <3>3
  <2>6. QED  BY <1>4, <2>2, <2>3, <2>4, <2>5 DEF FinishCall
<1>5. QED  BY <1>1, <1>3, <1>4

\* How a thread moves on meanwhile: no call begins, an announcement is sent
\* before the thread is past it, and a replay keeps its copy.
LEMMA HelperJobs ==
  ASSUME TypeOK, MainStep \/ (\E t \in Threads : FinishCall(t)), NEW t \in Threads
  PROVE  /\ job'[t].op \in {"pose", "property"} => job'[t] = job[t]
         /\ job'[t].op = "activate" =>
              \/ job'[t] = job[t]
              \/ job[t].op = "added" /\ Transmit(TrackerAdded(job'[t].index))
         /\ job'[t].op \in {"copy", "send"} =>
              \/ job[t].op \in {"copy", "send"} /\ job'[t].at = job[t].at
              \/ job[t].op = "replay" /\ Transmit(TrackerAdded(job'[t].at))
         /\ job'[t].op \in {"replay", "copy", "send"} =>
              \/ job'[t].poses = last_pose
              \/ job[t].op \in {"replay", "copy", "send"} /\ job'[t].poses = job[t].poses
         /\ known' = known \/ \E u \in Threads : /\ job[u].op = "activate"
                                                 /\ known' = known \cup {job[u].index}
<1>1. job \in [Threads -> Job] /\ Main \in Threads
  BY ThreadAssumption DEF TypeOK, JobTypeOK
<1>2. CASE MainStep
  <2>1. known' = known
    BY <1>2 DEF MainStep, SendHeartbeat, HelperReceive, ReplayAdded, ReplayCopy,
                ReplayProperty, ReplayPose, tableVars
  <2>2. CASE job' = job
    BY <2>1, <2>2
  <2>3. job' = job \/ \E j : Goto(Main, j)
    BY <1>2 DEF MainStep, SendHeartbeat, HelperReceive, ReplayAdded, ReplayCopy,
                ReplayProperty, ReplayPose
  <2>4. CASE t # Main
    BY <1>1, <2>1, <2>3, <2>4 DEF Goto
  <2>5. CASE t = Main /\ HelperReceive
    <3>1. CASE Goto(Main, [op |-> "exit"])
      BY <1>1, <2>1, <2>5, <3>1 DEF Goto
    <3>2. CASE Goto(Main, [op |-> "replay", at |-> 1, upto |-> Len(trackers),
                           poses |-> last_pose, pending |-> {}])
      BY <1>1, <2>1, <2>5, <3>2 DEF Goto
    <3>3. QED  BY <2>2, <2>5, <3>1, <3>2 DEF HelperReceive
  <2>6. ASSUME job[Main].op \in {"replay", "copy", "send"} PROVE job[Main] \in ReplayState
    BY <1>1, <2>6, JobFacts
  <2>7. CASE t = Main /\ ReplayAdded
    <3>1. job'[t] = [job[t] EXCEPT !.op = "copy"] /\ job[t].op = "replay"
      BY <1>1, <2>7 DEF ReplayAdded, Goto
    <3>2. job'[t].op = "copy" /\ job'[t].at = job[t].at /\ job'[t].poses = job[t].poses
      BY <2>6, <2>7, <3>1 DEF ReplayState
    <3>3. Transmit(TrackerAdded(job[t].at))
      BY <2>7 DEF ReplayAdded, SendToNative
    <3>4. QED  BY <2>1, <3>1, <3>2, <3>3
  <2>8. CASE t = Main /\ (ReplayCopy \/ ReplayProperty)
    <3>1. /\ job[t].op \in {"copy", "send"}
          /\ \E pending : job'[t] = [job[t] EXCEPT !.op = "send", !.pending = pending]
      <4>1. CASE ReplayCopy
        BY <1>1, <2>8, <4>1 DEF ReplayCopy, Goto
      <4>2. CASE ReplayProperty
        <5>1. /\ job[t].op = "send"
              /\ \E pending : job'[t] = [job[t] EXCEPT !.pending = pending]
          BY <1>1, <2>8, <4>2 DEF ReplayProperty, Goto
        <5>2. job[t] \in ReplayState
          BY <2>6, <2>8, <5>1
        <5>3. \A pending : [job[t] EXCEPT !.pending = pending]
                             = [job[t] EXCEPT !.op = "send", !.pending = pending]
          BY <5>1, <5>2 DEF ReplayState
        <5>4. QED  BY <5>1, <5>3
      <4>3. QED  BY <2>8, <4>1, <4>2
    <3>2. job'[t].op = "send" /\ job'[t].at = job[t].at /\ job'[t].poses = job[t].poses
      BY <2>6, <2>8, <3>1 DEF ReplayState
    <3>3. QED  BY <2>1, <3>1, <3>2
  <2>9. CASE t = Main /\ ReplayPose
    <3>1. CASE Goto(Main, Idle)
      BY <1>1, <2>1, <2>9, <3>1 DEF Goto, Idle
    <3>2. CASE Goto(Main, [job[Main] EXCEPT !.op = "replay", !.at = @ + 1])
      <4>1. job'[t] = [job[t] EXCEPT !.op = "replay", !.at = @ + 1] /\ job[t].op = "send"
        BY <1>1, <2>9, <3>2 DEF ReplayPose, Goto
      <4>2. job'[t].op = "replay" /\ job'[t].poses = job[t].poses
        BY <2>6, <2>9, <4>1 DEF ReplayState
      <4>3. QED  BY <2>1, <4>1, <4>2
    <3>3. QED  BY <2>9, <3>1, <3>2 DEF ReplayPose
  <2>10. CASE SendHeartbeat
    BY <2>2, <2>10 DEF SendHeartbeat
  <2>11. QED  BY <1>2, <2>4, <2>5, <2>7, <2>8, <2>9, <2>10 DEF MainStep
<1>3. ASSUME NEW u \in Threads, FinishCall(u)
      PROVE  /\ t # u => job'[t] = job[t]
             /\ t = u => \/ job'[t] = Idle
                         \/ /\ job'[t] = [op |-> "activate", index |-> job[t].index]
                            /\ job[t].op = "added"
                            /\ Transmit(TrackerAdded(job[t].index))
             /\ known' = known \/ (job[u].op = "activate" /\ known' = known \cup {job[u].index})
  <2>1. CASE SendTrackerAdded(u)
    BY <1>1, <2>1 DEF SendTrackerAdded, SendToNative, Goto, tableVars
  <2>2. CASE ActivateDriver(u)
    BY <1>1, <2>2 DEF ActivateDriver, Goto
  <2>3. CASE SendTrackerPose(u) \/ RelayTrackerProperty(u)
    BY <1>1, <2>3 DEF SendTrackerPose, RelayTrackerProperty, Goto, tableVars
  <2>4. QED  BY <1>3, <2>1, <2>2, <2>3 DEF FinishCall
<1>4. CASE \E u \in Threads : FinishCall(u)
  <2>1. PICK u \in Threads : FinishCall(u)
    BY <1>4
  <2>2. CASE t # u
    BY <1>3, <2>1, <2>2
  <2>3. CASE t = u /\ job'[t] = Idle
    BY <1>3, <2>1, <2>3 DEF Idle
  <2>4. CASE t = u /\ job'[t] # Idle
    <3>1. /\ job'[t] = [op |-> "activate", index |-> job[t].index]
          /\ job[t].op = "added" /\ Transmit(TrackerAdded(job[t].index))
      BY <1>3, <2>1, <2>4
    <3>2. job'[t].op = "activate" /\ job'[t].index = job[t].index
      BY <3>1
    <3>3. QED  BY <1>3, <2>1, <3>1, <3>2
  <2>5. QED  BY <2>2, <2>3, <2>4
<1>5. QED  BY <1>2, <1>4

\* The native driver's steps only take datagrams away, at the front or all at
\* once, and leave the helper alone.
LEMMA NativeEffect ==
  ASSUME NativeStep
  PROVE  /\ UNCHANGED <<tableVars, helper, job>>
         /\ \/ toNative' = <<>> \/ toNative' = toNative
            \/ toNative # <<>> /\ toNative' = Tail(toNative)
<1>1. CASE NativeInit \/ Cleanup \/ SendHello \/ CheckHelperTimeout
  BY <1>1 DEF NativeInit, Cleanup, SendHello, CheckHelperTimeout, processVars, linkVars
<1>2. CASE Receive
  BY <1>2 DEF Receive, RejectDatagram, OnHeartbeat, OnTrackerAdded, OnTrackerProperty,
              OnTrackerPose, Take, processVars
<1>3. QED  BY <1>1, <1>2 DEF NativeStep

LEMMA QueueTail ==
  ASSUME NEW q \in Seq(ToNative), q # <<>>
  PROVE  /\ Head(q) = q[1] /\ 1 \in 1..Len(q)
         /\ Len(Tail(q)) = Len(q) - 1
         /\ \A k \in 1..Len(Tail(q)) : Tail(q)[k] = q[k + 1] /\ k + 1 \in 1..Len(q)
  OBVIOUS

LEMMA QueueAppend ==
  ASSUME NEW q \in Seq(ToNative), NEW m \in ToNative
  PROVE  /\ Append(q, m) \in Seq(ToNative) /\ Len(Append(q, m)) = Len(q) + 1
         /\ Append(q, m)[Len(q) + 1] = m
         /\ \A k \in 1..Len(q) : Append(q, m)[k] = q[k]
  OBVIOUS

-----------------------------------------------------------------------------
(* The live path keeps the poses of a tracker in order.  The numbers of a  *)
(* tracker's poses are in relay objects, in datagrams, in the table and in *)
(* ReplayTrackers' copy; a live pose, from the moment the DLL submits it,  *)
(* is at least as new as all of them.                                      *)

\* No pose of d that is relayed, in flight or in the table is newer than n.
AtMost(d, n) ==
  /\ \A s \in Slot : slots[s].pose.driver = d => slots[s].pose.n <= n
  /\ \A k \in 1..Len(toNative) :
       toNative[k].type = "TrackerPose" /\ toNative[k].pose.driver = d
         => toNative[k].pose.n <= n
  /\ \A i \in Registered : trackers[i] = d => last_pose[i] <= n

\* An index without a tracker has no pose: HelperStop empties the table.
Unposed == \A i \in Index : i \notin Registered => last_pose[i] = 0
NoneNewer == \A d \in Drivers : AtMost(d, updates)
PendingNewest ==
  \A t \in Threads : job[t].op = "pose" =>
    /\ t = ThreadOf[trackers[job[t].index]]
    /\ job[t].n <= updates
    /\ AtMost(trackers[job[t].index], job[t].n)
LiveNewest ==
  \A k \in 1..Len(toNative) : toNative[k].type = "TrackerPose" /\ ~ toNative[k].replayed =>
    /\ \A s \in Slot : slots[s].pose.driver = toNative[k].pose.driver
                         => slots[s].pose.n <= toNative[k].pose.n
    /\ \A h \in 1..(k - 1) :
         /\ toNative[h].type = "TrackerPose"
         /\ toNative[h].pose.driver = toNative[k].pose.driver
         => toNative[h].pose.n <= toNative[k].pose.n

PoseOrder ==
  /\ TypeOK
  /\ JobsKnown
  /\ Copies
  /\ Unposed
  /\ NoneNewer
  /\ PendingNewest
  /\ LiveNewest

\* What a step of the native driver does to one slot: it keeps what it is and at
\* most loses its pose, it is configured by a registration, or it takes the pose
\* of the datagram at the head.
LEMMA NativeSlots ==
  ASSUME TypeOK, NativeStep, NEW s \in Slot
  PROVE  \/ /\ slots'[s].configured = slots[s].configured
            /\ slots'[s].remote = slots[s].remote
            /\ slots'[s].serial = slots[s].serial
            /\ slots'[s].pose \in {slots[s].pose, Disconnected}
         \/ /\ OnTrackerAdded
            /\ slots[s].configured => slots[s].serial = Head(toNative).serial
            /\ slots'[s].configured = TRUE
            /\ slots'[s].remote = Head(toNative).index
            /\ slots'[s].serial = Head(toNative).serial
            /\ slots'[s].pose = Disconnected
         \/ /\ OnTrackerPose
            /\ slots[s].configured /\ slots'[s].configured
            /\ slots[s].remote = Head(toNative).index
            /\ slots'[s].remote = slots[s].remote
            /\ slots'[s].serial = slots[s].serial
            /\ slots'[s].pose = Head(toNative).pose
<1> DEFINE m == Head(toNative)
<1>1. slots \in [Slot -> SlotState] /\ slots[s] \in SlotState
  BY DEF TypeOK, NativeTypeOK
<1>2. CASE UNCHANGED slots
  BY <1>2
<1>3. CASE DisconnectTrackers
  BY <1>1, <1>3 DEF DisconnectTrackers, SlotState
<1>4. CASE OnTrackerAdded
  <2>1. ASSUME NEW r \in Slot, Configure(r, m), slots[r].configured => slots[r].serial = m.serial
        PROVE  \/ slots'[s] = slots[s]
               \/ /\ slots[s].configured => slots[s].serial = m.serial
                  /\ slots'[s].configured = TRUE /\ slots'[s].remote = m.index
                  /\ slots'[s].serial = m.serial /\ slots'[s].pose = Disconnected
    <3> HIDE DEF m
    <3>1. QED  BY <1>1, <2>1 DEF Configure, SlotState
  <2>2. /\ Unconfigured # {} => AcquireTracker \in Slot /\ ~ slots[AcquireTracker].configured
        /\ WithSerial(m.serial) # {} =>
             /\ FindTrackerBySerial(m.serial) \in Slot
             /\ slots[FindTrackerBySerial(m.serial)].serial = m.serial
    BY SearchResult DEF Unconfigured, WithSerial
  <2>3. \/ UNCHANGED slots
        \/ \E r \in Slot : /\ Configure(r, m)
                           /\ slots[r].configured => slots[r].serial = m.serial
    BY <1>4, <2>2 DEF OnTrackerAdded
  <2>4. QED  BY <1>2, <1>4, <2>1, <2>3
<1>5. CASE OnTrackerProperty
  <2> DEFINE r == FindTrackerByRemote(m.index)
  <2>1. CASE slots' = [slots EXCEPT ![r].cache[m.prop] = m.write]
    <3> HIDE DEF r, m
    <3>1. QED  BY <1>1, <2>1 DEF SlotState
  <2>2. QED  BY <1>2, <1>5, <2>1 DEF OnTrackerProperty
<1>6. CASE OnTrackerPose
  <2> DEFINE r == FindTrackerByRemote(m.index)
  <2>1. CASE WithRemote(m.index) # {}
    <3>1. slots' = [slots EXCEPT ![r].pose = m.pose]
      BY <1>6, <2>1 DEF OnTrackerPose
    <3>2. slots[r].configured /\ slots[r].remote = m.index
      BY <2>1, SearchResult DEF WithRemote
    <3> HIDE DEF r, m
    <3>3. QED  BY <1>1, <1>6, <3>1, <3>2 DEF SlotState, m
  <2>2. QED  BY <1>2, <1>6, <2>1 DEF OnTrackerPose
<1>7. CASE NativeInit \/ SendHello \/ RejectDatagram \/ OnHeartbeat
  BY <1>2, <1>7 DEF NativeInit, SendHello, RejectDatagram, OnHeartbeat
<1>8. CASE Cleanup \/ CheckHelperTimeout
  BY <1>3, <1>8 DEF Cleanup, CheckHelperTimeout
<1>9. QED  BY <1>4, <1>5, <1>6, <1>7, <1>8 DEF NativeStep, Receive

\* A relay object keeps its pose, loses it, or takes that of the datagram at
\* the head.
LEMMA NativePoses ==
  ASSUME TypeOK, NativeStep, NEW s \in Slot
  PROVE  \/ slots'[s].pose \in {slots[s].pose, Disconnected}
         \/ /\ toNative # <<>> /\ Head(toNative).type = "TrackerPose"
            /\ toNative' = Tail(toNative)
            /\ slots'[s].pose = Head(toNative).pose
  BY NativeSlots DEF OnTrackerPose, Take

\* The numbers of two poses can be compared.
LEMMA PoseNumbers ==
  ASSUME TypeOK
  PROVE  /\ \A s \in Slot : slots[s].pose \in Pose
         /\ \A k \in 1..Len(toNative) :
              toNative[k].type = "TrackerPose" => toNative[k].pose \in Pose
         /\ \A p \in Pose : p.n \in 0..MaxUpdates /\ (p.driver \in Drivers => p # Disconnected)
         /\ Disconnected \in Pose /\ Disconnected.n = 0 /\ Disconnected.driver = NoDriver
<1>1. \A s \in Slot : slots[s].pose \in Pose
  BY DEF TypeOK, NativeTypeOK, SlotState
<1>2. \A k \in 1..Len(toNative) : toNative[k] \in ToNative
  BY DEF TypeOK, LinkTypeOK
<1>3. \A p \in Pose : p.n \in 0..MaxUpdates /\ (p.driver \in Drivers => p # Disconnected)
  BY SizeAssumption, DriverAssumption DEF Pose, Disconnected
<1>4. Disconnected \in Pose /\ Disconnected.n = 0 /\ Disconnected.driver = NoDriver
  BY DEF Pose, Disconnected
<1>5. QED  BY <1>1, <1>2, <1>3, <1>4, MessageFields

LEMMA OrderNative ==
  ASSUME PoseOrder, NativeStep
  PROVE  PoseOrder'
<1> USE DEF PoseOrder
<1>1. TypeOK'
  BY NextType DEF Next
<1>2. UNCHANGED <<trackers, last_pose, updates, known, helper, job>> /\ Registered' = Registered
  BY NativeEffect DEF tableVars, Registered
<1>3. toNative \in Seq(ToNative)
  BY DEF TypeOK, LinkTypeOK
<1>4. ASSUME NEW d \in Drivers, NEW n \in Nat, AtMost(d, n) PROVE AtMost(d, n)'
  <2>1. \A s \in Slot : slots'[s].pose.driver = d => slots'[s].pose.n <= n
    <3> SUFFICES ASSUME NEW s \in Slot, slots'[s].pose.driver = d PROVE slots'[s].pose.n <= n
      OBVIOUS
    <3>1. slots'[s].pose # Disconnected
      BY PoseNumbers, DriverAssumption
    <3>2. CASE slots'[s].pose = slots[s].pose
      BY <1>4, <3>2 DEF AtMost
    <3>3. CASE /\ toNative # <<>> /\ Head(toNative).type = "TrackerPose"
               /\ slots'[s].pose = Head(toNative).pose
      BY <1>3, <1>4, <3>3, QueueTail DEF AtMost
    <3>4. QED  BY <3>1, <3>2, <3>3, NativePoses
  <2>2. \A k \in 1..Len(toNative') :
          toNative'[k].type = "TrackerPose" /\ toNative'[k].pose.driver = d
            => toNative'[k].pose.n <= n
    <3>1. CASE toNative' = toNative
      BY <1>4, <3>1 DEF AtMost
    <3>2. CASE toNative' = <<>>
      BY <3>2
    <3>3. CASE toNative # <<>> /\ toNative' = Tail(toNative)
      BY <1>3, <1>4, <3>3, QueueTail DEF AtMost
    <3>4. QED  BY <3>1, <3>2, <3>3, NativeEffect
  <2>3. \A i \in Registered : trackers[i] = d => last_pose[i] <= n
    BY <1>4 DEF AtMost
  <2>4. QED  BY <1>2, <2>1, <2>2, <2>3 DEF AtMost
<1>5. JobsKnown' /\ Copies' /\ Unposed'
  BY <1>2 DEF JobsKnown, Copies, Unposed
<1>6. NoneNewer'
  BY <1>2, <1>4 DEF NoneNewer, TypeOK, TableTypeOK
<1>7. PendingNewest'
  <2> SUFFICES ASSUME NEW t \in Threads, job[t].op = "pose"
               PROVE  /\ t = ThreadOf[trackers[job[t].index]] /\ job[t].n <= updates
                      /\ AtMost(trackers[job[t].index], job[t].n)'
    BY <1>2 DEF PendingNewest
  <2>1. trackers[job[t].index] \in Drivers /\ job[t].n \in Nat
    BY JobFacts DEF TypeOK, TableTypeOK, Registered
  <2>2. AtMost(trackers[job[t].index], job[t].n)
    BY DEF PendingNewest
  <2>3. AtMost(trackers[job[t].index], job[t].n)'
    BY <1>2, <1>4, <2>1, <2>2
  <2>4. QED  BY <2>3 DEF PendingNewest
<1>8. LiveNewest'
  <2> SUFFICES ASSUME NEW k \in 1..Len(toNative'), toNative'[k].type = "TrackerPose",
                      ~ toNative'[k].replayed
               PROVE  /\ \A s \in Slot : slots'[s].pose.driver = toNative'[k].pose.driver
                           => slots'[s].pose.n <= toNative'[k].pose.n
                      /\ \A h \in 1..(k - 1) :
                           /\ toNative'[h].type = "TrackerPose"
                           /\ toNative'[h].pose.driver = toNative'[k].pose.driver
                           => toNative'[h].pose.n <= toNative'[k].pose.n
    BY DEF LiveNewest
  <2>1. toNative'[k].pose.n \in Nat
    <3>1. toNative'[k] \in ToNative
      BY <1>1 DEF TypeOK, LinkTypeOK
    <3>2. toNative'[k].pose \in Pose
      BY <3>1, MessageFields
    <3>3. QED  BY <3>2, PoseNumbers, SizeAssumption
  <2>2. CASE toNative' = toNative
    <3>1. \A s \in Slot : slots'[s].pose \in {slots[s].pose, Disconnected}
      BY <1>3, <2>2, NativePoses, QueueTail
    <3>2. QED  BY <2>1, <2>2, <3>1, PoseNumbers DEF LiveNewest
  <2>3. CASE toNative # <<>> /\ toNative' = Tail(toNative)
    <3>1. /\ toNative'[k] = toNative[k + 1] /\ k + 1 \in 1..Len(toNative)
          /\ \A h \in 1..(k - 1) : toNative'[h] = toNative[h + 1] /\ h + 1 \in 1..((k + 1) - 1)
          /\ Head(toNative) = toNative[1] /\ 1 \in 1..((k + 1) - 1)
      BY <1>3, <2>3, QueueTail
    <3>2. /\ \A s \in Slot : slots[s].pose.driver = toNative[k + 1].pose.driver
               => slots[s].pose.n <= toNative[k + 1].pose.n
          /\ \A h \in 1..((k + 1) - 1) :
               /\ toNative[h].type = "TrackerPose"
               /\ toNative[h].pose.driver = toNative[k + 1].pose.driver
               => toNative[h].pose.n <= toNative[k + 1].pose.n
      BY <3>1 DEF LiveNewest
    <3>3. \A s \in Slot : slots'[s].pose.driver = toNative'[k].pose.driver
            => slots'[s].pose.n <= toNative'[k].pose.n
      <4> SUFFICES ASSUME NEW s \in Slot, slots'[s].pose.driver = toNative'[k].pose.driver
                   PROVE  slots'[s].pose.n <= toNative'[k].pose.n
        OBVIOUS
      <4>1. CASE slots'[s].pose = Disconnected
        BY <2>1, <4>1, PoseNumbers
      <4>2. CASE slots'[s].pose = slots[s].pose
        BY <3>1, <3>2, <4>2
      <4>3. CASE /\ Head(toNative).type = "TrackerPose"
                 /\ slots'[s].pose = Head(toNative).pose
        BY <3>1, <3>2, <4>3
      <4>4. QED  BY <4>1, <4>2, <4>3, NativePoses
    <3>4. QED  BY <3>1, <3>2, <3>3
  <2>4. CASE toNative' = <<>>
    BY <2>4
  <2>5. QED  BY <2>2, <2>3, <2>4, NativeEffect
<1>9. QED  BY <1>1, <1>5, <1>6, <1>7, <1>8

\* A datagram the helper may send is no newer than a pending pose of its
\* tracker, and is that pose if it is a live one.
LEMMA SendableOrder ==
  ASSUME PoseOrder, NEW m, Sendable(m), m.type = "TrackerPose"
  PROVE  /\ m.pose.driver \in Drivers /\ m.pose.n \in Nat /\ m.pose.n <= updates
         /\ \A t \in Threads :
              job[t].op = "pose" /\ trackers[job[t].index] = m.pose.driver
                => m.pose.n <= job[t].n
         /\ ~ m.replayed => AtMost(m.pose.driver, m.pose.n)
<1>1. /\ m.pose.driver \in Drivers /\ m.pose.n \in Nat /\ m.index \in Registered
      /\ m.pose.driver = trackers[m.index]
  BY DEF Sendable
<1>2. /\ updates \in Nat /\ last_pose[m.index] \in Nat
      /\ \A t \in Threads : job[t].op = "pose" => job[t].n \in Nat /\ job[t].index \in Registered
  BY SMTT(30), <1>1, JobFacts, SizeAssumption DEF PoseOrder, TypeOK, TableTypeOK, Registered, Index
<1>3. CASE m.replayed
  <2>1. m.pose.n <= last_pose[m.index]
    BY <1>3 DEF Sendable
  <2>2. last_pose[m.index] <= updates
    BY <1>1 DEF PoseOrder, NoneNewer, AtMost
  <2>3. \A t \in Threads : job[t].op = "pose" /\ trackers[job[t].index] = m.pose.driver
          => last_pose[m.index] <= job[t].n
    BY <1>1 DEF PoseOrder, PendingNewest, AtMost
  <2>4. QED  BY <1>1, <1>2, <1>3, <2>1, <2>2, <2>3
<1>4. CASE ~ m.replayed
  <2>1. PICK u \in Threads : job[u].op = "pose" /\ job[u].index = m.index /\ job[u].n = m.pose.n
    BY <1>4 DEF Sendable
  <2>2. /\ u = ThreadOf[m.pose.driver] /\ job[u].n <= updates
        /\ AtMost(m.pose.driver, m.pose.n)
    BY <1>1, <2>1 DEF PoseOrder, PendingNewest
  <2>3. \A t \in Threads : job[t].op = "pose" /\ trackers[job[t].index] = m.pose.driver => t = u
    BY <2>2 DEF PoseOrder, PendingNewest
  <2>4. QED  BY <1>1, <1>2, <2>1, <2>2, <2>3
<1>5. QED  BY <1>3, <1>4

LEMMA OrderHelper ==
  ASSUME PoseOrder, MainStep \/ (\E t \in Threads : FinishCall(t))
  PROVE  PoseOrder'
<1> USE DEF PoseOrder
<1>1. TypeOK' /\ toNative \in Seq(ToNative) /\ Len(toNative) \in Nat
  BY NextType DEF Next, TypeOK, LinkTypeOK
<1>2. /\ UNCHANGED <<slots, trackers, last_pose, updates, helper>> /\ Registered' = Registered
      /\ \/ toNative' = toNative
         \/ \E m : Sendable(m) /\ toNative' = Append(toNative, m)
  BY HelperSends DEF processVars, Registered, Transmit, Deliver
<1>3. ASSUME NEW d \in Drivers, NEW n \in Nat, AtMost(d, n),
             \A m : Sendable(m) /\ m.type = "TrackerPose" /\ m.pose.driver = d => m.pose.n <= n
      PROVE  AtMost(d, n)'
  <2>1. CASE toNative' = toNative
    BY <1>2, <1>3, <2>1 DEF AtMost
  <2>2. ASSUME NEW m, Sendable(m), toNative' = Append(toNative, m) PROVE AtMost(d, n)'
    <3>1. m \in ToNative
      BY <2>2 DEF Sendable
    <3>2. \A k \in 1..Len(toNative') :
            toNative'[k].type = "TrackerPose" /\ toNative'[k].pose.driver = d
              => toNative'[k].pose.n <= n
      <4> SUFFICES ASSUME NEW k \in 1..Len(toNative'), toNative'[k].type = "TrackerPose",
                          toNative'[k].pose.driver = d
                   PROVE  toNative'[k].pose.n <= n
        OBVIOUS
      <4>1. CASE k \in 1..Len(toNative)
        BY <1>1, <1>3, <2>2, <3>1, <4>1, QueueAppend DEF AtMost
      <4>2. CASE k \notin 1..Len(toNative)
        <5>1. k = Len(toNative) + 1 /\ toNative'[k] = m
          BY <1>1, <2>2, <3>1, <4>2, QueueAppend
        <5>2. QED  BY <1>3, <2>2, <5>1
      <4>3. QED  BY <4>1, <4>2
    <3>3. QED  BY <1>2, <1>3, <3>2 DEF AtMost
  <2>3. QED  BY <1>2, <2>1, <2>2
<1>4. \A t \in Threads : job[t].op = "pose" =>
        /\ job[t].index \in Registered /\ trackers[job[t].index] \in Drivers
        /\ job[t].n \in Nat
  BY JobFacts DEF TypeOK, TableTypeOK, Registered
<1>5. JobsKnown'
  <2>1. known \subseteq known'
    BY HelperJobs, ThreadAssumption
  <2>2. QED  BY <2>1, HelperJobs DEF JobsKnown
<1>6. Copies'
  <2>1. \A i \in Index : last_pose[i] <= last_pose[i]
    BY DEF TypeOK, TableTypeOK
  <2>2. ASSUME NEW t \in Threads, job'[t].op \in {"replay", "copy", "send"}
        PROVE  \A i \in Index : job'[t].poses[i] <= last_pose[i]
    <3>1. \/ job'[t].poses = last_pose
          \/ job[t].op \in {"replay", "copy", "send"} /\ job'[t].poses = job[t].poses
      BY <2>2, HelperJobs
    <3>2. QED  BY <2>1, <3>1 DEF Copies
  <2>3. QED  BY <1>2, <2>2 DEF Copies
<1>7. Unposed'
  BY <1>2 DEF Unposed
<1>8. NoneNewer'
  <2>1. updates \in Nat
    BY DEF TypeOK, TableTypeOK
  <2>2. ASSUME NEW d \in Drivers, NEW n \in Nat, n = updates PROVE AtMost(d, n)'
    BY <1>3, <2>2, SendableOrder DEF NoneNewer
  <2>3. QED  BY <1>2, <2>1, <2>2 DEF NoneNewer, AtMost
<1>9. PendingNewest'
  <2> SUFFICES ASSUME NEW t \in Threads, job'[t].op = "pose"
               PROVE  /\ t = ThreadOf[trackers[job'[t].index]] /\ job'[t].n <= updates
                      /\ AtMost(trackers[job[t].index], job[t].n)' /\ job'[t] = job[t]
    BY <1>2 DEF PendingNewest, AtMost
  <2>1. job'[t] = job[t]
    BY HelperJobs
  <2>2. AtMost(trackers[job[t].index], job[t].n)
    BY <2>1 DEF PendingNewest
  <2>3. \A m : Sendable(m) /\ m.type = "TrackerPose" /\ m.pose.driver = trackers[job[t].index]
                 => m.pose.n <= job[t].n
    BY <2>1, SendableOrder
  <2> DEFINE d == trackers[job[t].index]
             n == job[t].n
  <2>4. d \in Drivers /\ n \in Nat
    BY <1>4, <2>1
  <2>5. AtMost(trackers[job[t].index], job[t].n)'
    <3>1. trackers'[job'[t].index] = d /\ job'[t].n = n
      BY <1>2, <2>1
    <3>2. AtMost(d, n) /\ \A m : Sendable(m) /\ m.type = "TrackerPose" /\ m.pose.driver = d
                                   => m.pose.n <= n
      BY <2>2, <2>3
    <3> HIDE DEF d, n
    <3>3. \A e \in Drivers, p \in Nat : e = d /\ p = n => AtMost(e, p)'
      BY <1>3, <3>2
    <3>4. QED  BY <2>4, <3>1, <3>3 DEF AtMost
  <2>6. QED  BY <1>2, <2>1, <2>5 DEF PendingNewest
<1>10. LiveNewest'
  <2>1. CASE toNative' = toNative
    BY <1>2, <2>1 DEF LiveNewest
  <2>2. ASSUME NEW m, Sendable(m), toNative' = Append(toNative, m) PROVE LiveNewest'
    <3>1. m \in ToNative
      BY <2>2 DEF Sendable
    <3>2. /\ \A k \in 1..Len(toNative) : toNative'[k] = toNative[k]
          /\ toNative'[Len(toNative) + 1] = m /\ Len(toNative') = Len(toNative) + 1
      BY <1>1, <2>2, <3>1, QueueAppend
    <3> SUFFICES ASSUME NEW k \in 1..Len(toNative'), toNative'[k].type = "TrackerPose",
                        ~ toNative'[k].replayed
                 PROVE  /\ \A s \in Slot : slots[s].pose.driver = toNative'[k].pose.driver
                             => slots[s].pose.n <= toNative'[k].pose.n
                        /\ \A h \in 1..(k - 1) :
                             /\ toNative[h].type = "TrackerPose"
                             /\ toNative[h].pose.driver = toNative'[k].pose.driver
                             => toNative[h].pose.n <= toNative'[k].pose.n
      <4>1. \A k \in 1..Len(toNative'), h \in Nat :
              h \in 1..(k - 1) => toNative'[h] = toNative[h]
        BY <1>1, <3>2
      <4>2. QED  BY <1>2, <4>1 DEF LiveNewest
    <3>3. CASE k \in 1..Len(toNative)
      BY <3>2, <3>3 DEF LiveNewest
    <3>4. CASE k = Len(toNative) + 1
      <4>1. AtMost(m.pose.driver, m.pose.n)
        BY <2>2, <3>2, <3>4, SendableOrder
      <4>2. 1..(k - 1) = 1..Len(toNative)
        BY <1>1, <3>4
      <4>3. QED  BY <3>2, <3>4, <4>1, <4>2 DEF AtMost
    <3>5. QED  BY <1>1, <3>2, <3>3, <3>4
  <2>3. QED  BY <1>2, <2>1, <2>2
<1>11. QED  BY <1>1, <1>5, <1>6, <1>7, <1>8, <1>9, <1>10

\* A pose the DLL submits gets a number above all others; a driver it registers
\* has no pose yet, and its thread none pending.
LEMMA OrderCall ==
  ASSUME PoseOrder, CallStep
  PROVE  PoseOrder'
<1> USE DEF PoseOrder
<1>1. TypeOK' /\ UNCHANGED <<slots, toNative, helper>>
  BY NextType, OthersKeepSlots
  DEF Next, CallStep, TrackedDeviceAdded, TrackedDevicePoseUpdated, WriteProperty, linkVars,
      processVars
<1>2. /\ job \in [Threads -> Job] /\ trackers \in Seq(Drivers) /\ Len(trackers) \in Nat
      /\ updates \in Nat /\ last_pose \in [Index -> 0..MaxUpdates] /\ known \subseteq Registered
      /\ Registered \subseteq Index
  BY SizeAssumption DEF TypeOK, JobTypeOK, TableTypeOK, Registered, Index
<1>3. /\ \A t \in Threads : job[t].op = "pose" =>
           /\ job[t].index \in Registered /\ trackers[job[t].index] \in Drivers
           /\ job[t].n \in Nat
      /\ \A t \in Threads : job[t].op \in {"replay", "copy", "send"} =>
           job[t].poses \in [Index -> 0..MaxUpdates]
  BY <1>2, JobFacts DEF Registered, ReplayState
<1>4. LiveNewest'
  BY <1>1 DEF LiveNewest
<1>5. ASSUME NEW d \in Drivers, TrackedDeviceAdded(d) PROVE PoseOrder'
  <2> DEFINE u == ThreadOf[d]
  <2>1. /\ u \in Threads /\ trackers' = Append(trackers, d) /\ job[u] = Idle
        /\ UNCHANGED <<last_pose, updates, known>>
        /\ job' = [job EXCEPT ![u] = [op |-> "added", index |-> Len(trackers) + 1]]
    BY <1>5, ThreadAssumption DEF TrackedDeviceAdded, Goto
  <2>2. /\ Registered' = Registered \cup {Len(trackers) + 1}
        /\ \A i \in Registered : trackers'[i] = trackers[i]
        /\ trackers'[Len(trackers) + 1] = d /\ Len(trackers) + 1 \notin Registered
    BY <1>2, <2>1 DEF Registered
  <2>3. \A t \in Threads : job'[t].op \notin {"idle", "added"} => job'[t] = job[t] /\ t # u
    BY <1>2, <2>1 DEF Idle
  <2>4. Len(trackers) + 1 \in Index /\ last_pose[Len(trackers) + 1] = 0
    <3>1. Len(trackers') <= HelperCapacity /\ Len(trackers') = Len(trackers) + 1
      BY <1>1, <1>2, <2>1 DEF TypeOK, TableTypeOK
    <3>2. Len(trackers) + 1 \in Index
      BY <1>2, <3>1, SizeAssumption DEF Index
    <3>3. QED  BY <2>2, <3>2 DEF Unposed
  <2>5. ASSUME NEW e \in Drivers, NEW n \in Nat, AtMost(e, n) PROVE AtMost(e, n)'
    <3>1. \A i \in Registered' : trackers'[i] = e => last_pose[i] <= n
      <4>1. \A i \in Registered : trackers[i] = e => last_pose[i] <= n
        BY <2>5 DEF AtMost
      <4>2. 0 <= n
        OBVIOUS
      <4> HIDE DEF u
      <4>3. QED  BY <2>2, <2>4, <4>1, <4>2
    <3>2. last_pose' = last_pose
      BY <2>1
    <3>3. QED  BY <1>1, <2>5, <3>1, <3>2 DEF AtMost
  <2>6. JobsKnown' /\ Copies' /\ Unposed'
    BY <2>1, <2>2, <2>3 DEF JobsKnown, Copies, Unposed
  <2>7. NoneNewer'
    <3>1. ASSUME NEW e \in Drivers, NEW n \in Nat, n = updates PROVE AtMost(e, n)'
      BY <2>5, <3>1 DEF NoneNewer
    <3>2. QED  BY <1>2, <2>1, <3>1 DEF NoneNewer, AtMost
  <2>8. PendingNewest'
    <3> SUFFICES ASSUME NEW t \in Threads, job'[t].op = "pose"
                 PROVE  /\ t = ThreadOf[trackers'[job'[t].index]] /\ job'[t].n <= updates
                        /\ AtMost(trackers[job[t].index], job[t].n)'
      BY <2>1 DEF PendingNewest
    <3>1. job'[t] = job[t] /\ job[t].op = "pose"
      BY <2>3
    <3>2. trackers'[job[t].index] = trackers[job[t].index]
      BY <1>3, <2>2, <3>1
    <3>3. \A e \in Drivers, n \in Nat :
            e = trackers[job[t].index] /\ n = job[t].n => AtMost(e, n)'
      BY <2>5, <3>1 DEF PendingNewest
    <3>4. AtMost(trackers[job[t].index], job[t].n)'
      BY <1>3, <3>1, <3>2, <3>3 DEF AtMost
    <3>5. QED  BY <3>1, <3>2, <3>4 DEF PendingNewest
  <2>9. QED  BY <1>1, <1>4, <2>6, <2>7, <2>8
<1>6. ASSUME NEW i \in known, TrackedDevicePoseUpdated(i) PROVE PoseOrder'
  <2> DEFINE d == trackers[i]
             u == ThreadOf[d]
             j == [op |-> "pose", index |-> i, n |-> updates + 1]
  <2>1. /\ i \in Registered /\ d \in Drivers /\ u \in Threads /\ job[u] = Idle
        /\ UNCHANGED <<trackers, known>> /\ updates' = updates + 1
        /\ last_pose' = [last_pose EXCEPT ![i] = updates + 1]
        /\ job' = [job EXCEPT ![u] = j]
    BY <1>2, <1>6, ThreadAssumption DEF TrackedDevicePoseUpdated, Goto, Registered
  <2>2. Registered' = Registered
    BY <2>1 DEF Registered
  <2>3. \A t \in Threads : t # u => job'[t] = job[t]
    BY <1>2, <2>1
  <2>4. job'[u] = j
    BY <1>2, <2>1
  <2>5. \A h \in Index : last_pose[h] <= updates /\ last_pose[h] <= last_pose'[h]
    <3>1. \A h \in Index : last_pose[h] <= updates
      <4>1. \A h \in Registered : trackers[h] \in Drivers
        BY <1>2 DEF Registered
      <4>2. \A h \in Registered : last_pose[h] <= updates
        BY <4>1 DEF NoneNewer, AtMost
      <4>3. \A h \in Index \ Registered : last_pose[h] <= updates
        BY <1>2 DEF Unposed
      <4>4. QED  BY <4>2, <4>3
    <3>2. \A h \in Index : last_pose[h] <= updates + 1
      BY <1>2, <3>1
    <3>3. QED  BY <1>2, <2>1, <3>1, <3>2
  <2>6. JobsKnown' /\ Unposed'
    BY <1>2, <2>1, <2>2, <2>3, <2>4 DEF JobsKnown, Unposed
  <2>7. Copies'
    <3> SUFFICES ASSUME NEW t \in Threads, job'[t].op \in {"replay", "copy", "send"},
                        NEW h \in Index
                 PROVE  job'[t].poses[h] <= last_pose'[h]
      BY DEF Copies
    <3>1. t # u
      BY <2>4
    <3>2. job'[t] = job[t] /\ job[t].poses[h] <= last_pose[h] /\ job[t].poses[h] \in Nat
      BY <1>3, <2>3, <3>1, SizeAssumption DEF Copies
    <3>3. last_pose[h] \in Nat /\ last_pose'[h] \in Nat /\ last_pose[h] <= last_pose'[h]
      BY <1>2, <2>1, <2>5
    <3>4. QED  BY <3>2, <3>3
  <2>8. ASSUME NEW e \in Drivers, NEW n \in Nat, n = updates + 1 PROVE AtMost(e, n)'
    <3>1. AtMost(e, updates)
      BY DEF NoneNewer
    <3>2. /\ \A s \in Slot : slots[s].pose.driver = e => slots[s].pose.n <= n
          /\ \A k \in 1..Len(toNative) :
               toNative[k].type = "TrackerPose" /\ toNative[k].pose.driver = e
                 => toNative[k].pose.n <= n
      BY <1>2, <2>8, <3>1, PoseNumbers DEF AtMost
    <3>3. \A h \in Registered : last_pose'[h] <= n
      BY <1>2, <2>1, <2>5, <2>8
    <3>4. QED  BY <1>1, <2>1, <2>2, <3>2, <3>3 DEF AtMost
  <2>9. NoneNewer'
    BY <1>2, <2>1, <2>8 DEF NoneNewer, AtMost
  <2>10. PendingNewest'
    <3> SUFFICES ASSUME NEW t \in Threads, job'[t].op = "pose"
                 PROVE  /\ t = ThreadOf[trackers[job'[t].index]] /\ job'[t].n <= updates'
                        /\ AtMost(trackers[job[t].index], job[t].n)'
      BY <2>1 DEF PendingNewest
    <3>1. CASE t = u
      <4>1. job'[t].index = i /\ job'[t].n = updates + 1
        BY <2>4, <3>1
      <4>2. \A e \in Drivers, n \in Nat : e = d /\ n = updates + 1 => AtMost(e, n)'
        BY <2>8
      <4>3. AtMost(trackers[job[t].index], job[t].n)'
        BY <1>2, <2>1, <4>1, <4>2 DEF AtMost
      <4>4. QED  BY <1>2, <2>1, <3>1, <4>1, <4>3
    <3>2. CASE t # u
      <4>1. job'[t] = job[t] /\ job[t].op = "pose"
        BY <2>3, <3>2
      <4>2. t = ThreadOf[trackers[job[t].index]] /\ AtMost(trackers[job[t].index], job[t].n)
            /\ job[t].n <= updates
        BY <4>1 DEF PendingNewest
      <4>3. trackers[job[t].index] # d
        BY <3>2, <4>2
      <4>4. \A h \in Registered : trackers[h] = trackers[job[t].index] =>
              last_pose'[h] = last_pose[h]
        BY <1>2, <2>1, <4>3
      <4>5. AtMost(trackers[job[t].index], job[t].n)'
        BY <1>1, <2>1, <2>2, <4>1, <4>2, <4>4 DEF AtMost
      <4>6. QED  BY <1>2, <1>3, <2>1, <4>1, <4>2, <4>5
    <3>3. QED  BY <3>1, <3>2
  <2>11. QED  BY <1>1, <1>4, <2>6, <2>7, <2>9, <2>10
<1>7. ASSUME NEW i \in known, NEW p \in Props, NEW w \in Write, WriteProperty(i, p, w)
      PROVE  PoseOrder'
  <2> DEFINE u == ThreadOf[trackers[i]]
             j == [op |-> "property", index |-> i, prop |-> p, write |-> w]
  <2>1. /\ u \in Threads /\ UNCHANGED <<trackers, last_pose, known>> /\ updates' = updates + 1
        /\ job' = [job EXCEPT ![u] = j]
    BY <1>2, <1>7, ThreadAssumption DEF WriteProperty, Goto, Registered
  <2>2. Registered' = Registered
    BY <2>1 DEF Registered
  <2>3. job'[u] = j /\ \A t \in Threads : t # u => job'[t] = job[t]
    BY <1>2, <2>1
  <2>4. JobsKnown' /\ Unposed' /\ Copies'
    BY <2>1, <2>2, <2>3 DEF JobsKnown, Unposed, Copies
  <2>5. ASSUME NEW e \in Drivers, NEW n \in Nat, AtMost(e, n) PROVE AtMost(e, n)'
    BY <1>1, <2>1, <2>2, <2>5 DEF AtMost
  <2>6. NoneNewer'
    <3>1. ASSUME NEW e \in Drivers, NEW n \in Nat, n = updates + 1 PROVE AtMost(e, n)'
      <4>1. AtMost(e, updates)
        BY DEF NoneNewer
      <4>2. \A h \in Registered : last_pose[h] \in Nat
        BY <1>2, SizeAssumption
      <4>3. AtMost(e, n)
        BY <1>2, <3>1, <4>1, <4>2, PoseNumbers DEF AtMost
      <4>4. QED  BY <2>5, <4>3
    <3>2. QED  BY <1>2, <2>1, <3>1 DEF NoneNewer, AtMost
  <2>7. PendingNewest'
    <3> SUFFICES ASSUME NEW t \in Threads, job'[t].op = "pose"
                 PROVE  /\ t = ThreadOf[trackers[job'[t].index]] /\ job'[t].n <= updates'
                        /\ AtMost(trackers[job[t].index], job[t].n)'
      BY <2>1 DEF PendingNewest
    <3>1. job'[t] = job[t] /\ job[t].op = "pose"
      BY <2>3
    <3>2. /\ t = ThreadOf[trackers[job[t].index]] /\ job[t].n <= updates
          /\ AtMost(trackers[job[t].index], job[t].n)
      BY <3>1 DEF PendingNewest
    <3>3. AtMost(trackers[job[t].index], job[t].n)'
      BY <1>1, <2>1, <2>2, <3>1, <3>2 DEF AtMost
    <3>4. QED  BY <1>2, <1>3, <2>1, <3>1, <3>2, <3>3
  <2>8. QED  BY <1>1, <1>4, <2>4, <2>6, <2>7
<1>8. QED  BY <1>5, <1>6, <1>7 DEF CallStep

LEMMA NextOrder ==
  ASSUME PoseOrder, [Next]_vars
  PROVE  PoseOrder'
<1>1. TypeOK'
  BY NextType DEF PoseOrder
<1>2. ASSUME UNCHANGED <<slots, toNative, trackers, last_pose, known, updates, job>>
      PROVE  PoseOrder'
  BY <1>1, <1>2 DEF PoseOrder, JobsKnown, Copies, Unposed, NoneNewer, PendingNewest,
                    LiveNewest, AtMost, Registered
<1>3. CASE UNCHANGED vars
  BY <1>2, <1>3 DEF vars, linkVars, tableVars
<1>4. CASE SteamStep
  BY <1>2, <1>4 DEF SteamStep, Activate, Deactivate, linkVars, tableVars
<1>5. CASE ProcessStep
  <2>1. CASE \E s \in launches : HelperStart(s)
    BY <1>2, <2>1 DEF HelperStart, tableVars
  <2>2. CASE HelperStop
    <3>1. UNCHANGED <<slots, toNative, updates>> /\ trackers' = <<>> /\ Registered' = {}
      BY <2>2 DEF HelperStop, Registered
    <3>2. \A t \in Threads : job'[t] = Idle
      BY <2>2 DEF HelperStop
    <3>3. JobsKnown' /\ Copies' /\ PendingNewest' /\ LiveNewest'
      BY <3>1, <3>2 DEF PoseOrder, JobsKnown, Copies, PendingNewest, LiveNewest, Idle
    <3>4. Unposed' /\ NoneNewer'
      BY <2>2, <3>1 DEF PoseOrder, HelperStop, Unposed, NoneNewer, AtMost
    <3>5. QED  BY <1>1, <3>3, <3>4 DEF PoseOrder
  <2>3. QED  BY <1>5, <2>1, <2>2 DEF ProcessStep
<1>6. QED
  BY <1>3, <1>4, <1>5, OrderNative, OrderHelper, OrderCall DEF Next

LEMMA InitOrder == Init => PoseOrder
<1> SUFFICES ASSUME Init PROVE PoseOrder  OBVIOUS
<1>1. /\ \A t \in Threads : job[t].op = "idle"
      /\ \A s \in Slot : slots[s].pose = Disconnected
      /\ toNative = <<>> /\ Registered = {} /\ updates = 0
      /\ last_pose = [i \in Index |-> 0]
  BY DEF Init, EmptySlot, Idle, Registered
<1>2. \A d \in Drivers, n \in Nat : AtMost(d, n)
  BY <1>1, DriverAssumption DEF AtMost, Disconnected
<1>3. QED
  BY <1>1, <1>2, InitType DEF PoseOrder, JobsKnown, Copies, Unposed, NoneNewer,
                              PendingNewest, LiveNewest

LEMMA Order == Spec => []PoseOrder
  BY InitOrder, NextOrder, PTL DEF Spec

\* TrackedDevicePoseUpdated's own datagrams never take a relay object back to an
\* older pose of the same tracker, whatever is lost, replayed or restarted:
\* only ReplayTrackers' copy can.
THEOREM LiveOrder == Spec => LivePosesInOrder
<1>1. ASSUME PoseOrder, PoseOrder', Next, NEW s \in Slot, slots[s].pose # Disconnected,
             slots'[s].pose.driver = slots[s].pose.driver,
             slots'[s].pose.n < slots[s].pose.n
      PROVE  Head(toNative).replayed
  <2>1. slots[s].pose.driver # NoDriver /\ slots[s].pose.n \in Nat
    BY <1>1, PoseNumbers, DriverAssumption, SizeAssumption DEF PoseOrder, Pose, Disconnected
  <2>2. slots'[s].pose # slots[s].pose /\ slots'[s].pose # Disconnected
    BY <1>1, <2>1 DEF Disconnected
  <2>3. NativeStep
    BY <1>1, <2>2, OthersKeepSlots DEF Next, SteamStep, Activate, Deactivate
  <2>4. /\ toNative # <<>> /\ Head(toNative).type = "TrackerPose"
        /\ slots'[s].pose = Head(toNative).pose
    BY <1>1, <2>2, <2>3, NativePoses DEF PoseOrder
  <2>5. Head(toNative) = toNative[1] /\ 1 \in 1..Len(toNative) /\ toNative[1].pose \in Pose
    BY <1>1, <2>4, QueueTail, PoseNumbers DEF PoseOrder, TypeOK, LinkTypeOK
  <2>6. ~ Head(toNative).replayed => slots[s].pose.n <= Head(toNative).pose.n
    BY <1>1, <2>4, <2>5 DEF PoseOrder, LiveNewest
  <2>7. Head(toNative).pose.n \in Nat
    BY <1>1, <2>5, PoseNumbers, SizeAssumption DEF PoseOrder
  <2>8. QED  BY <1>1, <2>1, <2>4, <2>6, <2>7
<1>2. ASSUME PoseOrder, PoseOrder', [Next]_vars
      PROVE  [\A s \in Slot :
                /\ slots[s].pose # Disconnected
                /\ slots'[s].pose.driver = slots[s].pose.driver
                /\ slots'[s].pose.n < slots[s].pose.n
                => Head(toNative).replayed]_vars
  BY <1>1, <1>2
<1>3. QED  BY <1>2, Order, PTL DEF Spec, LivePosesInOrder

-----------------------------------------------------------------------------
(* Whose poses a relay object carries.  The datagrams name a tracker only  *)
(* by its index, so what matters is that an index always stands for one    *)
(* serial: f[i] here.  That is so as long as every run of the helper has   *)
(* its trackers registered in one order, and in the first session at least.*)

SameOrder(f) == \A i \in Registered : SerialOf[trackers[i]] = f[i]

Follows(f) ==
  /\ \A s \in Slot : slots[s].configured =>
       /\ slots[s].serial = f[slots[s].remote]
       /\ slots[s].pose # Disconnected => SerialOf[slots[s].pose.driver] = slots[s].serial
  /\ \A k \in 1..Len(toNative) :
       /\ toNative[k].type = "TrackerAdded" => toNative[k].serial = f[toNative[k].index]
       /\ toNative[k].type = "TrackerPose"
            => SerialOf[toNative[k].pose.driver] = f[toNative[k].index]

LEMMA FollowsOwn ==
  ASSUME RelaySafety, NEW f, Follows(f)
  PROVE  PoseFromOwnTracker
  BY DEF RelaySafety, SlotsWellFormed, Follows, PoseFromOwnTracker

\* As long as the table agrees with f, so does all that is sent and relayed.
LEMMA NextFollows ==
  ASSUME PoseOrder, NEW f, SameOrder(f), Follows(f), [Next]_vars
  PROVE  Follows(f)'
<1>1. TypeOK /\ toNative \in Seq(ToNative)
  BY DEF PoseOrder, TypeOK, LinkTypeOK
<1>2. ASSUME UNCHANGED <<slots, toNative>> PROVE Follows(f)'
  BY <1>2 DEF Follows
<1>3. CASE NativeStep
  <2>1. /\ toNative # <<>> /\ Head(toNative).type = "TrackerAdded"
             => Head(toNative).serial = f[Head(toNative).index]
        /\ toNative # <<>> /\ Head(toNative).type = "TrackerPose"
             => SerialOf[Head(toNative).pose.driver] = f[Head(toNative).index]
    BY <1>1, QueueTail DEF Follows
  <2>2. \A s \in Slot : slots'[s].configured =>
          /\ slots'[s].serial = f[slots'[s].remote]
          /\ slots'[s].pose # Disconnected => SerialOf[slots'[s].pose.driver] = slots'[s].serial
    <3> SUFFICES ASSUME NEW s \in Slot, slots'[s].configured
                 PROVE  /\ slots'[s].serial = f[slots'[s].remote]
                        /\ slots'[s].pose # Disconnected
                             => SerialOf[slots'[s].pose.driver] = slots'[s].serial
      OBVIOUS
    <3>1. CASE /\ slots'[s].configured = slots[s].configured
               /\ slots'[s].remote = slots[s].remote
               /\ slots'[s].serial = slots[s].serial
               /\ slots'[s].pose \in {slots[s].pose, Disconnected}
      BY <3>1 DEF Follows
    <3>2. CASE /\ OnTrackerAdded
               /\ slots'[s].remote = Head(toNative).index
               /\ slots'[s].serial = Head(toNative).serial
               /\ slots'[s].pose = Disconnected
      BY <2>1, <3>2 DEF OnTrackerAdded, Take
    <3>3. CASE /\ OnTrackerPose
               /\ slots[s].configured
               /\ slots[s].remote = Head(toNative).index
               /\ slots'[s].remote = slots[s].remote
               /\ slots'[s].serial = slots[s].serial
               /\ slots'[s].pose = Head(toNative).pose
      BY <2>1, <3>3 DEF OnTrackerPose, Take, Follows
    <3>4. QED  BY <1>1, <1>3, <3>1, <3>2, <3>3, NativeSlots
  <2>3. CASE toNative' = toNative
    BY <2>2, <2>3 DEF Follows
  <2>4. CASE toNative' = <<>>
    BY <2>2, <2>4 DEF Follows
  <2>5. CASE toNative # <<>> /\ toNative' = Tail(toNative)
    <3>1. \A k \in 1..Len(toNative') :
            /\ toNative'[k].type = "TrackerAdded" => toNative'[k].serial = f[toNative'[k].index]
            /\ toNative'[k].type = "TrackerPose"
                 => SerialOf[toNative'[k].pose.driver] = f[toNative'[k].index]
      BY <1>1, <2>5, QueueTail DEF Follows
    <3>2. QED  BY <2>2, <3>1 DEF Follows
  <2>6. QED  BY <1>3, <2>3, <2>4, <2>5, NativeEffect
<1>4. CASE MainStep \/ (\E t \in Threads : FinishCall(t))
  <2>1. /\ UNCHANGED slots
        /\ toNative' = toNative \/ \E m : Sendable(m) /\ toNative' = Append(toNative, m)
    BY <1>4, HelperSends DEF PoseOrder, Transmit, Deliver
  <2>2. ASSUME NEW m, Sendable(m), toNative' = Append(toNative, m) PROVE Follows(f)'
    <3>1. /\ m.type = "TrackerAdded" => m.serial = f[m.index]
          /\ m.type = "TrackerPose" => SerialOf[m.pose.driver] = f[m.index]
      BY <2>2 DEF Sendable, SameOrder
    <3>2. /\ Len(toNative') = Len(toNative) + 1 /\ toNative'[Len(toNative) + 1] = m
          /\ \A k \in 1..Len(toNative) : toNative'[k] = toNative[k]
          /\ \A k \in 1..Len(toNative') : k \in 1..Len(toNative) \/ k = Len(toNative) + 1
      BY <1>1, <2>2, QueueAppend DEF Sendable
    <3>3. \A k \in 1..Len(toNative') :
            /\ toNative'[k].type = "TrackerAdded" => toNative'[k].serial = f[toNative'[k].index]
            /\ toNative'[k].type = "TrackerPose"
                 => SerialOf[toNative'[k].pose.driver] = f[toNative'[k].index]
      BY <3>1, <3>2 DEF Follows
    <3>4. QED  BY <2>1, <3>3 DEF Follows
  <2>3. QED  BY <1>2, <2>1, <2>2
<1>5. CASE SteamStep \/ ProcessStep \/ CallStep \/ UNCHANGED vars
  <2>1. UNCHANGED <<slots, toNative>>
    BY <1>5 DEF SteamStep, Activate, Deactivate, ProcessStep, HelperStart, HelperStop, CallStep,
                TrackedDeviceAdded, TrackedDevicePoseUpdated, WriteProperty, linkVars, vars
  <2>2. QED  BY <1>2, <2>1
<1>6. QED  BY <1>3, <1>4, <1>5 DEF Next

\* If the original DLL registers its trackers in the same order in every run of
\* the helper, a relay object only ever carries poses of its own tracker, across
\* any number of sessions, crashes and losses.
THEOREM OwnPosesIfSameOrder ==
  ASSUME NEW CONSTANT SerialAt
  PROVE  Spec /\ []SameOrder(SerialAt) => []PoseFromOwnTracker
<1>1. Init => Follows(SerialAt)
  BY DEF Init, EmptySlot, Follows
<1>2. PoseOrder /\ SameOrder(SerialAt) /\ Follows(SerialAt) /\ [Next]_vars
        => Follows(SerialAt)'
  BY NextFollows
<1>3. RelaySafety /\ Follows(SerialAt) => PoseFromOwnTracker
  BY FollowsOwn
<1>4. QED  BY <1>1, <1>2, <1>3, Order, Safety, PTL DEF Spec

\* The first session has at most one helper, and until that one ends every index
\* relayed or in flight is one of its own.
FirstSession ==
  session <= 1 =>
    /\ launches \subseteq {1}
    /\ session = 0 => launches = {} /\ helper = 0
    /\ helper # 0 => launches = {}
    /\ \/ session = 1 /\ helper = 0 /\ launches = {}
       \/ /\ \A s \in Slot : slots[s].configured => slots[s].remote \in Registered
          /\ \A k \in 1..Len(toNative) :
               toNative[k].type # "Heartbeat" => toNative[k].index \in Registered
    /\ \E f \in [Index -> Serials \cup {NoSerial}] : SameOrder(f) /\ Follows(f)

LEMMA NextFirstSession ==
  ASSUME PoseOrder, FirstSession, [Next]_vars
  PROVE  FirstSession'
<1> SUFFICES ASSUME session' <= 1 PROVE FirstSession'
  BY DEF FirstSession
<1> DEFINE Gone == session = 1 /\ helper = 0 /\ launches = {}
           Own == /\ \A s \in Slot : slots[s].configured => slots[s].remote \in Registered
                  /\ \A k \in 1..Len(toNative) :
                       toNative[k].type # "Heartbeat" => toNative[k].index \in Registered
           One == /\ launches \subseteq {1}
                  /\ session = 0 => launches = {} /\ helper = 0
                  /\ helper # 0 => launches = {}
           Agreed == \E f \in [Index -> Serials \cup {NoSerial}] : SameOrder(f) /\ Follows(f)
<1>1. TypeOK /\ toNative \in Seq(ToNative) /\ session \in Nat /\ session' \in Nat
  <2>1. TypeOK'
    BY NextType DEF PoseOrder
  <2>2. QED  BY <2>1 DEF PoseOrder, TypeOK, LinkTypeOK, NativeTypeOK
<1>2. session' = session \/ NativeInit
  <2>1. CASE NativeStep
    BY <2>1 DEF NativeStep, Cleanup, SendHello, CheckHelperTimeout, Receive, RejectDatagram,
       OnHeartbeat, OnTrackerAdded, OnTrackerProperty, OnTrackerPose, Take, nativeVars
  <2>2. CASE SteamStep \/ UNCHANGED vars
    BY <2>2 DEF SteamStep, Activate, Deactivate, nativeVars, vars
  <2>3. QED  BY <2>1, <2>2, OthersKeepSlots DEF Next, nativeVars
<1>3. session <= 1
  BY <1>1, <1>2 DEF NativeInit
<1>4. One /\ (Gone \/ Own) /\ Agreed
  BY <1>3 DEF FirstSession
<1>5. ASSUME One', Gone' \/ Own', Agreed' PROVE FirstSession'
  BY <1>5 DEF FirstSession
<1>6. ASSUME UNCHANGED trackers PROVE Agreed'
  <2>1. PICK f \in [Index -> Serials \cup {NoSerial}] : SameOrder(f) /\ Follows(f)
    BY <1>4
  <2>2. Follows(f)' /\ SameOrder(f)'
    BY <1>6, <2>1, NextFollows DEF SameOrder, Registered
  <2>3. QED  BY <2>2
<1>7. ASSUME UNCHANGED <<session, helper, launches>> PROVE One' /\ (Gone => Gone')
  BY <1>4, <1>7
<1>8. CASE NativeStep
  <2>1. UNCHANGED <<trackers, helper>> /\ Registered' = Registered
    BY <1>8, NativeEffect DEF tableVars, Registered
  <2>2. ASSUME Own PROVE Own'
    <3>1. \A s \in Slot : slots'[s].configured => slots'[s].remote \in Registered
      <4> SUFFICES ASSUME NEW s \in Slot, slots'[s].configured
                   PROVE  slots'[s].remote \in Registered
        OBVIOUS
      <4>1. CASE slots'[s].configured = slots[s].configured /\ slots'[s].remote = slots[s].remote
        BY <2>2, <4>1
      <4>2. CASE OnTrackerAdded /\ slots'[s].remote = Head(toNative).index
        BY <1>1, <2>2, <4>2, QueueTail DEF OnTrackerAdded, Take
      <4>3. CASE slots[s].configured /\ slots'[s].remote = slots[s].remote
        BY <2>2, <4>3
      <4>4. QED  BY <1>1, <1>8, <4>1, <4>2, <4>3, NativeSlots
    <3>2. \A k \in 1..Len(toNative') :
            toNative'[k].type # "Heartbeat" => toNative'[k].index \in Registered
      BY <1>1, <1>8, <2>2, NativeEffect, QueueTail
    <3>3. QED  BY <2>1, <3>1, <3>2
  <2>3. CASE NativeInit
    <3>1. session = 0 /\ session' = 1 /\ launches' = launches \cup {1}
      BY <1>1, <2>3 DEF NativeInit
    <3>2. One'
      BY <1>4, <2>1, <3>1
    <3>3. QED  BY <1>4, <1>5, <1>6, <2>1, <2>2, <3>1, <3>2
  <2>4. CASE ~ NativeInit
    <3>1. UNCHANGED <<session, helper, launches>>
      BY <1>2, <1>8, <2>1, <2>4 DEF NativeStep, Cleanup, SendHello, CheckHelperTimeout, Receive,
         RejectDatagram, OnHeartbeat, OnTrackerAdded, OnTrackerProperty, OnTrackerPose, Take,
         processVars
    <3>2. QED  BY <1>4, <1>5, <1>6, <1>7, <2>1, <2>2, <3>1
  <2>5. QED  BY <2>3, <2>4
<1>9. CASE MainStep \/ (\E t \in Threads : FinishCall(t))
  <2>1. /\ UNCHANGED <<slots, trackers, session, helper, launches>> /\ Registered' = Registered
        /\ toNative' = toNative \/ \E m : Sendable(m) /\ toNative' = Append(toNative, m)
    BY <1>9, HelperSends DEF PoseOrder, nativeVars, processVars, Registered, Transmit, Deliver
  <2>2. ASSUME Own, NEW m, Sendable(m), toNative' = Append(toNative, m) PROVE Own'
    <3>1. /\ Len(toNative') = Len(toNative) + 1 /\ toNative'[Len(toNative) + 1] = m
          /\ \A k \in 1..Len(toNative) : toNative'[k] = toNative[k]
          /\ \A k \in 1..Len(toNative') : k \in 1..Len(toNative) \/ k = Len(toNative) + 1
      BY <1>1, <2>2, QueueAppend DEF Sendable
    <3>2. QED  BY <2>1, <2>2, <3>1 DEF Sendable
  <2>3. Own => Own'
    BY <2>1, <2>2
  <2>4. QED  BY <1>4, <1>5, <1>6, <1>7, <2>1, <2>3
<1>10. CASE CallStep
  <2>1. /\ UNCHANGED <<slots, toNative, session, helper, launches>> /\ helper # 0
        /\ UNCHANGED trackers \/ \E d \in Drivers : TrackedDeviceAdded(d)
    <3>1. UNCHANGED <<slots, toNative, session, helper, launches>>
      BY <1>10, OthersKeepSlots
      DEF CallStep, TrackedDeviceAdded, TrackedDevicePoseUpdated, WriteProperty, linkVars,
          nativeVars, processVars
    <3>2. helper # 0
      <4>1. helper = 0 => Registered = {} /\ known = {}
        BY <1>1 DEF TypeOK, TableTypeOK, Registered
      <4>2. QED  BY <1>10, <4>1 DEF CallStep, TrackedDeviceAdded
    <3>3. QED
      BY <1>10, <3>1, <3>2 DEF CallStep, TrackedDevicePoseUpdated, WriteProperty
  <2>2. Own
    BY <1>4, <2>1
  <2>3. CASE UNCHANGED trackers
    BY <1>4, <1>5, <1>6, <1>7, <2>1, <2>2, <2>3 DEF Registered
  <2>4. ASSUME NEW d \in Drivers, TrackedDeviceAdded(d) PROVE FirstSession'
    <3> DEFINE i == Len(trackers) + 1
    <3>1. /\ trackers' = Append(trackers, d) /\ trackers \in Seq(Drivers)
          /\ Len(trackers) \in Nat /\ i \in Index
      BY <1>1, <2>4, SizeAssumption DEF TrackedDeviceAdded, TypeOK, TableTypeOK, Index
    <3>2. /\ Registered' = Registered \cup {i} /\ i \notin Registered
          /\ trackers'[i] = d /\ \A j \in Registered : trackers'[j] = trackers[j]
      BY <3>1 DEF Registered
    <3>3. Own'
      BY <2>1, <2>2, <3>2
    <3>4. PICK f \in [Index -> Serials \cup {NoSerial}] : SameOrder(f) /\ Follows(f)
      BY <1>4
    <3>5. PICK g \in [Index -> Serials \cup {NoSerial}] :
            g[i] = SerialOf[d] /\ \A j \in Registered : g[j] = f[j]
      <4> DEFINE h == [f EXCEPT ![i] = SerialOf[d]]
      <4>1. Registered \subseteq Index
        BY <1>1, SizeAssumption DEF TypeOK, TableTypeOK, Registered, Index
      <4>2. SerialOf[d] \in Serials
        BY DriverAssumption
      <4>3. /\ h \in [Index -> Serials \cup {NoSerial}]
            /\ h[i] = SerialOf[d] /\ \A j \in Registered : h[j] = f[j]
        BY <3>1, <3>2, <4>1, <4>2
      <4>4. QED  BY <4>3
    <3> HIDE DEF i
    <3>6. \A j \in Registered' : SerialOf[trackers'[j]] = g[j]
      BY <3>2, <3>4, <3>5 DEF SameOrder
    <3>7. /\ \A s \in Slot : slots[s].configured =>
               /\ slots[s].serial = g[slots[s].remote]
               /\ slots[s].pose # Disconnected
                    => SerialOf[slots[s].pose.driver] = slots[s].serial
          /\ \A k \in 1..Len(toNative) :
               /\ toNative[k].type = "TrackerAdded" => toNative[k].serial = g[toNative[k].index]
               /\ toNative[k].type = "TrackerPose"
                    => SerialOf[toNative[k].pose.driver] = g[toNative[k].index]
      BY <2>2, <3>4, <3>5 DEF Follows
    <3>8. SameOrder(g)' /\ Follows(g)'
      BY <2>1, <3>6, <3>7 DEF SameOrder, Follows
    <3>9. Agreed'
      BY <3>5, <3>8
    <3>10. QED  BY <1>5, <1>7, <2>1, <3>3, <3>9
  <2>5. QED  BY <2>1, <2>3, <2>4
<1>11. CASE ProcessStep
  <2>1. CASE HelperStop
    <3>1. /\ UNCHANGED <<slots, toNative, session, launches>> /\ helper # 0 /\ helper' = 0
          /\ trackers' = <<>> /\ Registered' = {}
      BY <2>1 DEF HelperStop, nativeVars, Registered
    <3>2. One' /\ Gone'
      BY <1>1, <1>3, <1>4, <3>1
    <3>3. Agreed'
      <4>1. PICK f \in [Index -> Serials \cup {NoSerial}] : Follows(f)
        BY <1>4
      <4>2. Follows(f)' /\ SameOrder(f)'
        BY <3>1, <4>1 DEF Follows, SameOrder
      <4>3. QED  BY <4>2
    <3>4. QED  BY <1>5, <3>2, <3>3
  <2>2. ASSUME NEW s \in launches, HelperStart(s) PROVE FirstSession'
    <3>1. /\ UNCHANGED <<slots, toNative, session, trackers>> /\ Registered' = Registered
          /\ launches' = launches \ {s}
      BY <2>2 DEF HelperStart, nativeVars, tableVars, Registered
    <3>2. launches' = {} /\ session # 0 /\ Own
      BY <1>4, <2>2, <3>1
    <3>3. One' /\ Own'
      BY <3>1, <3>2
    <3>4. QED  BY <1>5, <1>6, <3>1, <3>3
  <2>3. QED  BY <1>11, <2>1, <2>2 DEF ProcessStep
<1>12. CASE SteamStep \/ UNCHANGED vars
  <2>1. UNCHANGED <<slots, toNative, session, helper, launches, trackers>>
    BY <1>12 DEF SteamStep, Activate, Deactivate, linkVars, nativeVars, tableVars, processVars,
                 vars
  <2>2. Own => Own'
    BY <2>1 DEF Registered
  <2>3. QED  BY <1>4, <1>5, <1>6, <1>7, <2>1, <2>2
<1>13. QED  BY <1>8, <1>9, <1>10, <1>11, <1>12 DEF Next

\* In the first session no order has to be assumed: a relay object only ever
\* carries poses the DLL computed for the tracker with that serial.
THEOREM OwnPosesFirstSession == Spec => []PoseFromOwnTrackerAtFirst
<1>1. Init => FirstSession
  <2> SUFFICES ASSUME Init PROVE FirstSession  OBVIOUS
  <2> DEFINE f == [i \in Index |-> NoSerial]
  <2>1. \A s \in Slot : ~ slots[s].configured
    BY DEF Init, EmptySlot
  <2>2. f \in [Index -> Serials \cup {NoSerial}] /\ SameOrder(f) /\ Follows(f)
    BY <2>1 DEF Init, SameOrder, Follows, Registered
  <2>3. QED  BY <2>1, <2>2 DEF Init, FirstSession
<1>2. PoseOrder /\ FirstSession /\ [Next]_vars => FirstSession'
  BY NextFirstSession
<1>3. RelaySafety /\ FirstSession => PoseFromOwnTrackerAtFirst
  BY FollowsOwn DEF FirstSession, PoseFromOwnTrackerAtFirst
<1>4. QED  BY <1>1, <1>2, <1>3, Order, Safety, PTL DEF Spec

-----------------------------------------------------------------------------
(* No update without its relay object.  TrackedDeviceAdded sends the       *)
(* announcement before the DLL learns the index, and the loopback link     *)
(* keeps the order, so with nothing lost whatever update is in flight      *)
(* finds the tracker announced ahead of it or relayed already.  That needs *)
(* a free slot for each new serial, and trackers with serials of their own.*)

\* A helper carries a session no other one will, and so do its datagrams.
SessionsKept ==
  /\ launches \subseteq 1..session
  /\ helper <= session
  /\ helper \notin launches
  /\ \A k \in 1..Len(toNative) :
       toNative[k].session <= session /\ toNative[k].session \notin launches

RegisteredOnce == \A i, j \in Registered : trackers[i] = trackers[j] => i = j
SlotsRegistered ==
  /\ IsFiniteSet(registered)
  /\ \A s \in Slot : slots[s].configured => slots[s].serial \in registered

\* The native driver listens to this helper, nothing was lost, and no more
\* serials were ever registered than there are slots, which are never freed.
Attached == /\ initialized
            /\ helper = session
            /\ losses = 0
            /\ Cardinality(registered) <= NumSlots

HasRelay(i) == \E s \in Slot : /\ slots[s].configured
                               /\ slots[s].serial = SerialOf[trackers[i]]
                               /\ slots[s].remote = i
Underway(i, n) == \E h \in 1..n : /\ toNative[h].type = "TrackerAdded"
                                  /\ toNative[h].session = session
                                  /\ toNative[h].index = i

OwnAnnouncements ==
  \A k \in 1..Len(toNative) :
    toNative[k].session = session /\ toNative[k].type = "TrackerAdded" =>
      /\ toNative[k].index \in Registered
      /\ toNative[k].serial = SerialOf[trackers[toNative[k].index]]
AnnouncedFirst ==
  \A i \in Registered : OnceAnnounced(i) => HasRelay(i) \/ Underway(i, Len(toNative))
UpdatesBehind ==
  \A k \in 1..Len(toNative) :
    toNative[k].session = session /\ toNative[k].type \in {"TrackerProperty", "TrackerPose"} =>
      /\ toNative[k].index \in Registered
      /\ HasRelay(toNative[k].index) \/ Underway(toNative[k].index, k - 1)

RelayReady ==
  /\ PoseOrder
  /\ RelaySafety
  /\ AnnouncementsRegistered
  /\ SessionsKept
  /\ RegisteredOnce
  /\ SlotsRegistered
  /\ Attached => OwnAnnouncements /\ AnnouncedFirst /\ UpdatesBehind

DistinctSerials == \A d, e \in Drivers : SerialOf[d] = SerialOf[e] => d = e

\* What may be appended: nothing, or one datagram of this helper.
LEMMA HelperAppends ==
  ASSUME PoseOrder, MainStep \/ (\E t \in Threads : FinishCall(t))
  PROVE  toNative' = toNative \/ \E m : /\ Sendable(m) /\ toNative' = Append(toNative, m)
                                        /\ Len(toNative') = Len(toNative) + 1
                                        /\ toNative'[Len(toNative) + 1] = m
                                        /\ \A k \in 1..Len(toNative) : toNative'[k] = toNative[k]
                                        /\ \A k \in 1..Len(toNative') :
                                             k \in 1..Len(toNative) \/ k = Len(toNative) + 1
<1>1. toNative' = toNative \/ \E m : Sendable(m) /\ toNative' = Append(toNative, m)
  BY HelperSends DEF PoseOrder, Transmit, Deliver
<1>2. toNative \in Seq(ToNative)
  BY DEF PoseOrder, TypeOK, LinkTypeOK
<1>3. ASSUME NEW m, Sendable(m), toNative' = Append(toNative, m)
      PROVE  /\ Len(toNative') = Len(toNative) + 1
             /\ toNative'[Len(toNative) + 1] = m
             /\ \A k \in 1..Len(toNative) : toNative'[k] = toNative[k]
             /\ \A k \in 1..Len(toNative') : k \in 1..Len(toNative) \/ k = Len(toNative) + 1
  BY <1>2, <1>3, QueueAppend DEF Sendable
<1>4. QED  BY <1>1, <1>3

LEMMA NextSessions ==
  ASSUME PoseOrder, SessionsKept, [Next]_vars
  PROVE  SessionsKept'
<1>1. /\ toNative \in Seq(ToNative) /\ session \in Nat /\ helper \in Nat
      /\ \A k \in 1..Len(toNative) : toNative[k].session \in Nat
  <2>1. /\ toNative \in Seq(ToNative) /\ session \in Nat /\ helper \in Nat
    BY DEF PoseOrder, TypeOK, LinkTypeOK, NativeTypeOK, TableTypeOK
  <2>2. \A m \in ToNative : m.session \in Nat
    BY DEF ToNative, Session
  <2>3. QED  BY <2>1, <2>2
<1>2. CASE NativeStep
  <2>1. helper' = helper
    BY <1>2, NativeEffect
  <2>2. CASE NativeInit
    <3>1. session' = session + 1 /\ launches' = launches \cup {session + 1} /\ toNative' = <<>>
      BY <2>2 DEF NativeInit
    <3>2. QED  BY <1>1, <2>1, <3>1 DEF SessionsKept
  <2>3. CASE ~ NativeInit
    <3>1. UNCHANGED <<session, launches>>
      BY <1>2, <2>3 DEF NativeStep, Cleanup, SendHello, CheckHelperTimeout, Receive,
         RejectDatagram, OnHeartbeat, OnTrackerAdded, OnTrackerProperty, OnTrackerPose, Take,
         processVars, nativeVars
    <3>2. \A k \in 1..Len(toNative') :
            toNative'[k].session <= session /\ toNative'[k].session \notin launches
      BY SMTT(30), <1>1, <1>2, NativeEffect, QueueTail DEF SessionsKept
    <3>3. QED  BY <2>1, <3>1, <3>2 DEF SessionsKept
  <2>4. QED  BY <2>2, <2>3
<1>3. CASE MainStep \/ (\E t \in Threads : FinishCall(t))
  <2>1. UNCHANGED <<session, helper, launches>>
    BY <1>3, HelperSends DEF PoseOrder, nativeVars, processVars
  <2>2. \A m : Sendable(m) => m.session <= session /\ m.session \notin launches
    BY DEF Sendable, SessionsKept
  <2>3. \A k \in 1..Len(toNative') :
          toNative'[k].session <= session /\ toNative'[k].session \notin launches
    BY <1>3, <2>2, HelperAppends DEF SessionsKept
  <2>4. QED  BY <2>1, <2>3 DEF SessionsKept
<1>4. CASE ProcessStep
  <2>1. CASE HelperStop
    <3>1. UNCHANGED <<session, launches, toNative>> /\ helper' = 0
      BY <2>1 DEF HelperStop, nativeVars
    <3>2. QED  BY <1>1, <3>1 DEF SessionsKept
  <2>2. ASSUME NEW s \in launches, HelperStart(s) PROVE SessionsKept'
    <3>1. UNCHANGED <<session, toNative>> /\ helper' = s /\ launches' = launches \ {s}
      BY <2>2 DEF HelperStart, nativeVars
    <3>2. QED  BY <1>1, <3>1 DEF SessionsKept
  <2>3. QED  BY <1>4, <2>1, <2>2 DEF ProcessStep
<1>5. CASE SteamStep \/ CallStep \/ UNCHANGED vars
  <2>1. UNCHANGED <<session, helper, launches, toNative>>
    BY <1>5 DEF SteamStep, Activate, Deactivate, CallStep, TrackedDeviceAdded,
       TrackedDevicePoseUpdated, WriteProperty, linkVars, nativeVars, processVars, vars
  <2>2. QED  BY <2>1 DEF SessionsKept
<1>6. QED  BY <1>2, <1>3, <1>4, <1>5 DEF Next

\* TrackedDeviceAdded ignores a driver it has, and a slot is only ever configured
\* by a registration.
LEMMA NextRegistered ==
  ASSUME PoseOrder, AnnouncementsRegistered, RegisteredOnce, SlotsRegistered, [Next]_vars
  PROVE  /\ RegisteredOnce' /\ SlotsRegistered'
         /\ registered \subseteq registered'
         /\ losses \in Nat /\ losses' \in Nat /\ losses <= losses'
<1>1. /\ TypeOK /\ TypeOK' /\ toNative \in Seq(ToNative)
      /\ losses \in Nat /\ losses' \in Nat
  BY NextType DEF PoseOrder, TypeOK, LinkTypeOK
<1>2. losses <= losses'
  <2>1. UNCHANGED losses \/ Lose
    <3>1. CASE NativeStep
      BY <3>1 DEF NativeStep, NativeInit, Cleanup, SendHello, CheckHelperTimeout, Receive,
         RejectDatagram, OnHeartbeat, OnTrackerAdded, OnTrackerProperty, OnTrackerPose, Take,
         SendToHelper, linkVars
    <3>2. CASE MainStep \/ (\E t \in Threads : FinishCall(t))
      BY <3>2, HelperSends DEF PoseOrder, Transmit, Deliver
    <3>3. CASE SteamStep \/ CallStep \/ ProcessStep \/ UNCHANGED vars
      BY <3>3 DEF SteamStep, Activate, Deactivate, CallStep, TrackedDeviceAdded,
         TrackedDevicePoseUpdated, WriteProperty, ProcessStep, HelperStart, HelperStop, linkVars,
         vars
    <3>4. QED  BY <3>1, <3>2, <3>3 DEF Next
  <2>2. QED  BY <1>1, <2>1 DEF Lose
<1>3. ASSUME NEW d \in Drivers, TrackedDeviceAdded(d)
      PROVE  RegisteredOnce' /\ SlotsRegistered' /\ registered \subseteq registered'
  <2>1. /\ trackers' = Append(trackers, d) /\ trackers \in Seq(Drivers)
        /\ registered' = registered \cup {SerialOf[d]} /\ UNCHANGED slots
        /\ \A i \in Registered : trackers[i] # d
    BY <1>1, <1>3 DEF TrackedDeviceAdded, TypeOK, TableTypeOK
  <2>2. /\ Registered' = Registered \cup {Len(trackers) + 1}
        /\ trackers'[Len(trackers) + 1] = d
        /\ \A i \in Registered : trackers'[i] = trackers[i]
    BY <2>1 DEF Registered
  <2>3. RegisteredOnce'
    <3> DEFINE n == Len(trackers) + 1
    <3>1. /\ Registered' = Registered \cup {n} /\ trackers'[n] = d
          /\ \A i \in Registered : trackers'[i] = trackers[i] /\ trackers'[i] # d
          /\ \A i, j \in Registered : trackers[i] = trackers[j] => i = j
      BY <2>1, <2>2 DEF RegisteredOnce
    <3> HIDE DEF n
    <3>2. \A i, j \in Registered' : trackers'[i] = trackers'[j] => i = j
      BY <3>1
    <3>3. QED  BY <3>2 DEF RegisteredOnce
  <2>4. SlotsRegistered'
    BY <2>1, FS_AddElement DEF SlotsRegistered
  <2>5. QED  BY <2>1, <2>3, <2>4
<1>4. ASSUME UNCHANGED <<trackers, registered, slots>> PROVE RegisteredOnce' /\ SlotsRegistered'
  BY <1>4 DEF RegisteredOnce, SlotsRegistered, Registered
<1>5. CASE NativeStep
  <2>1. UNCHANGED <<trackers, registered>>
    BY <1>5, NativeEffect DEF tableVars
  <2>2. RegisteredOnce'
    BY <2>1 DEF RegisteredOnce, Registered
  <2>3. OnTrackerAdded => Head(toNative).serial \in registered
    <3>1. OnTrackerAdded => toNative # <<>> /\ Head(toNative).type = "TrackerAdded"
      BY DEF OnTrackerAdded, Take
    <3>2. toNative # <<>> /\ Head(toNative).type = "TrackerAdded"
            => Head(toNative).serial \in Announced(toNative)
      BY <1>1, QueueTail DEF Announced
    <3>3. QED  BY <3>1, <3>2 DEF AnnouncementsRegistered
  <2>4. SlotsRegistered'
    BY <1>1, <1>5, <2>1, <2>3, NativeSlots DEF SlotsRegistered
  <2>5. QED  BY <1>1, <1>2, <2>1, <2>2, <2>4
<1>6. CASE \/ MainStep \/ (\E t \in Threads : FinishCall(t))
           \/ SteamStep \/ UNCHANGED vars
           \/ \E i \in known : TrackedDevicePoseUpdated(i)
           \/ \E i \in known, p \in Props, w \in Write : WriteProperty(i, p, w)
  <2>1. UNCHANGED <<trackers, registered, slots>>
    <3>1. CASE MainStep \/ (\E t \in Threads : FinishCall(t))
      BY <3>1, HelperSends DEF PoseOrder
    <3>2. CASE SteamStep \/ UNCHANGED vars
      BY <3>2 DEF SteamStep, Activate, Deactivate, tableVars, vars
    <3>3. QED  BY <1>6, <3>1, <3>2 DEF TrackedDevicePoseUpdated, WriteProperty
  <2>2. QED  BY <1>1, <1>2, <1>4, <2>1
<1>7. CASE ProcessStep
  <2>1. UNCHANGED <<registered, slots>> /\ (trackers' = trackers \/ Registered' = {})
    BY <1>7 DEF ProcessStep, HelperStart, HelperStop, tableVars, Registered
  <2>2. QED  BY <1>1, <1>2, <2>1 DEF RegisteredOnce, SlotsRegistered, Registered
<1>8. QED  BY <1>1, <1>2, <1>3, <1>5, <1>6, <1>7 DEF Next, CallStep

\* A registration always finds a slot: those in use have different serials, all
\* of them registered, and the new serial is one more.
LEMMA FreeSlot ==
  ASSUME RelayReady, Cardinality(registered) <= NumSlots,
         NEW serial \in registered, WithSerial(serial) = {}
  PROVE  Unconfigured # {}
<1> SUFFICES ASSUME Unconfigured = {} PROVE FALSE  OBVIOUS
<1> DEFINE others == registered \ {serial}
           held == [s \in Slot |-> slots[s].serial]
<1>1. \A s \in Slot : slots[s].configured
  BY DEF Unconfigured
<1>2. \A s \in Slot : slots[s].serial \in others
  BY <1>1 DEF RelayReady, SlotsRegistered, WithSerial
<1>3. held \in [Slot -> others]
  BY <1>2
<1>4. IsFiniteSet(Slot) /\ Cardinality(Slot) = NumSlots /\ NumSlots \in Nat
  <2>1. NumSlots \in Nat /\ 1 <= NumSlots
    BY SizeAssumption
  <2>2. QED  BY <2>1, FS_Interval DEF Slot
<1>5. IsFiniteSet(registered) /\ Cardinality(registered) \in Nat
  BY FS_CardinalityType DEF RelayReady, SlotsRegistered
<1>6. IsFiniteSet(others) /\ Cardinality(others) < Cardinality(Slot)
  <2>1. IsFiniteSet(others) /\ Cardinality(others) = Cardinality(registered) - 1
    BY <1>5, FS_RemoveElement
  <2> HIDE DEF others
  <2>2. QED  BY <1>4, <1>5, <2>1
<1> HIDE DEF others, held
<1>7. PICK r, s \in Slot : r # s /\ held[r] = held[s]
  BY <1>3, <1>4, <1>6, FS_PigeonHole
<1>8. slots[r].serial = slots[s].serial
  BY <1>7 DEF held
<1>9. QED  BY <1>1, <1>7, <1>8 DEF RelayReady, RelaySafety, SlotPerSerial

\* The registration at the head gives its tracker a relay object, and no step of
\* the native driver takes one away while this helper's trackers keep their index.
LEMMA NativeRelays ==
  ASSUME DistinctSerials, RelayReady, Attached, NativeStep, ~ (NativeInit \/ Cleanup),
         NEW i \in Registered
  PROVE  /\ HasRelay(i) => HasRelay(i)'
         /\ toNative # <<>> /\ toNative' = Tail(toNative)
              /\ Head(toNative).type = "TrackerAdded" /\ Head(toNative).session = session
              /\ Head(toNative).index = i
            => HasRelay(i)'
<1> DEFINE m == Head(toNative)
<1>1. TypeOK /\ toNative \in Seq(ToNative) /\ slots \in [Slot -> SlotState]
  BY DEF RelayReady, RelaySafety, TypeOK, LinkTypeOK, NativeTypeOK
<1>2. trackers' = trackers /\ trackers[i] \in Drivers
  BY <1>1, NativeEffect DEF tableVars, TypeOK, TableTypeOK, Registered
<1>3. ASSUME toNative # <<>>, m.type = "TrackerAdded", m.session = session
      PROVE  /\ m.index \in Registered /\ m.serial = SerialOf[trackers[m.index]]
             /\ trackers[m.index] \in Drivers /\ m.serial \in registered
  <2>1. m = toNative[1] /\ 1 \in 1..Len(toNative)
    BY <1>1, <1>3, QueueTail
  <2>2. m.index \in Registered /\ m.serial = SerialOf[trackers[m.index]]
    BY <1>3, <2>1 DEF RelayReady, OwnAnnouncements
  <2>3. m.serial \in Announced(toNative)
    BY <1>3, <2>1 DEF Announced
  <2>4. QED
    BY <1>1, <2>2, <2>3 DEF RelayReady, AnnouncementsRegistered, TypeOK, TableTypeOK, Registered
<1>4. ASSUME HasRelay(i) PROVE HasRelay(i)'
  <2>1. PICK s \in Slot : /\ slots[s].configured /\ slots[s].serial = SerialOf[trackers[i]]
                          /\ slots[s].remote = i
    BY <1>4 DEF HasRelay
  <2>2. CASE OnTrackerAdded /\ slots[s].serial = m.serial /\ slots'[s].configured = TRUE
             /\ slots'[s].remote = m.index /\ slots'[s].serial = m.serial
    <3>1. toNative # <<>> /\ m.type = "TrackerAdded" /\ m.session = session
      BY <2>2 DEF OnTrackerAdded, Take
    <3>2. m.index \in Registered /\ trackers[m.index] = trackers[i]
      BY <1>2, <1>3, <2>1, <2>2, <3>1 DEF DistinctSerials
    <3>3. m.index = i
      BY <3>2 DEF RelayReady, RegisteredOnce
    <3>4. QED  BY <1>2, <2>1, <2>2, <3>3 DEF HasRelay
  <2>3. CASE /\ slots'[s].configured /\ slots'[s].remote = slots[s].remote
             /\ slots'[s].serial = slots[s].serial
    BY <1>2, <2>1, <2>3 DEF HasRelay
  <2>4. QED  BY <1>1, <2>1, <2>2, <2>3, NativeSlots
<1>5. ASSUME toNative # <<>>, toNative' = Tail(toNative), m.type = "TrackerAdded",
             m.session = session, m.index = i
      PROVE  HasRelay(i)'
  <2>1. OnTrackerAdded
    <3>1. toNative' # toNative
      BY <1>1, <1>5, QueueTail
    <3>2. QED
      BY <1>5, <3>1 DEF NativeStep, SendHello, CheckHelperTimeout, Receive, RejectDatagram,
         OnHeartbeat, OnTrackerProperty, OnTrackerPose, Take, linkVars
  <2>2. m.serial = SerialOf[trackers[i]] /\ m.serial \in registered
    BY <1>3, <1>5
  <2>3. CASE WithSerial(m.serial) = {}
    <3>1. Unconfigured # {}
      BY <2>2, <2>3, FreeSlot DEF Attached
    <3>2. Configure(AcquireTracker, m) /\ AcquireTracker \in Slot
      BY <2>1, <2>3, <3>1, SearchResult DEF OnTrackerAdded, Unconfigured
    <3>3. /\ slots'[AcquireTracker].configured /\ slots'[AcquireTracker].serial = m.serial
          /\ slots'[AcquireTracker].remote = m.index
      BY <1>1, <3>2 DEF Configure, SlotState
    <3>4. QED  BY <1>2, <1>5, <2>2, <3>2, <3>3 DEF HasRelay
  <2>4. CASE WithSerial(m.serial) # {}
    <3> DEFINE s == FindTrackerBySerial(m.serial)
    <3>1. s \in Slot /\ slots[s].configured /\ slots[s].serial = m.serial
      BY <2>4, SearchResult DEF WithSerial
    <3>2. CASE slots[s].remote # m.index
      <4>1. Configure(s, m)
        BY <2>1, <2>4, <3>2 DEF OnTrackerAdded
      <4>2. /\ slots'[s].configured /\ slots'[s].serial = m.serial
            /\ slots'[s].remote = m.index
        BY <1>1, <3>1, <4>1 DEF Configure, SlotState
      <4>3. QED  BY <1>2, <1>5, <2>2, <3>1, <4>2 DEF HasRelay
    <3>3. CASE slots[s].remote = m.index
      <4>1. slots' = slots
        BY <2>1, <2>4, <3>3 DEF OnTrackerAdded
      <4>2. QED  BY <1>2, <1>5, <2>2, <3>1, <3>3, <4>1 DEF HasRelay
    <3>4. QED  BY <3>2, <3>3
  <2>5. QED  BY <2>3, <2>4
<1>6. QED  BY <1>4, <1>5

\* Only the start of a helper for the current session attaches one.
LEMMA StillAttached ==
  ASSUME RelayReady, [Next]_vars, Attached', \A s \in launches : ~ HelperStart(s)
  PROVE  /\ Attached
         /\ UNCHANGED <<session, helper>>
         /\ ~ (NativeInit \/ Cleanup \/ HelperStop)
<1>1. /\ TypeOK /\ TypeOK' /\ PoseOrder /\ session \in Nat /\ helper \in Nat
      /\ helper <= session
  BY NextType DEF RelayReady, RelaySafety, SessionsKept, TypeOK, NativeTypeOK, TableTypeOK
<1>2. Cardinality(registered) <= NumSlots /\ losses = 0
  <2>1. /\ registered \subseteq registered' /\ IsFiniteSet(registered')
        /\ losses \in Nat /\ losses' \in Nat /\ losses <= losses'
    BY NextRegistered DEF RelayReady, SlotsRegistered
  <2>2. /\ Cardinality(registered) <= Cardinality(registered')
        /\ IsFiniteSet(registered)
    BY <2>1, FS_Subset
  <2>3. Cardinality(registered) \in Nat /\ Cardinality(registered') \in Nat /\ NumSlots \in Nat
    BY <2>1, <2>2, FS_CardinalityType, SizeAssumption
  <2>4. QED  BY <2>1, <2>2, <2>3 DEF Attached
<1>3. ~ NativeInit
  <2>1. NativeInit => session' = session + 1 /\ helper' = helper
    BY DEF NativeInit
  <2>2. QED  BY <1>1, <2>1 DEF Attached
<1>4. ~ Cleanup /\ ~ HelperStop
  <2>1. ~ Cleanup
    BY DEF Cleanup, Attached
  <2>2. session' # 0
    BY <1>1 DEF Attached, TypeOK, NativeTypeOK
  <2>3. ~ HelperStop
    BY <2>2 DEF HelperStop, Attached
  <2>4. QED  BY <2>1, <2>3
<1>5. UNCHANGED <<initialized, session, helper>>
  <2>1. CASE NativeStep
    BY <1>3, <1>4, <2>1, NativeEffect DEF NativeStep, SendHello, CheckHelperTimeout, Receive,
       RejectDatagram, OnHeartbeat, OnTrackerAdded, OnTrackerProperty, OnTrackerPose, Take,
       nativeVars
  <2>2. CASE MainStep \/ (\E t \in Threads : FinishCall(t))
    BY <1>1, <2>2, HelperSends DEF PoseOrder, nativeVars, processVars
  <2>3. CASE SteamStep \/ CallStep \/ ProcessStep \/ UNCHANGED vars
    BY <1>4, <2>3 DEF SteamStep, Activate, Deactivate, CallStep, TrackedDeviceAdded,
       TrackedDevicePoseUpdated, WriteProperty, ProcessStep, nativeVars, processVars, vars
  <2>4. QED  BY <2>1, <2>2, <2>3 DEF Next
<1>6. QED  BY <1>2, <1>3, <1>4, <1>5 DEF Attached

\* The three facts about the datagrams in flight, step by step.
LEMMA ReadyNative ==
  ASSUME DistinctSerials, RelayReady, Attached, Attached', UNCHANGED session,
         NativeStep, ~ (NativeInit \/ Cleanup)
  PROVE  OwnAnnouncements' /\ AnnouncedFirst' /\ UpdatesBehind'
<1>1. TypeOK /\ toNative \in Seq(ToNative) /\ Len(toNative) \in Nat
  BY DEF RelayReady, RelaySafety, TypeOK, LinkTypeOK
<1>2. UNCHANGED <<trackers, known, job>> /\ Registered' = Registered
  BY NativeEffect DEF tableVars, Registered
<1>3. \/ toNative' = toNative
      \/ toNative # <<>> /\ toNative' = Tail(toNative)
  BY DEF NativeStep, SendHello, CheckHelperTimeout, Receive, RejectDatagram, OnHeartbeat,
         OnTrackerAdded, OnTrackerProperty, OnTrackerPose, Take, linkVars
<1>4. CASE toNative' = toNative
  <2>1. \A i \in Registered : HasRelay(i) => HasRelay(i)'
    BY NativeRelays
  <2>2. \A i, n : Underway(i, n) => Underway(i, n)'
    BY <1>4 DEF Underway
  <2>3. \A i \in Registered : OnceAnnounced(i)' => OnceAnnounced(i)
    BY <1>2 DEF OnceAnnounced
  <2>4. OwnAnnouncements'
    BY <1>2, <1>4 DEF RelayReady, OwnAnnouncements
  <2>5. AnnouncedFirst'
    BY <1>2, <1>4, <2>1, <2>2, <2>3 DEF RelayReady, AnnouncedFirst
  <2>6. UpdatesBehind'
    BY <1>2, <1>4, <2>1, <2>2 DEF RelayReady, UpdatesBehind
  <2>7. QED  BY <2>4, <2>5, <2>6
<1>5. CASE toNative # <<>> /\ toNative' = Tail(toNative)
  <2>1. /\ Len(toNative') = Len(toNative) - 1 /\ Head(toNative) = toNative[1]
        /\ \A k \in 1..Len(toNative') : toNative'[k] = toNative[k + 1] /\ k + 1 \in 1..Len(toNative)
    BY <1>1, <1>5, QueueTail
  <2>2. ASSUME NEW i \in Registered, NEW n \in 0..Len(toNative'),
               HasRelay(i) \/ Underway(i, n + 1)
        PROVE  HasRelay(i)' \/ Underway(i, n)'
    <3>1. CASE HasRelay(i)
      BY <3>1, NativeRelays
    <3>2. CASE Underway(i, n + 1)
      <4>1. PICK h \in 1..(n + 1) : /\ toNative[h].type = "TrackerAdded"
                                    /\ toNative[h].session = session /\ toNative[h].index = i
        BY <3>2 DEF Underway
      <4>2. CASE h = 1
        BY <1>5, <2>1, <4>1, <4>2, NativeRelays
      <4>3. CASE h # 1
        <5>1. h - 1 \in 1..n /\ h - 1 \in 1..Len(toNative') /\ (h - 1) + 1 = h
          BY <1>1, <2>1, <4>3
        <5>2. toNative'[h - 1] = toNative[h]
          BY <2>1, <5>1
        <5>3. QED  BY <4>1, <5>1, <5>2 DEF Underway
      <4>4. QED  BY <4>2, <4>3
    <3>3. QED  BY <2>2, <3>1, <3>2
  <2>3. OwnAnnouncements'
    BY <1>2, <2>1 DEF RelayReady, OwnAnnouncements
  <2>4. AnnouncedFirst'
    <3>1. \A i \in Registered : OnceAnnounced(i)' => HasRelay(i) \/ Underway(i, Len(toNative))
      BY <1>2 DEF RelayReady, AnnouncedFirst, OnceAnnounced
    <3>2. Len(toNative') \in 0..Len(toNative') /\ Len(toNative) = Len(toNative') + 1
      BY <1>1, <1>5, <2>1
    <3>3. ASSUME NEW i \in Registered, OnceAnnounced(i)'
          PROVE  HasRelay(i)' \/ Underway(i, Len(toNative))'
      <4> DEFINE n == Len(toNative')
      <4>1. HasRelay(i) \/ Underway(i, n + 1)
        BY <3>1, <3>2, <3>3
      <4>2. \A h \in 0..Len(toNative') : HasRelay(i) \/ Underway(i, h + 1)
              => HasRelay(i)' \/ \E g \in 1..h : /\ toNative'[g].type = "TrackerAdded"
                                                 /\ toNative'[g].session = session'
                                                 /\ toNative'[g].index = i
        BY <2>2 DEF Underway
      <4>3. QED  BY <3>2, <4>1, <4>2 DEF Underway
    <3>4. QED  BY <1>2, <3>3 DEF AnnouncedFirst
  <2>5. UpdatesBehind'
    <3> SUFFICES ASSUME NEW k \in 1..Len(toNative'), toNative'[k].session = session,
                        toNative'[k].type \in {"TrackerProperty", "TrackerPose"}
                 PROVE  /\ toNative'[k].index \in Registered
                        /\ HasRelay(toNative[k].index)' \/ Underway(toNative[k].index, k - 1)'
      BY <1>2 DEF UpdatesBehind
    <3>1. toNative'[k] = toNative[k + 1] /\ k + 1 \in 1..Len(toNative)
      BY <2>1
    <3>2. /\ toNative[k + 1].index \in Registered
          /\ HasRelay(toNative[k + 1].index) \/ Underway(toNative[k + 1].index, (k + 1) - 1)
      BY <3>1 DEF RelayReady, UpdatesBehind
    <3>3. k - 1 \in 0..Len(toNative') /\ (k + 1) - 1 = (k - 1) + 1
      BY <1>1, <2>1
    <3>4. \A i \in Registered : i = toNative[k + 1].index =>
            HasRelay(i)' \/ Underway(i, k - 1)'
      BY <2>2, <3>2, <3>3
    <3>5. HasRelay(toNative[k].index)' \/ Underway(toNative[k].index, k - 1)'
      BY <3>1, <3>2, <3>4 DEF HasRelay, Underway
    <3>6. QED  BY <3>1, <3>2, <3>5
  <2>6. QED  BY <2>3, <2>4, <2>5
<1>6. QED  BY <1>3, <1>4, <1>5

LEMMA ReadyHelper ==
  ASSUME RelayReady, Attached, Attached', UNCHANGED session,
         MainStep \/ (\E t \in Threads : FinishCall(t))
  PROVE  OwnAnnouncements' /\ AnnouncedFirst' /\ UpdatesBehind'
<1>1. TypeOK /\ PoseOrder /\ toNative \in Seq(ToNative) /\ Len(toNative) \in Nat
  BY DEF RelayReady, RelaySafety, TypeOK, LinkTypeOK
<1>2. UNCHANGED <<slots, trackers>> /\ Registered' = Registered
  BY <1>1, HelperSends DEF PoseOrder, Registered
<1>3. OwnAnnouncements /\ AnnouncedFirst /\ UpdatesBehind
  BY DEF RelayReady
<1>4. \/ toNative' = toNative
      \/ \E m : /\ Sendable(m) /\ Len(toNative') = Len(toNative) + 1
                /\ toNative'[Len(toNative) + 1] = m
                /\ \A k \in 1..Len(toNative) : toNative'[k] = toNative[k]
                /\ \A k \in 1..Len(toNative') : k \in 1..Len(toNative) \/ k = Len(toNative) + 1
  BY <1>1, HelperAppends
<1>5. /\ Len(toNative') \in {Len(toNative), Len(toNative) + 1}
      /\ \A k \in 1..Len(toNative) : toNative'[k] = toNative[k]
  BY <1>1, <1>4
<1>6. \A i : HasRelay(i) => HasRelay(i)'
  BY <1>2 DEF HasRelay
<1>7. \A i : \A n \in 0..Len(toNative) : Underway(i, n) =>
        \E h \in 1..n : /\ toNative'[h].type = "TrackerAdded"
                        /\ toNative'[h].session = session' /\ toNative'[h].index = i
  BY <1>1, <1>5 DEF Underway
<1>8. OwnAnnouncements'
  <2>1. \A m : Sendable(m) /\ m.type = "TrackerAdded" =>
          m.index \in Registered /\ m.serial = SerialOf[trackers[m.index]]
    BY DEF Sendable
  <2>2. QED  BY <1>2, <1>3, <1>4, <2>1 DEF OwnAnnouncements
<1>9. ASSUME NEW i \in Registered, OnceAnnounced(i)'
      PROVE  OnceAnnounced(i) \/ Transmit(TrackerAdded(i))
  <2>1. CASE i \in known'
    <3>1. PICK t \in Threads : TRUE
      BY ThreadAssumption
    <3>2. known' = known \/ \E u \in Threads : /\ job[u].op = "activate"
                                               /\ known' = known \cup {job[u].index}
      BY <1>1, <3>1, HelperJobs
    <3>3. QED  BY <2>1, <3>2 DEF OnceAnnounced
  <2>2. CASE \E t \in Threads : job'[t].op = "activate" /\ job'[t].index = i
    <3>1. PICK t \in Threads : job'[t].op = "activate" /\ job'[t].index = i
      BY <2>2
    <3>2. job'[t] = job[t] \/ Transmit(TrackerAdded(job'[t].index))
      BY <1>1, <3>1, HelperJobs
    <3>3. QED  BY <3>1, <3>2 DEF OnceAnnounced
  <2>3. CASE \E t \in Threads : job'[t].op \in {"copy", "send"} /\ job'[t].at = i
    <3>1. PICK t \in Threads : job'[t].op \in {"copy", "send"} /\ job'[t].at = i
      BY <2>3
    <3>2. \/ job[t].op \in {"copy", "send"} /\ job'[t].at = job[t].at
          \/ Transmit(TrackerAdded(job'[t].at))
      BY <1>1, <3>1, HelperJobs
    <3>3. QED  BY <3>1, <3>2 DEF OnceAnnounced
  <2>4. QED  BY <1>9, <2>1, <2>2, <2>3 DEF OnceAnnounced
<1>10. ASSUME NEW i \in Registered, Transmit(TrackerAdded(i))
       PROVE  \E h \in 1..Len(toNative') : /\ toNative'[h].type = "TrackerAdded"
                                           /\ toNative'[h].session = session'
                                           /\ toNative'[h].index = i
  <2>1. ~ Lose
    BY DEF Attached, Lose
  <2>2. toNative' = Append(toNative, TrackerAdded(i))
    BY <1>10, <2>1 DEF Attached, Transmit, Deliver
  <2>3. helper # 0
    BY <1>1 DEF TypeOK, TableTypeOK, Registered
  <2>4. TrackerAdded(i) \in ToNative
    BY <1>1, <2>3, Datagrams
  <2>5. /\ Len(toNative') = Len(toNative) + 1
        /\ toNative'[Len(toNative) + 1] = TrackerAdded(i)
    BY <1>1, <2>2, <2>4, QueueAppend
  <2>6. /\ TrackerAdded(i).type = "TrackerAdded" /\ TrackerAdded(i).session = session'
        /\ TrackerAdded(i).index = i
    BY DEF TrackerAdded, Attached
  <2>7. Len(toNative) + 1 \in 1..Len(toNative')
    BY <1>1, <2>5
  <2>8. QED  BY <2>5, <2>6, <2>7
<1>11. AnnouncedFirst'
  <2> SUFFICES ASSUME NEW i \in Registered, OnceAnnounced(i)'
               PROVE  HasRelay(i)' \/ Underway(i, Len(toNative))'
    BY <1>2 DEF AnnouncedFirst
  <2>1. CASE OnceAnnounced(i)
    <3>1. HasRelay(i) \/ Underway(i, Len(toNative))
      BY <1>3, <2>1 DEF AnnouncedFirst
    <3>2. CASE HasRelay(i)
      BY <1>6, <3>2
    <3>3. CASE Underway(i, Len(toNative))
      <4>1. PICK h \in 1..Len(toNative) : /\ toNative'[h].type = "TrackerAdded"
                                          /\ toNative'[h].session = session'
                                          /\ toNative'[h].index = i
        BY <1>1, <1>7, <3>3
      <4>2. h \in 1..Len(toNative')
        BY <1>1, <1>5
      <4>3. QED  BY <4>1, <4>2 DEF Underway
    <3>4. QED  BY <3>1, <3>2, <3>3
  <2>2. CASE Transmit(TrackerAdded(i))
    BY <1>10, <2>2 DEF Underway
  <2>3. QED  BY <1>9, <2>1, <2>2
<1>12. UpdatesBehind'
  <2> SUFFICES ASSUME NEW k \in 1..Len(toNative'), toNative'[k].session = session,
                      toNative'[k].type \in {"TrackerProperty", "TrackerPose"}
               PROVE  /\ toNative'[k].index \in Registered
                      /\ HasRelay(toNative[k].index)' \/ Underway(toNative[k].index, k - 1)'
    BY <1>2 DEF UpdatesBehind
  <2> DEFINE i == toNative'[k].index
  <2>1. /\ i \in Registered /\ k - 1 \in 0..Len(toNative)
        /\ HasRelay(i) \/ Underway(i, k - 1)
    <3>1. CASE k \in 1..Len(toNative)
      <4>1. toNative'[k] = toNative[k]
        BY <1>5, <3>1
      <4>2. QED  BY <1>1, <1>3, <3>1, <4>1 DEF UpdatesBehind
    <3>2. CASE k \notin 1..Len(toNative)
      <4>1. PICK m : Sendable(m) /\ k = Len(toNative) + 1 /\ toNative'[k] = m
        BY <1>4, <3>2
      <4>2. m.index \in Registered /\ OnceAnnounced(m.index)
        BY <4>1 DEF Sendable
      <4>3. k - 1 = Len(toNative) /\ k - 1 \in 0..Len(toNative)
        BY <1>1, <4>1
      <4>4. QED  BY <1>3, <4>1, <4>2, <4>3 DEF AnnouncedFirst
    <3>3. QED  BY <3>1, <3>2
  <2>2. \A j : HasRelay(j) \/ Underway(j, k - 1) =>
          \/ HasRelay(j)'
          \/ \E h \in 1..(k - 1) : /\ toNative'[h].type = "TrackerAdded"
                                   /\ toNative'[h].session = session' /\ toNative'[h].index = j
    BY <1>6, <1>7, <2>1
  <2>3. HasRelay(toNative[k].index)' \/ Underway(toNative[k].index, k - 1)'
    BY <2>1, <2>2 DEF HasRelay, Underway
  <2>4. QED  BY <2>1, <2>3
<1>13. QED  BY <1>8, <1>11, <1>12

LEMMA ReadyCall ==
  ASSUME RelayReady, Attached, Attached', UNCHANGED session, CallStep
  PROVE  OwnAnnouncements' /\ AnnouncedFirst' /\ UpdatesBehind'
<1>1. /\ TypeOK /\ trackers \in Seq(Drivers) /\ Len(trackers) \in Nat
      /\ job \in [Threads -> Job]
      /\ OwnAnnouncements /\ AnnouncedFirst /\ UpdatesBehind
  BY DEF RelayReady, RelaySafety, TypeOK, TableTypeOK, JobTypeOK
<1>2. UNCHANGED <<slots, toNative, known>>
  BY DEF CallStep, TrackedDeviceAdded, TrackedDevicePoseUpdated, WriteProperty, linkVars
<1>3. trackers' = trackers \/ \E d \in Drivers : trackers' = Append(trackers, d)
  BY DEF CallStep, TrackedDeviceAdded, TrackedDevicePoseUpdated, WriteProperty
<1>4. Registered \subseteq Registered' /\ \A i \in Registered : trackers'[i] = trackers[i]
  BY <1>1, <1>3 DEF Registered
<1>5. \A t \in Threads : job'[t] = job[t] \/ job'[t].op \in {"added", "pose", "property"}
  <2>1. CASE \E d \in Drivers : TrackedDeviceAdded(d)
    <3>1. PICK d \in Drivers : TrackedDeviceAdded(d)
      BY <2>1
    <3>2. QED  BY <1>1, <3>1 DEF TrackedDeviceAdded, Goto
  <2>2. CASE \E i \in known : TrackedDevicePoseUpdated(i)
    <3>1. PICK i \in known : TrackedDevicePoseUpdated(i)
      BY <2>2
    <3>2. QED  BY <1>1, <3>1 DEF TrackedDevicePoseUpdated, Goto
  <2>3. CASE \E i \in known, p \in Props, w \in Write : WriteProperty(i, p, w)
    <3>1. PICK i \in known, p \in Props, w \in Write : WriteProperty(i, p, w)
      BY <2>3
    <3>2. QED  BY <1>1, <3>1 DEF WriteProperty, Goto
  <2>4. QED  BY <2>1, <2>2, <2>3 DEF CallStep
<1>6. \A i : OnceAnnounced(i)' => OnceAnnounced(i)
  BY <1>2, <1>5 DEF OnceAnnounced
<1>7. \A i : OnceAnnounced(i) => i \in Registered
  <2>1. known \subseteq Registered
    BY <1>1 DEF TypeOK, TableTypeOK
  <2>2. \A t \in Threads : job[t].op = "activate" => job[t].index \in Registered
    BY <1>1, JobFacts
  <2>3. \A t \in Threads : job[t].op \in {"copy", "send"} => job[t].at \in Registered
    BY <1>1, JobFacts
  <2>4. QED  BY <2>1, <2>2, <2>3 DEF OnceAnnounced
<1>8. \A i \in Registered : HasRelay(i) => HasRelay(i)'
  BY <1>2, <1>4 DEF HasRelay
<1>9. \A i, n : Underway(i, n) => Underway(i, n)'
  BY <1>2 DEF Underway
<1>10. OwnAnnouncements'
  BY <1>1, <1>2, <1>4 DEF OwnAnnouncements
<1>11. AnnouncedFirst'
  BY <1>1, <1>2, <1>6, <1>7, <1>8, <1>9 DEF AnnouncedFirst
<1>12. UpdatesBehind'
  BY <1>1, <1>2, <1>4, <1>8, <1>9 DEF UpdatesBehind
<1>13. QED  BY <1>10, <1>11, <1>12

\* A helper that starts finds no datagram of its own session on the link, and
\* has registered nothing yet.
LEMMA ReadyStart ==
  ASSUME RelayReady, Attached', NEW s \in launches, HelperStart(s)
  PROVE  OwnAnnouncements' /\ AnnouncedFirst' /\ UpdatesBehind'
<1>1. /\ helper = 0 /\ helper' = s /\ UNCHANGED <<session, toNative, trackers>>
  BY DEF HelperStart, nativeVars, tableVars
<1>2. trackers' = <<>> /\ Registered' = {}
  BY <1>1 DEF RelayReady, RelaySafety, TypeOK, TableTypeOK, Registered
<1>3. session' = s
  BY <1>1 DEF Attached
<1>4. \A k \in 1..Len(toNative') : toNative'[k].session # session'
  BY <1>1, <1>3 DEF RelayReady, SessionsKept
<1>5. QED  BY <1>2, <1>4 DEF OwnAnnouncements, AnnouncedFirst, UpdatesBehind

LEMMA NextReady ==
  ASSUME DistinctSerials, RelayReady, [Next]_vars
  PROVE  RelayReady'
<1>1. PoseOrder' /\ RelaySafety' /\ AnnouncementsRegistered' /\ SessionsKept'
  BY NextOrder, NextSafety, NextAnnouncements, NextSessions DEF RelayReady, RelaySafety
<1>2. RegisteredOnce' /\ SlotsRegistered'
  BY NextRegistered DEF RelayReady
<1>3. ASSUME Attached' PROVE OwnAnnouncements' /\ AnnouncedFirst' /\ UpdatesBehind'
  <2>1. CASE \E s \in launches : HelperStart(s)
    BY <1>3, <2>1, ReadyStart
  <2>2. CASE \A s \in launches : ~ HelperStart(s)
    <3>1. Attached /\ UNCHANGED session /\ ~ (NativeInit \/ Cleanup \/ HelperStop)
      BY <1>3, <2>2, StillAttached
    <3>2. CASE NativeStep
      BY <1>3, <3>1, <3>2, ReadyNative
    <3>3. CASE MainStep \/ (\E t \in Threads : FinishCall(t))
      BY <1>3, <3>1, <3>3, ReadyHelper
    <3>4. CASE CallStep
      BY <1>3, <3>1, <3>4, ReadyCall
    <3>5. CASE SteamStep \/ UNCHANGED vars
      <4>1. UNCHANGED <<slots, toNative, known, job, trackers>>
        BY <3>5 DEF SteamStep, Activate, Deactivate, linkVars, tableVars, vars
      <4>2. QED
        BY <3>1, <4>1 DEF RelayReady, OwnAnnouncements, AnnouncedFirst, UpdatesBehind, HasRelay,
           Underway, OnceAnnounced, Registered
    <3>6. ~ ProcessStep
      BY <2>2, <3>1 DEF ProcessStep
    <3>7. QED  BY <3>2, <3>3, <3>4, <3>5, <3>6 DEF Next
  <2>3. QED  BY <2>1, <2>2
<1>4. QED  BY <1>1, <1>2, <1>3 DEF RelayReady

LEMMA InitReady == Init => RelayReady
<1> SUFFICES ASSUME Init PROVE RelayReady  OBVIOUS
<1>1. PoseOrder /\ RelaySafety
  BY InitOrder, InitSafety
<1>2. /\ toNative = <<>> /\ Registered = {} /\ registered = {} /\ launches = {}
      /\ helper = 0 /\ session = 0 /\ ~ initialized
      /\ \A s \in Slot : ~ slots[s].configured
  BY DEF Init, EmptySlot, Registered
<1>3. AnnouncementsRegistered /\ RegisteredOnce /\ SessionsKept
  BY <1>2 DEF AnnouncementsRegistered, Announced, RegisteredOnce, SessionsKept
<1>4. SlotsRegistered
  BY <1>2, FS_EmptySet DEF SlotsRegistered
<1>5. QED  BY <1>1, <1>2, <1>3, <1>4 DEF RelayReady, Attached

\* With nothing lost, an update of this session in flight finds a relay object,
\* or the announcement that gives it one ahead of it: provided the trackers have
\* serials of their own and no more of them were registered than there are slots.
THEOREM NoOrphans ==
  ASSUME DistinctSerials
  PROVE  Spec => [](Cardinality(registered) <= NumSlots => NoOrphanUpdates)
<1>1. RelayReady => (Cardinality(registered) <= NumSlots => NoOrphanUpdates)
  <2> SUFFICES ASSUME RelayReady, Attached,
                      NEW k \in 1..Len(toNative), toNative[k].session = session,
                      toNative[k].type \in {"TrackerProperty", "TrackerPose"}
               PROVE  \/ WithRemote(toNative[k].index) # {}
                      \/ \E h \in 1..(k - 1) : /\ toNative[h].type = "TrackerAdded"
                                               /\ toNative[h].session = session
                                               /\ toNative[h].index = toNative[k].index
    BY DEF NoOrphanUpdates, Attached
  <2>1. HasRelay(toNative[k].index) \/ Underway(toNative[k].index, k - 1)
    BY DEF RelayReady, UpdatesBehind
  <2>2. QED  BY <2>1 DEF HasRelay, Underway, WithRemote
<1>2. DistinctSerials /\ RelayReady /\ [Next]_vars => RelayReady'
  BY NextReady
<1>3. DistinctSerials
  OBVIOUS
<1>4. RelayReady /\ [Next]_vars => RelayReady'
  BY <1>2, <1>3
<1>5. QED  BY <1>1, <1>4, InitReady, PTL DEF Spec
=============================================================================
