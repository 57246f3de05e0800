---------------------------- MODULE TrackerRelay ----------------------------
(***************************************************************************)
(* How a tracker that the original Windows provider registers reaches      *)
(* SteamVR: the helper's registry (windows/fake_openvr.cpp), the loopback  *)
(* datagrams between the two endpoints, and the native driver's array of   *)
(* relay objects (native/driver_main.cpp, native/relay_tracker.cpp).       *)
(*                                                                         *)
(* The helper's code runs on several threads and holds its mutexes only    *)
(* while it touches its tables: every send happens after the unlock, so a  *)
(* call is two or more steps and job[t] says where thread t is.  Remote    *)
(* device index 47 + k of the code is k here, the k-th registration.       *)
(***************************************************************************)
EXTENDS Naturals, Sequences, FiniteSets

CONSTANTS
  Drivers,         \* ITrackedDeviceServerDriver objects of the original DLL
  NoDriver,
  Serials,
  NoSerial,
  SerialOf,        \* the serial each driver object registers with
  Threads,         \* threads of the helper process
  Main,            \* the thread of bridge_host_main.cpp
  ThreadOf,        \* the thread the DLL drives each tracker from
  Props,           \* property identifiers
  Values,          \* property values
  Oversized,       \* the values longer than kMaxPropertyBytes
  HelperCapacity,  \* k_unMaxTrackedDeviceCount - kFirstTracker (16)
  NumSlots,        \* kMaxRelayTrackers (16)
  MaxSessions,     \* bound: DeviceProvider::Init calls
  MaxUpdates,      \* bound: pose updates and property writes of the DLL
  MaxLosses,       \* bound: datagrams lost between bound sockets
  Capacity,        \* bound: datagrams waiting in one socket
  HelperCrashes    \* whether the helper process may be killed

ASSUME DriverAssumption ==
  /\ NoDriver \notin Drivers
  /\ NoSerial \notin Serials
  /\ SerialOf \in [Drivers -> Serials]
ASSUME ThreadAssumption ==
  /\ Main \in Threads
  /\ ThreadOf \in [Drivers -> Threads]
ASSUME PropertyAssumption ==
  /\ Oversized \subseteq Values
  /\ Values \cap {"unset", "error", "erase", "empty", "default"} = {}
ASSUME SizeAssumption ==
  /\ HelperCapacity \in Nat
  /\ NumSlots \in Nat \ {0}
  /\ MaxSessions \in Nat
  /\ MaxUpdates \in Nat
  /\ MaxLosses \in Nat
  /\ Capacity \in Nat
  /\ HelperCrashes \in BOOLEAN

VARIABLES
  \* native driver
  initialized, session, bridge_online,
  heard,           \* last_helper_packet_ is not the zero time
  slots,           \* trackers_
  \* SteamVR
  object,          \* object_id_: "none", "added" (accepted by SteamVR), "active"
  shown,           \* the last pose each relay object published
  container,       \* the property container of each relay object
  \* sockets
  toNative, toHelper,
  losses,          \* datagrams lost so far
  \* helper process
  helper,          \* session of the running helper, 0 if there is none
  launches,        \* sessions whose launcher has not started its helper yet
  trackers,        \* trackers_: the registered drivers, in index order
  last_pose,       \* has_pose and last_pose, 0 before the first pose
  properties,
  known,           \* indices the DLL has learned from Activate
  job,             \* what each helper thread is in the middle of
  updates,
  registered       \* history: serials the DLL ever registered

nativeVars == <<initialized, session, bridge_online, heard>>
steamVars == <<object, shown, container>>
linkVars == <<toNative, toHelper, losses>>
tableVars == <<trackers, last_pose, properties, known, updates, registered>>
processVars == <<helper, launches>>
vars == <<nativeVars, slots, steamVars, linkVars, tableVars, processVars, job>>

-----------------------------------------------------------------------------
Slot == 1..NumSlots
Index == 1..HelperCapacity
Session == 1..MaxSessions

\* A pose is the driver that computed it and its number; 0 is DisconnectedPose.
Disconnected == [driver |-> NoDriver, n |-> 0]
Pose == [driver : Drivers, n : 1..MaxUpdates] \cup {Disconnected}

Write == Values \cup {"error", "erase"}
Stored == Values \cup {"unset", "error"}
Relayed == (Values \ Oversized) \cup {"error", "erase", "empty"}

EmptySlot == [configured |-> FALSE, remote |-> 0, serial |-> NoSerial,
              pose |-> Disconnected, cache |-> [p \in Props |-> "unset"]]
SlotState == [configured : BOOLEAN, remote : Nat, serial : Serials \cup {NoSerial},
              pose : Pose, cache : [Props -> Relayed \cup {"unset"}]]

ToNative ==
  [type : {"Heartbeat"}, session : Session]
    \cup [type : {"TrackerAdded"}, session : Session, index : Index, serial : Serials]
    \cup [type : {"TrackerProperty"}, session : Session, index : Index,
          prop : Props, write : Relayed]
    \cup [type : {"TrackerPose"}, session : Session, index : Index,
          pose : Pose, replayed : BOOLEAN]
ToHelper == [type : {"Hello", "Shutdown"}, session : Session]

Idle == [op |-> "idle"]
Job ==
  {Idle, [op |-> "exit"]}
    \cup [op : {"added", "activate"}, index : Index]
    \cup [op : {"pose"}, index : Index, n : 1..MaxUpdates]
    \cup [op : {"property"}, index : Index, prop : Props, write : Write]
    \cup [op : {"replay", "copy", "send"}, at : Index, upto : Index,
          poses : [Index -> 0..MaxUpdates], pending : SUBSET (Props \X Relayed)]

Init ==
  /\ initialized = FALSE
  /\ session = 0
  /\ bridge_online = FALSE
  /\ heard = FALSE
  /\ slots = [s \in Slot |-> EmptySlot]
  /\ object = [s \in Slot |-> "none"]
  /\ shown = [s \in Slot |-> Disconnected]
  /\ container = [s \in Slot |-> [p \in Props |-> "unset"]]
  /\ toNative = <<>>
  /\ toHelper = <<>>
  /\ losses = 0
  /\ helper = 0
  /\ launches = {}
  /\ trackers = <<>>
  /\ last_pose = [i \in Index |-> 0]
  /\ properties = [i \in Index |-> [p \in Props |-> "unset"]]
  /\ known = {}
  /\ job = [t \in Threads |-> Idle]
  /\ updates = 0
  /\ registered = {}

-----------------------------------------------------------------------------
(* The loopback sockets keep the order of one sender.  A datagram is lost  *)
(* when nobody has bound the port, or, within the budget MaxLosses, when   *)
(* the receive buffer is full.  Capacity holds a sender back: a bound of   *)
(* the model, the program never waits.                                     *)

\* MUTANT of Deliver: a datagram may overtake those already waiting.
DeliverMutant(m) == /\ Len(toNative) < Capacity
                    /\ toNative' \in {Append(toNative, m), <<m>> \o toNative}
                    /\ UNCHANGED losses

Deliver(m) == /\ Len(toNative) < Capacity
              /\ toNative' = Append(toNative, m)
              /\ UNCHANGED losses
Lose == /\ losses < MaxLosses
        /\ losses' = losses + 1

Transmit(m) == IF initialized THEN Deliver(m) \/ (Lose /\ UNCHANGED toNative)
                              ELSE UNCHANGED <<toNative, losses>>
SendToNative(m) == Transmit(m) /\ UNCHANGED toHelper

SendToHelper(m) ==
  IF helper # 0 /\ Len(toHelper) < Capacity
  THEN \/ toHelper' = Append(toHelper, m) /\ UNCHANGED losses
       \/ Lose /\ UNCHANGED toHelper
  ELSE UNCHANGED <<toHelper, losses>>

-----------------------------------------------------------------------------
(* Native driver: the slot array and the relay objects.                    *)

Smallest(S) == CHOOSE s \in S : \A r \in S : s <= r

\* MUTANT of WithSerial: only trackers SteamVR has activated are searched.
WithSerialMutant(serial) == {s \in Slot : object[s] = "active" /\ slots[s].serial = serial}

WithSerial(serial) == {s \in Slot : slots[s].configured /\ slots[s].serial = serial}
WithRemote(index) == {s \in Slot : slots[s].configured /\ slots[s].remote = index}
Unconfigured == {s \in Slot : ~ slots[s].configured}

\* MUTANT of FindTrackerByRemote: the first configured slot, whatever its index.
FindTrackerByRemoteMutant(index) == Smallest(Slot \ Unconfigured)

FindTrackerBySerial(serial) == Smallest(WithSerial(serial))
FindTrackerByRemote(index) == Smallest(WithRemote(index))
\* MUTANT of AcquireTracker: the last slot, in use or not.
AcquireTrackerMutant == NumSlots
AcquireTracker == Smallest(Unconfigured)

\* Configure resets pose_ without publishing it, and keeps the property cache.
Configure(s, m) ==
  slots' = [slots EXCEPT ![s] = [@ EXCEPT !.configured = TRUE, !.remote = m.index,
                                          !.serial = m.serial, !.pose = Disconnected]]

\* MUTANT of DisconnectTrackers: pose_ is reset but not published.
DisconnectTrackersMutant ==
  /\ slots' = [s \in Slot |-> [slots[s] EXCEPT !.pose = Disconnected]]
  /\ UNCHANGED steamVars

\* MarkDisconnected on every configured tracker.
DisconnectTrackers ==
  /\ slots' = [s \in Slot |-> IF slots[s].configured
                              THEN [slots[s] EXCEPT !.pose = Disconnected]
                              ELSE slots[s]]
  /\ shown' = [s \in Slot |-> IF slots[s].configured /\ object[s] = "active"
                              THEN Disconnected ELSE shown[s]]
  /\ UNCHANGED <<object, container>>

NativeInit ==
  /\ ~ initialized
  /\ session < MaxSessions
  /\ initialized' = TRUE
  /\ session' = session + 1
  /\ heard' = FALSE
  /\ launches' = launches \cup {session + 1}
  /\ toNative' = <<>>
  /\ SendToHelper([type |-> "Hello", session |-> session + 1])
  /\ UNCHANGED <<bridge_online, slots, steamVars, tableVars, helper, job>>

Cleanup ==
  /\ initialized
  /\ SendToHelper([type |-> "Shutdown", session |-> session])
  /\ DisconnectTrackers
  /\ toNative' = <<>>
  /\ initialized' = FALSE
  /\ UNCHANGED <<session, bridge_online, heard, tableVars, processVars, job>>

SendHello ==
  /\ initialized
  /\ Len(toHelper) < Capacity
  /\ SendToHelper([type |-> "Hello", session |-> session])
  /\ UNCHANGED <<nativeVars, slots, steamVars, toNative, tableVars, processVars, job>>

CheckHelperTimeout ==
  /\ initialized
  /\ bridge_online
  /\ heard
  /\ DisconnectTrackers
  /\ bridge_online' = FALSE
  /\ UNCHANGED <<initialized, session, heard, linkVars, tableVars, processVars, job>>

\* What every datagram of this session does before it is dispatched.
Take(type) ==
  /\ initialized
  /\ toNative # <<>>
  /\ Head(toNative).session = session
  /\ Head(toNative).type = type
  /\ toNative' = Tail(toNative)
  /\ bridge_online' = TRUE
  /\ heard' = TRUE
  /\ UNCHANGED <<initialized, session, toHelper, losses, tableVars, processVars, job>>

RejectDatagram ==
  /\ initialized
  /\ toNative # <<>>
  /\ Head(toNative).session # session
  /\ toNative' = Tail(toNative)
  /\ UNCHANGED <<nativeVars, slots, steamVars, toHelper, losses, tableVars, processVars, job>>

OnHeartbeat == Take("Heartbeat") /\ UNCHANGED <<slots, steamVars>>

OnTrackerAdded ==
  LET m == Head(toNative) IN
  /\ Take("TrackerAdded")
  /\ \/ /\ WithSerial(m.serial) = {}
        /\ Unconfigured # {}
        /\ Configure(AcquireTracker, m)
        /\ \E accepted \in BOOLEAN :
             object' = IF accepted THEN [object EXCEPT ![AcquireTracker] = "added"]
                                   ELSE object
     \/ /\ WithSerial(m.serial) = {}
        /\ Unconfigured = {}
        /\ UNCHANGED <<slots, object>>
     \/ /\ WithSerial(m.serial) # {}
        /\ IF slots[FindTrackerBySerial(m.serial)].remote # m.index
           THEN Configure(FindTrackerBySerial(m.serial), m)
           ELSE UNCHANGED slots
        /\ UNCHANGED object
  /\ UNCHANGED <<shown, container>>

\* What SteamVR reads once a cached write has been applied to the container.
Applied(write) == IF write = "erase" THEN "unset" ELSE write

OnTrackerProperty ==
  LET m == Head(toNative)
      s == FindTrackerByRemote(m.index) IN
  /\ Take("TrackerProperty")
  /\ IF WithRemote(m.index) # {}
     THEN /\ slots' = [slots EXCEPT ![s].cache[m.prop] = m.write]
          /\ container' = IF object[s] = "active"
                          THEN [container EXCEPT ![s][m.prop] = Applied(m.write)]
                          ELSE container
     ELSE UNCHANGED <<slots, container>>
  /\ UNCHANGED <<object, shown>>

OnTrackerPose ==
  LET m == Head(toNative)
      s == FindTrackerByRemote(m.index) IN
  /\ Take("TrackerPose")
  /\ IF WithRemote(m.index) # {}
     THEN /\ slots' = [slots EXCEPT ![s].pose = m.pose]
          /\ shown' = IF object[s] = "active" THEN [shown EXCEPT ![s] = m.pose] ELSE shown
     ELSE UNCHANGED <<slots, shown>>
  /\ UNCHANGED <<object, container>>

Receive == \/ RejectDatagram \/ OnHeartbeat \/ OnTrackerAdded
           \/ OnTrackerProperty \/ OnTrackerPose

\* MUTANT of Activate: the defaults are applied over the cached properties.
ActivateMutant(s) ==
  /\ object[s] = "added"
  /\ object' = [object EXCEPT ![s] = "active"]
  /\ container' = [container EXCEPT ![s] = [p \in Props |-> "default"]]
  /\ UNCHANGED <<nativeVars, slots, shown, linkVars, tableVars, processVars, job>>

\* RelayTracker::Activate, called by SteamVR on a device it accepted: the
\* defaults first, then every cached property over them.
Activate(s) ==
  /\ object[s] = "added"
  /\ object' = [object EXCEPT ![s] = "active"]
  /\ container' = [container EXCEPT ![s] =
       [p \in Props |-> IF slots[s].cache[p] = "unset" THEN "default"
                        ELSE Applied(slots[s].cache[p])]]
  /\ UNCHANGED <<nativeVars, slots, shown, linkVars, tableVars, processVars, job>>

\* RelayTracker::Deactivate: SteamVR removes the device and drops its state.
Deactivate(s) ==
  /\ object[s] = "active"
  /\ object' = [object EXCEPT ![s] = "added"]
  /\ shown' = [shown EXCEPT ![s] = Disconnected]
  /\ container' = [container EXCEPT ![s] = [p \in Props |-> "unset"]]
  /\ UNCHANGED <<nativeVars, slots, linkVars, tableVars, processVars, job>>

-----------------------------------------------------------------------------
(* Helper process.                                                         *)

Heartbeat == [type |-> "Heartbeat", session |-> helper]
TrackerAdded(i) == [type |-> "TrackerAdded", session |-> helper, index |-> i,
                    serial |-> SerialOf[trackers[i]]]
TrackerProperty(i, p, w) == [type |-> "TrackerProperty", session |-> helper,
                             index |-> i, prop |-> p, write |-> w]
TrackerPose(i, n, again) == [type |-> "TrackerPose", session |-> helper, index |-> i,
                             pose |-> [driver |-> trackers[i], n |-> n],
                             replayed |-> again]

Registered == 1..Len(trackers)
Goto(t, j) == job' = [job EXCEPT ![t] = j]

\* The launcher starts one helper per Init; bridge.lock keeps them apart.
HelperStart(s) ==
  /\ helper = 0
  /\ s \in launches
  /\ helper' = s
  /\ launches' = launches \ {s}
  /\ toHelper' = <<>>
  /\ UNCHANGED <<nativeVars, slots, steamVars, toNative, losses, tableVars, job>>

\* The process ends: Shutdown, ten seconds without the native driver, or killed.
HelperStop ==
  /\ helper # 0
  /\ \/ job[Main].op = "exit"
     \/ ~ initialized \/ session # helper
     \/ HelperCrashes
  /\ helper' = 0
  /\ trackers' = <<>>
  /\ last_pose' = [i \in Index |-> 0]
  /\ properties' = [i \in Index |-> [p \in Props |-> "unset"]]
  /\ known' = {}
  /\ job' = [t \in Threads |-> Idle]
  /\ toHelper' = <<>>
  /\ UNCHANGED <<nativeVars, slots, steamVars, toNative, losses, updates, registered, launches>>

\* SendHello at startup, the 250 ms heartbeat, status and log datagrams.
SendHeartbeat ==
  /\ helper # 0
  /\ job[Main] = Idle
  /\ SendToNative(Heartbeat)
  /\ UNCHANGED <<nativeVars, slots, steamVars, tableVars, processVars, job>>

\* MUTANT of HelperReceive: a Hello is answered with a heartbeat, not a replay.
HelperReceiveMutant ==
  /\ helper # 0
  /\ job[Main] = Idle
  /\ toHelper # <<>>
  /\ toHelper' = Tail(toHelper)
  /\ IF Head(toHelper).type = "Hello" /\ Head(toHelper).session = helper
     THEN Transmit(Heartbeat) ELSE UNCHANGED <<toNative, losses>>
  /\ UNCHANGED <<nativeVars, slots, steamVars, tableVars, processVars, job>>

HelperReceive ==
  /\ helper # 0
  /\ job[Main] = Idle
  /\ toHelper # <<>>
  /\ toHelper' = Tail(toHelper)
  /\ LET m == Head(toHelper) IN
     IF m.session # helper THEN UNCHANGED <<toNative, losses, job>>
     ELSE IF m.type = "Shutdown"
          THEN Goto(Main, [op |-> "exit"]) /\ UNCHANGED <<toNative, losses>>
          ELSE /\ Transmit(Heartbeat)
               /\ IF trackers = <<>> THEN UNCHANGED job
                  ELSE Goto(Main, [op |-> "replay", at |-> 1, upto |-> Len(trackers),
                                   poses |-> last_pose, pending |-> {}])
  /\ UNCHANGED <<nativeVars, slots, steamVars, tableVars, processVars>>

\* ReplayTrackers works through a copy of trackers_ taken under state_mutex_.
ReplayAdded ==
  LET j == job[Main] IN
  /\ j.op = "replay"
  /\ SendToNative(TrackerAdded(j.at))
  /\ Goto(Main, [j EXCEPT !.op = "copy"])
  /\ UNCHANGED <<nativeVars, slots, steamVars, tableVars, processVars>>

\* An error is replayed as an empty Set: write_type is always PropertyWrite_Set.
AsReplayed(value) == IF value = "error" THEN "empty" ELSE value

\* MUTANT of ReplayCopy: the replay carries no properties.
ReplayCopyMutant ==
  /\ job[Main].op = "copy"
  /\ Goto(Main, [job[Main] EXCEPT !.op = "send"])
  /\ UNCHANGED <<nativeVars, slots, steamVars, linkVars, tableVars, processVars>>

ReplayCopy ==
  LET j == job[Main]
      kept == {p \in Props : properties[j.at][p] \notin Oversized \cup {"unset"}} IN
  /\ j.op = "copy"
  /\ Goto(Main, [j EXCEPT !.op = "send",
       !.pending = {<<p, AsReplayed(properties[j.at][p])>> : p \in kept}])
  /\ UNCHANGED <<nativeVars, slots, steamVars, linkVars, tableVars, processVars>>

ReplayProperty ==
  LET j == job[Main] IN
  /\ j.op = "send"
  /\ \E e \in j.pending :
       /\ SendToNative(TrackerProperty(j.at, e[1], e[2]))
       /\ Goto(Main, [j EXCEPT !.pending = @ \ {e}])
  /\ UNCHANGED <<nativeVars, slots, steamVars, tableVars, processVars>>

\* MUTANT of ReplayPose: the replay carries no pose.
ReplayPoseMutant ==
  LET j == job[Main] IN
  /\ j.op = "send"
  /\ j.pending = {}
  /\ Goto(Main, IF j.at = j.upto THEN Idle ELSE [j EXCEPT !.op = "replay", !.at = @ + 1])
  /\ UNCHANGED <<nativeVars, slots, steamVars, linkVars, tableVars, processVars>>

\* The pose sent is the one in the copy, not the tracker's current one.
ReplayPose ==
  LET j == job[Main] IN
  /\ j.op = "send"
  /\ j.pending = {}
  /\ IF j.poses[j.at] # 0 THEN SendToNative(TrackerPose(j.at, j.poses[j.at], TRUE))
                          ELSE UNCHANGED linkVars
  /\ Goto(Main, IF j.at = j.upto THEN Idle ELSE [j EXCEPT !.op = "replay", !.at = @ + 1])
  /\ UNCHANGED <<nativeVars, slots, steamVars, tableVars, processVars>>

-----------------------------------------------------------------------------
(* Calls of the original DLL, on its own threads or from RunFrame on Main. *)

\* MUTANT of TrackedDeviceAdded: the index is taken before the insertion.
TrackedDeviceAddedMutant(d) ==
  /\ helper # 0
  /\ job[ThreadOf[d]] = Idle
  /\ \A i \in Registered : trackers[i] # d
  /\ Len(trackers) < HelperCapacity
  /\ trackers' = Append(trackers, d)
  /\ registered' = registered \cup {SerialOf[d]}
  /\ Goto(ThreadOf[d], [op |-> "added", index |-> Len(trackers)])
  /\ UNCHANGED <<nativeVars, slots, steamVars, linkVars, last_pose, properties, known,
                 updates, processVars>>

\* TrackedDeviceAdded up to the unlock; a registered driver or a full table
\* changes nothing.
TrackedDeviceAdded(d) ==
  /\ helper # 0
  /\ job[ThreadOf[d]] = Idle
  /\ \A i \in Registered : trackers[i] # d
  /\ Len(trackers) < HelperCapacity
  /\ trackers' = Append(trackers, d)
  /\ registered' = registered \cup {SerialOf[d]}
  /\ Goto(ThreadOf[d], [op |-> "added", index |-> Len(trackers) + 1])
  /\ UNCHANGED <<nativeVars, slots, steamVars, linkVars, last_pose, properties, known,
                 updates, processVars>>

\* MUTANT of SendTrackerAdded: the announcement is left to the next replay.
SendTrackerAddedMutant(t) ==
  /\ job[t].op = "added"
  /\ Goto(t, [op |-> "activate", index |-> job[t].index])
  /\ UNCHANGED <<nativeVars, slots, steamVars, linkVars, tableVars, processVars>>

SendTrackerAdded(t) ==
  /\ job[t].op = "added"
  /\ SendToNative(TrackerAdded(job[t].index))
  /\ Goto(t, [op |-> "activate", index |-> job[t].index])
  /\ UNCHANGED <<nativeVars, slots, steamVars, tableVars, processVars>>

\* driver->Activate(index): from here on the DLL uses the index, and an
\* activation error leaves the registration in place.
ActivateDriver(t) ==
  /\ job[t].op = "activate"
  /\ known' = known \cup {job[t].index}
  /\ Goto(t, Idle)
  /\ UNCHANGED <<nativeVars, slots, steamVars, linkVars, trackers, last_pose, properties,
                 updates, registered, processVars>>

\* TrackedDevicePoseUpdated stores the pose under state_mutex_ ...
TrackedDevicePoseUpdated(i) ==
  /\ i \in known
  /\ job[ThreadOf[trackers[i]]] = Idle
  /\ updates < MaxUpdates
  /\ updates' = updates + 1
  /\ last_pose' = [last_pose EXCEPT ![i] = updates + 1]
  /\ Goto(ThreadOf[trackers[i]], [op |-> "pose", index |-> i, n |-> updates + 1])
  /\ UNCHANGED <<nativeVars, slots, steamVars, linkVars, trackers, properties, known,
                 registered, processVars>>

\* ... and sends it after the unlock.
SendTrackerPose(t) ==
  /\ job[t].op = "pose"
  /\ SendToNative(TrackerPose(job[t].index, job[t].n, FALSE))
  /\ Goto(t, Idle)
  /\ UNCHANGED <<nativeVars, slots, steamVars, tableVars, processVars>>

\* WritePropertyBatch, one entry: store under property_mutex_ ...
WriteProperty(i, p, w) ==
  /\ i \in known
  /\ job[ThreadOf[trackers[i]]] = Idle
  /\ updates < MaxUpdates
  /\ updates' = updates + 1
  /\ properties' = [properties EXCEPT ![i][p] = IF w = "erase" THEN "unset" ELSE w]
  /\ Goto(ThreadOf[trackers[i]], [op |-> "property", index |-> i, prop |-> p, write |-> w])
  /\ UNCHANGED <<nativeVars, slots, steamVars, linkVars, trackers, last_pose, known,
                 registered, processVars>>

\* ... then RelayTrackerProperty, which skips an oversized value.
RelayTrackerProperty(t) ==
  LET j == job[t] IN
  /\ j.op = "property"
  /\ IF j.write \in Oversized THEN UNCHANGED linkVars
     ELSE SendToNative(TrackerProperty(j.index, j.prop, j.write))
  /\ Goto(t, Idle)
  /\ UNCHANGED <<nativeVars, slots, steamVars, tableVars, processVars>>

-----------------------------------------------------------------------------
NativeStep == NativeInit \/ Cleanup \/ SendHello \/ CheckHelperTimeout \/ Receive
SteamStep == \E s \in Slot : Activate(s) \/ Deactivate(s)
ProcessStep == HelperStop \/ (\E s \in launches : HelperStart(s))
MainStep == \/ SendHeartbeat \/ HelperReceive
            \/ ReplayAdded \/ ReplayCopy \/ ReplayProperty \/ ReplayPose
CallStep == \/ \E d \in Drivers : TrackedDeviceAdded(d)
            \/ \E i \in known : TrackedDevicePoseUpdated(i)
            \/ \E i \in known, p \in Props, w \in Write : WriteProperty(i, p, w)
FinishCall(t) == \/ SendTrackerAdded(t) \/ ActivateDriver(t)
                 \/ SendTrackerPose(t) \/ RelayTrackerProperty(t)

Next == \/ NativeStep \/ SteamStep \/ ProcessStep \/ MainStep
        \/ CallStep \/ (\E t \in Threads : FinishCall(t))

Spec == Init /\ [][Next]_vars
-----------------------------------------------------------------------------
(* Properties.                                                             *)

NativeTypeOK ==
  /\ initialized \in BOOLEAN
  /\ session \in 0..MaxSessions
  /\ initialized => session # 0
  /\ bridge_online \in BOOLEAN
  /\ heard \in BOOLEAN
  /\ slots \in [Slot -> SlotState]
  /\ object \in [Slot -> {"none", "added", "active"}]
  /\ shown \in [Slot -> Pose]
  /\ container \in [Slot -> [Props -> Relayed \cup {"unset", "default"}]]

LinkTypeOK ==
  /\ toNative \in Seq(ToNative)
  /\ toHelper \in Seq(ToHelper)
  /\ losses \in 0..MaxLosses

TableTypeOK ==
  /\ helper \in 0..MaxSessions
  /\ launches \subseteq Session
  /\ trackers \in Seq(Drivers)
  /\ Len(trackers) <= HelperCapacity
  /\ last_pose \in [Index -> 0..MaxUpdates]
  /\ properties \in [Index -> [Props -> Stored]]
  /\ known \subseteq Registered
  /\ updates \in 0..MaxUpdates
  /\ registered \subseteq Serials
  /\ helper = 0 => trackers = <<>>

\* A thread only ever works on registered trackers, for a running helper.
JobOK(j) ==
  /\ j.op \in {"added", "activate", "pose", "property"} => j.index \in Registered
  /\ j.op \in {"replay", "copy", "send"} => j.at <= j.upto /\ j.upto \in Registered
  /\ helper = 0 => j = Idle
JobTypeOK ==
  /\ job \in [Threads -> Job]
  /\ \A t \in Threads : JobOK(job[t])

\* Every variable stays within its type, and a thread only ever works for a
\* running helper on a tracker that is registered.
TypeOK == NativeTypeOK /\ LinkTypeOK /\ TableTypeOK /\ JobTypeOK

\* OnTrackerAdded never gives two relay objects the same serial, however often
\* a registration is replayed, lost, re-sent by a later helper or re-indexed.
SlotPerSerial ==
  \A r, s \in Slot :
    slots[r].configured /\ slots[s].configured /\ slots[r].serial = slots[s].serial => r = s

\* A relay object is connected, for the driver or in what SteamVR was last
\* told, only between Init and Cleanup and while bridge_online_ holds: neither
\* the helper's timeout nor Cleanup leaves a live-looking tracker behind.
ConnectedOnlyWhileOnline ==
  \A s \in Slot :
    slots[s].pose # Disconnected \/ shown[s] # Disconnected => initialized /\ bridge_online

\* Once active, a relay object's SteamVR container is the defaults overlaid
\* with the cached writes, whichever of UpdateProperty, Configure, Activate and
\* Deactivate came first.
ContainerMirrorsCache ==
  \A s \in Slot : object[s] = "active" =>
    \A p \in Props :
      container[s][p] = IF slots[s].cache[p] = "unset" THEN "default"
                        ELSE Applied(slots[s].cache[p])

\* A relay object only ever carries poses the original DLL computed for the
\* tracker with that serial.
PoseFromOwnTracker ==
  \A s \in Slot : slots[s].pose # Disconnected =>
    SerialOf[slots[s].pose.driver] = slots[s].serial

\* That holds in the first session, for which Init finds an empty trackers_,
\* whatever is lost, replayed, re-sent or timed out and when the helper is
\* killed; the remote indices a later session inherits are what can break it.
PoseFromOwnTrackerAtFirst == session <= 1 => PoseFromOwnTracker

\* TrackedDeviceAdded announces a tracker before the DLL can write to it: with
\* nothing lost, every update of this session in flight finds a relay object
\* when it arrives.
NoOrphanUpdates ==
  initialized /\ helper = session /\ losses = 0 =>
    \A k \in 1..Len(toNative) :
      toNative[k].session = session /\ toNative[k].type \in {"TrackerProperty", "TrackerPose"} =>
        \/ WithRemote(toNative[k].index) # {}
        \/ \E h \in 1..(k - 1) : /\ toNative[h].type = "TrackerAdded"
                                 /\ toNative[h].session = session
                                 /\ toNative[h].index = toNative[k].index

\* The pose of a relay object goes back to an older one of the same tracker
\* only through ReplayTrackers' copy, never through the live path.
LivePosesInOrder ==
  [][\A s \in Slot :
       /\ slots[s].pose # Disconnected
       /\ slots'[s].pose.driver = slots[s].pose.driver
       /\ slots'[s].pose.n < slots[s].pose.n
       => Head(toNative).replayed]_vars

\* With nothing lost and nothing in progress, the native cache holds exactly
\* the property values the original DLL wrote.
PropertiesRelayed ==
  /\ initialized /\ helper = session /\ losses = 0 /\ toNative = <<>>
  /\ \A t \in Threads : job[t] = Idle
  => \A i \in Registered, p \in Props :
       properties[i][p] \notin Oversized \cup {"unset"} =>
         \E s \in WithSerial(SerialOf[trackers[i]]) : slots[s].cache[p] = properties[i][p]

\* The detailed driver, helper and link implement RelayContract.
Contract == INSTANCE RelayContract WITH
  relays <- {slots[s].serial : s \in {r \in Slot : slots[r].configured}},
  connected <- {slots[s].serial : s \in {r \in Slot : slots[r].pose # Disconnected}},
  online <- bridge_online
RefinesContract == Contract!Spec

-----------------------------------------------------------------------------
(* Liveness.  Weak fairness for what a running thread does next: RunFrame's *)
(* receive loop and two-second Hello, the helper's main loop, the rest of a *)
(* call a thread has begun.  Strong fairness where the Capacity bound can   *)
(* hold a sender back again and again, which the program does not.          *)

Fairness ==
  /\ WF_vars(Receive)
  /\ WF_vars(SendHello)
  /\ SF_vars(HelperReceive)
  /\ WF_vars(ReplayAdded \/ ReplayCopy \/ ReplayProperty \/ ReplayPose)
  /\ \A t \in Threads : SF_vars(FinishCall(t))

FairSpec == Spec /\ Fairness

LinkUp == initialized /\ helper = session /\ job[Main].op # "exit"
RelayOf(i) == WithSerial(SerialOf[trackers[i]])

\* A registration whose datagrams were lost is repaired by the Hello/replay
\* exchange: the tracker gets its relay object under its current index.
RegistrationRelayed ==
  \A i \in Index :
    LinkUp /\ i \in Registered
      ~> ~ LinkUp \/ (i \in Registered /\ \E s \in RelayOf(i) : slots[s].remote = i)

\* Whatever was lost, timed out or overtaken by a replay, the relay object
\* comes back to the last pose the DLL submitted.
PosesConverge ==
  \A i \in Index :
    []<>(LinkUp /\ i \in Registered /\ last_pose[i] # 0 =>
           \E s \in RelayOf(i) : slots[s].pose = [driver |-> trackers[i], n |-> last_pose[i]])

\* The same for a property that is set and fits a datagram, up to the form in
\* which ReplayTrackers sends an error.
PropertiesConverge ==
  \A i \in Index, p \in Props :
    []<>(LinkUp /\ i \in Registered /\ properties[i][p] \notin Oversized \cup {"unset"} =>
           \E s \in RelayOf(i) :
             slots[s].cache[p] \in {properties[i][p], AsReplayed(properties[i][p])})
=============================================================================
