------------------------- MODULE TrackerRelayProofs -------------------------
(***************************************************************************)
(* Theorems about TrackerRelay for every set of trackers, any number of    *)
(* slots, sessions and losses.                                             *)
(***************************************************************************)
EXTENDS TrackerRelay, WellFoundedInduction, TLAPS

-----------------------------------------------------------------------------
(* Type correctness.                                                       *)

LEMMA NativeFrame ==
  ASSUME NativeTypeOK, UNCHANGED <<nativeVars, slots, steamVars>>
  PROVE  NativeTypeOK'
  BY DEF NativeTypeOK, nativeVars, steamVars

LEMMA TableFrame ==
  ASSUME TableTypeOK, UNCHANGED <<tableVars, processVars>>
  PROVE  TableTypeOK'
  BY DEF TableTypeOK, tableVars, processVars, Registered

LEMMA LinkFrame ==
  ASSUME LinkTypeOK, UNCHANGED linkVars
  PROVE  LinkTypeOK'
  BY DEF LinkTypeOK, linkVars

LEMMA JobFrame ==
  ASSUME JobTypeOK, UNCHANGED <<job, trackers, helper>>
  PROVE  JobTypeOK'
  BY DEF JobTypeOK, JobOK, Registered, Idle

\* What a thread goes on to do leaves the jobs of the others well formed.
LEMMA GotoType ==
  ASSUME JobTypeOK, NEW t \in Threads, NEW j \in Job, JobOK(j), Goto(t, j),
         UNCHANGED <<helper, trackers>>
  PROVE  JobTypeOK'
<1>1. job' \in [Threads -> Job]
  BY DEF JobTypeOK, Goto
<1>2. ASSUME NEW u \in Threads PROVE JobOK(job'[u])
  BY DEF JobTypeOK, Goto
<1>3. ASSUME NEW k, JobOK(k) PROVE JobOK(k)'
  BY <1>3 DEF JobOK, Registered, Idle
<1>4. QED  BY <1>1, <1>2, <1>3 DEF JobTypeOK, JobOK, Registered, Idle

LEMMA TransmitType ==
  ASSUME LinkTypeOK, NEW m \in ToNative, SendToNative(m)
  PROVE  LinkTypeOK'
<1>1. toNative' \in Seq(ToNative)
  BY DEF LinkTypeOK, SendToNative, Transmit, Deliver, Lose
<1>2. losses' \in 0..MaxLosses
  BY SizeAssumption DEF LinkTypeOK, SendToNative, Transmit, Deliver, Lose
<1>3. QED  BY <1>1, <1>2 DEF LinkTypeOK, SendToNative

LEMMA ToHelperType ==
  ASSUME LinkTypeOK, NEW m \in ToHelper, SendToHelper(m),
         toNative' \in {toNative, <<>>}
  PROVE  LinkTypeOK'
<1>1. toHelper' \in Seq(ToHelper)
  BY DEF LinkTypeOK, SendToHelper, Lose
<1>2. losses' \in 0..MaxLosses
  BY SizeAssumption DEF LinkTypeOK, SendToHelper, Lose
<1>3. toNative' \in Seq(ToNative)
  <2>1. <<>> \in Seq(ToNative) /\ toNative \in Seq(ToNative)
    BY DEF LinkTypeOK
  <2>2. QED  BY <2>1
<1>4. QED  BY <1>1, <1>2, <1>3 DEF LinkTypeOK

LEMMA DisconnectType ==
  ASSUME NativeTypeOK, DisconnectTrackers
  PROVE  /\ slots' \in [Slot -> SlotState]
         /\ object' \in [Slot -> {"none", "added", "active"}]
         /\ shown' \in [Slot -> Pose]
         /\ container' \in [Slot -> [Props -> Relayed \cup {"unset", "default"}]]
<1>1. \A s \in Slot : slots[s] \in SlotState
  BY DEF NativeTypeOK
<1>2. slots' \in [Slot -> SlotState]
  <2>1. \A s \in Slot : [slots[s] EXCEPT !.pose = Disconnected] \in SlotState
    BY <1>1 DEF SlotState, Pose
  <2>2. QED  BY <1>1, <2>1 DEF DisconnectTrackers
<1>3. shown' \in [Slot -> Pose]
  BY DEF NativeTypeOK, DisconnectTrackers, Pose
<1>4. QED  BY <1>2, <1>3 DEF NativeTypeOK, DisconnectTrackers

LEMMA InitType == Init => TypeOK
<1> SUFFICES ASSUME Init PROVE TypeOK  OBVIOUS
<1>1. EmptySlot \in SlotState /\ Disconnected \in Pose
  BY DEF EmptySlot, SlotState, Pose
<1>2. NativeTypeOK
  <2>1. 0 \in 0..MaxSessions
    BY SizeAssumption
  <2>2. slots \in [Slot -> SlotState] /\ shown \in [Slot -> Pose]
    BY <1>1 DEF Init
  <2>3. container \in [Slot -> [Props -> Relayed \cup {"unset", "default"}]]
    BY DEF Init
  <2>4. QED  BY <2>1, <2>2, <2>3 DEF Init, NativeTypeOK
<1>3. LinkTypeOK
  BY SizeAssumption DEF Init, LinkTypeOK
<1>4. TableTypeOK
  BY SizeAssumption DEF Init, TableTypeOK, Stored
<1>5. JobTypeOK
  BY DEF Init, JobTypeOK, JobOK, Job, Idle
<1>6. QED  BY <1>2, <1>3, <1>4, <1>5 DEF TypeOK

\* The datagrams the helper builds are well formed.
LEMMA Datagrams ==
  ASSUME TypeOK, helper # 0
  PROVE  /\ Heartbeat \in ToNative
         /\ \A i \in Registered : TrackerAdded(i) \in ToNative
         /\ \A i \in Registered, p \in Props, w \in Relayed : TrackerProperty(i, p, w) \in ToNative
         /\ \A i \in Registered, n \in 1..MaxUpdates, again \in BOOLEAN :
              TrackerPose(i, n, again) \in ToNative
<1>1. helper \in Session
  BY SizeAssumption DEF TypeOK, TableTypeOK, Session
<1>2. \A i \in Registered : i \in Index /\ trackers[i] \in Drivers
  BY SizeAssumption DEF TypeOK, TableTypeOK, Registered, Index
<1>3. Heartbeat \in ToNative
  BY <1>1 DEF Heartbeat, ToNative
<1>4. \A i \in Registered : TrackerAdded(i) \in ToNative
  BY <1>1, <1>2, DriverAssumption DEF TrackerAdded, ToNative
<1>5. \A i \in Registered, p \in Props, w \in Relayed : TrackerProperty(i, p, w) \in ToNative
  BY <1>1, <1>2 DEF TrackerProperty, ToNative
<1>6. \A i \in Registered, n \in 1..MaxUpdates, again \in BOOLEAN :
        TrackerPose(i, n, again) \in ToNative
  BY <1>1, <1>2 DEF TrackerPose, ToNative, Pose
<1>7. QED  BY <1>3, <1>4, <1>5, <1>6

LEMMA NativeStepType ==
  ASSUME TypeOK, NativeInit \/ Cleanup \/ SendHello \/ CheckHelperTimeout
  PROVE  TypeOK'
<1> USE DEF TypeOK
<1>1. CASE NativeInit
  <2>1. NativeTypeOK'
    <3>1. session' \in 0..MaxSessions /\ session' # 0
      BY <1>1, SizeAssumption DEF NativeInit, NativeTypeOK
    <3>2. QED  BY <1>1, <3>1 DEF NativeInit, NativeTypeOK, steamVars
  <2>2. LinkTypeOK'
    <3>1. [type |-> "Hello", session |-> session + 1] \in ToHelper
      BY <1>1, SizeAssumption DEF NativeInit, NativeTypeOK, ToHelper, Session
    <3>2. QED  BY <1>1, <3>1, ToHelperType DEF NativeInit
  <2>3. TableTypeOK'
    BY <1>1, SizeAssumption
    DEF NativeInit, NativeTypeOK, TableTypeOK, tableVars, Registered, Session
  <2>4. JobTypeOK'
    BY <1>1, JobFrame DEF NativeInit, tableVars
  <2>5. QED  BY <2>1, <2>2, <2>3, <2>4
<1>2. CASE Cleanup
  <2>1. NativeTypeOK'
    BY <1>2, DisconnectType DEF Cleanup, NativeTypeOK
  <2>2. LinkTypeOK'
    <3>1. [type |-> "Shutdown", session |-> session] \in ToHelper
      BY <1>2, SizeAssumption DEF Cleanup, NativeTypeOK, ToHelper, Session
    <3>2. QED  BY <1>2, <3>1, ToHelperType DEF Cleanup
  <2>3. QED  BY <1>2, <2>1, <2>2, TableFrame, JobFrame DEF Cleanup, tableVars, processVars
<1>3. CASE SendHello
  <2>1. LinkTypeOK'
    <3>1. [type |-> "Hello", session |-> session] \in ToHelper
      BY <1>3, SizeAssumption DEF SendHello, NativeTypeOK, ToHelper, Session
    <3>2. QED  BY <1>3, <3>1, ToHelperType DEF SendHello
  <2>2. QED
    BY <1>3, <2>1, NativeFrame, TableFrame, JobFrame DEF SendHello, tableVars, processVars
<1>4. CASE CheckHelperTimeout
  <2>1. NativeTypeOK'
    BY <1>4, DisconnectType DEF CheckHelperTimeout, NativeTypeOK
  <2>2. QED
    BY <1>4, <2>1, LinkFrame, TableFrame, JobFrame
    DEF CheckHelperTimeout, tableVars, processVars
<1>5. QED  BY <1>1, <1>2, <1>3, <1>4

\* The first slot of a non-empty set of slots is one of them.
LEMMA SmallestSlot ==
  ASSUME NEW S \in SUBSET Slot, S # {}
  PROVE  Smallest(S) \in S
<1>1. S \subseteq Nat
  BY DEF Slot
<1>2. PICK s \in S : \A r \in S : <<r, s>> \notin OpToRel(<, Nat)
  BY <1>1, NatLessThanWellFounded, WFMin
<1>3. \A r \in S : ~ (r < s)
  BY <1>1, <1>2 DEF OpToRel
<1>4. \A r \in S : s <= r
  BY <1>1, <1>3
<1>5. QED  BY <1>4 DEF Smallest

\* The slot a search returns is one of those it looks for.
LEMMA SearchResult ==
  /\ \A serial : WithSerial(serial) # {} => FindTrackerBySerial(serial) \in WithSerial(serial)
  /\ \A index : WithRemote(index) # {} => FindTrackerByRemote(index) \in WithRemote(index)
  /\ Unconfigured # {} => AcquireTracker \in Unconfigured
<1>1. /\ \A serial : WithSerial(serial) \in SUBSET Slot
      /\ \A index : WithRemote(index) \in SUBSET Slot
      /\ Unconfigured \in SUBSET Slot
  BY DEF WithSerial, WithRemote, Unconfigured
<1>2. QED
  BY <1>1, SmallestSlot DEF FindTrackerBySerial, FindTrackerByRemote, AcquireTracker

LEMMA TakeType ==
  ASSUME TypeOK, NEW type, Take(type)
  PROVE  /\ LinkTypeOK' /\ TableTypeOK' /\ JobTypeOK'
         /\ Head(toNative) \in ToNative
         /\ Head(toNative).type = type
         /\ initialized' \in BOOLEAN /\ session' \in 0..MaxSessions
         /\ initialized' => session' # 0
         /\ bridge_online' \in BOOLEAN /\ heard' \in BOOLEAN
<1> USE DEF TypeOK
<1>1. LinkTypeOK' /\ Head(toNative) \in ToNative
  BY DEF LinkTypeOK, Take
<1>2. TableTypeOK' /\ JobTypeOK'
  BY TableFrame, JobFrame DEF Take, tableVars, processVars
<1>3. QED  BY <1>1, <1>2 DEF Take, NativeTypeOK

\* Each kind of datagram carries the fields its handler reads.
LEMMA MessageFields ==
  ASSUME NEW m \in ToNative
  PROVE  /\ m.type = "TrackerAdded" => m.index \in Index /\ m.serial \in Serials
         /\ m.type = "TrackerProperty" => m.prop \in Props /\ m.write \in Relayed
         /\ m.type = "TrackerPose" => m.pose \in Pose
  BY DEF ToNative

LEMMA ConfigureType ==
  ASSUME NativeTypeOK, NEW s \in Slot, NEW m, m.index \in Index, m.serial \in Serials,
         Configure(s, m)
  PROVE  slots' \in [Slot -> SlotState]
<1>1. slots[s] \in SlotState /\ Disconnected \in Pose
  BY DEF NativeTypeOK, Pose
<1>2. m.index \in Nat
  BY SizeAssumption DEF Index
<1>3. \A r \in SlotState, i \in Nat, n \in Serials :
        [r EXCEPT !.configured = TRUE, !.remote = i, !.serial = n, !.pose = Disconnected]
          \in SlotState
  BY <1>1 DEF SlotState
<1>4. [slots[s] EXCEPT !.configured = TRUE, !.remote = m.index,
                       !.serial = m.serial, !.pose = Disconnected] \in SlotState
  BY <1>1, <1>2, <1>3
<1>5. QED  BY <1>4 DEF Configure, NativeTypeOK

LEMMA ReceiveType ==
  ASSUME TypeOK, Receive
  PROVE  TypeOK'
<1> DEFINE m == Head(toNative)
<1> USE DEF TypeOK
<1>1. CASE RejectDatagram
  <2>1. LinkTypeOK'
    BY <1>1 DEF RejectDatagram, LinkTypeOK
  <2>2. QED
    BY <1>1, <2>1, NativeFrame, TableFrame, JobFrame DEF RejectDatagram, tableVars, processVars
<1>2. CASE OnHeartbeat
  BY <1>2, TakeType DEF OnHeartbeat, NativeTypeOK, steamVars
<1>3. CASE OnTrackerAdded
  <2>1. m.index \in Index /\ m.serial \in Serials /\ Take("TrackerAdded")
    BY <1>3, TakeType, MessageFields DEF OnTrackerAdded
  <2>2. slots' \in [Slot -> SlotState]
    <3>1. ASSUME NEW s \in Slot, Configure(s, m) PROVE slots' \in [Slot -> SlotState]
      BY <2>1, <3>1, ConfigureType
    <3>2. Unconfigured # {} => AcquireTracker \in Slot
      BY SearchResult DEF Unconfigured
    <3>3. WithSerial(m.serial) # {} => FindTrackerBySerial(m.serial) \in Slot
      BY SearchResult DEF WithSerial
    <3>4. slots \in [Slot -> SlotState]
      BY DEF NativeTypeOK
    <3>5. QED  BY <1>3, <3>1, <3>2, <3>3, <3>4 DEF OnTrackerAdded
  <2>3. object' \in [Slot -> {"none", "added", "active"}]
    BY <1>3 DEF OnTrackerAdded, NativeTypeOK
  <2>4. QED  BY <1>3, <2>1, <2>2, <2>3, TakeType DEF OnTrackerAdded, NativeTypeOK
<1>4. CASE OnTrackerProperty
  <2> DEFINE s == FindTrackerByRemote(m.index)
  <2>1. m.prop \in Props /\ m.write \in Relayed /\ Take("TrackerProperty")
    BY <1>4, TakeType, MessageFields DEF OnTrackerProperty
  <2>2. WithRemote(m.index) # {} => s \in Slot
    BY SearchResult DEF WithRemote
  <2>3. slots' \in [Slot -> SlotState]
    <3>1. ASSUME NEW r \in Slot
          PROVE  [slots[r] EXCEPT !.cache[m.prop] = m.write] \in SlotState
      <4>1. slots[r] \in SlotState
        BY DEF NativeTypeOK
      <4>2. [slots[r].cache EXCEPT ![m.prop] = m.write] \in [Props -> Relayed \cup {"unset"}]
        BY <2>1, <4>1 DEF SlotState
      <4>3. QED  BY <4>1, <4>2 DEF SlotState
    <3>2. slots \in [Slot -> SlotState]
      BY DEF NativeTypeOK
    <3>3. CASE WithRemote(m.index) # {}
      <4>1. slots' = [slots EXCEPT ![s].cache[m.prop] = m.write]
        BY <1>4, <3>3 DEF OnTrackerProperty
      <4>2. [slots[s] EXCEPT !.cache[m.prop] = m.write] \in SlotState
        BY <2>2, <3>1, <3>3
      <4> HIDE DEF s
      <4>3. QED  BY <3>2, <4>1, <4>2
    <3>4. CASE WithRemote(m.index) = {}
      BY <1>4, <3>2, <3>4 DEF OnTrackerProperty
    <3>5. QED  BY <3>3, <3>4
  <2>4. container' \in [Slot -> [Props -> Relayed \cup {"unset", "default"}]]
    <3>1. Applied(m.write) \in Relayed \cup {"unset", "default"}
      BY <2>1 DEF Applied
    <3>2. ASSUME NEW r \in Slot
          PROVE  [container[r] EXCEPT ![m.prop] = Applied(m.write)]
                   \in [Props -> Relayed \cup {"unset", "default"}]
      BY <2>1, <3>1 DEF NativeTypeOK
    <3>3. container \in [Slot -> [Props -> Relayed \cup {"unset", "default"}]]
      BY DEF NativeTypeOK
    <3>4. \/ container' = container
          \/ s \in Slot /\ container' = [container EXCEPT ![s][m.prop] = Applied(m.write)]
      BY <1>4, <2>2 DEF OnTrackerProperty
    <3> HIDE DEF s, m
    <3>5. QED  BY <3>2, <3>3, <3>4
  <2>5. QED  BY <1>4, <2>1, <2>3, <2>4, TakeType DEF OnTrackerProperty, NativeTypeOK
<1>5. CASE OnTrackerPose
  <2> DEFINE s == FindTrackerByRemote(m.index)
  <2>1. m.pose \in Pose /\ Take("TrackerPose")
    BY <1>5, TakeType, MessageFields DEF OnTrackerPose
  <2>2. WithRemote(m.index) # {} => s \in Slot
    BY SearchResult DEF WithRemote
  <2>3. slots' \in [Slot -> SlotState]
    <3>1. \A r \in Slot : [slots[r] EXCEPT !.pose = m.pose] \in SlotState
      <4>1. \A r \in Slot : slots[r] \in SlotState
        BY DEF NativeTypeOK
      <4>2. QED  BY <2>1, <4>1 DEF SlotState
    <3>2. QED  BY <1>5, <2>2, <3>1 DEF OnTrackerPose, NativeTypeOK
  <2>4. shown' \in [Slot -> Pose]
    BY <1>5, <2>1 DEF OnTrackerPose, NativeTypeOK
  <2>5. QED  BY <1>5, <2>1, <2>3, <2>4, TakeType DEF OnTrackerPose, NativeTypeOK
<1>6. QED  BY <1>1, <1>2, <1>3, <1>4, <1>5 DEF Receive

LEMMA SteamStepType ==
  ASSUME TypeOK, SteamStep
  PROVE  TypeOK'
<1> USE DEF TypeOK
<1>1. PICK s \in Slot : Activate(s) \/ Deactivate(s)
  BY DEF SteamStep
<1>2. LinkTypeOK' /\ TableTypeOK' /\ JobTypeOK'
  BY <1>1, LinkFrame, TableFrame, JobFrame DEF Activate, Deactivate, tableVars, processVars
<1>3. CASE Activate(s)
  <2>1. slots[s].cache \in [Props -> Relayed \cup {"unset"}]
    BY DEF NativeTypeOK, SlotState
  <2>2. [p \in Props |-> IF slots[s].cache[p] = "unset" THEN "default"
                         ELSE Applied(slots[s].cache[p])]
          \in [Props -> Relayed \cup {"unset", "default"}]
    BY <2>1 DEF Applied
  <2>3. container' \in [Slot -> [Props -> Relayed \cup {"unset", "default"}]]
    BY <1>3, <2>2 DEF Activate, NativeTypeOK
  <2>4. NativeTypeOK'
    BY <1>3, <2>3 DEF Activate, NativeTypeOK, nativeVars
  <2>5. QED  BY <1>2, <2>4
<1>4. CASE Deactivate(s)
  <2>1. container' \in [Slot -> [Props -> Relayed \cup {"unset", "default"}]]
    BY <1>4 DEF Deactivate, NativeTypeOK
  <2>2. shown' \in [Slot -> Pose]
    BY <1>4 DEF Deactivate, NativeTypeOK, Pose
  <2>3. NativeTypeOK'
    BY <1>4, <2>1, <2>2 DEF Deactivate, NativeTypeOK, nativeVars
  <2>4. QED  BY <1>2, <2>3
<1>5. QED  BY <1>1, <1>3, <1>4

LEMMA ProcessStepType ==
  ASSUME TypeOK, ProcessStep
  PROVE  TypeOK'
<1> USE DEF TypeOK
<1>1. CASE HelperStop
  <2>1. NativeTypeOK'
    BY <1>1, NativeFrame DEF HelperStop
  <2>2. LinkTypeOK'
    BY <1>1 DEF HelperStop, LinkTypeOK
  <2>3. TableTypeOK'
    BY <1>1, SizeAssumption DEF HelperStop, TableTypeOK, Stored, Registered
  <2>4. JobTypeOK'
    BY <1>1 DEF HelperStop, JobTypeOK, JobOK, Job, Idle
  <2>5. QED  BY <2>1, <2>2, <2>3, <2>4
<1>2. CASE \E s \in launches : HelperStart(s)
  <2>1. PICK s \in launches : HelperStart(s)
    BY <1>2
  <2>2. NativeTypeOK'
    BY <2>1, NativeFrame DEF HelperStart
  <2>3. LinkTypeOK'
    BY <2>1 DEF HelperStart, LinkTypeOK
  <2>4. TableTypeOK'
    BY <2>1, SizeAssumption DEF HelperStart, TableTypeOK, tableVars, Registered, Session
  <2>5. JobTypeOK'
    <3>1. \A t \in Threads : JobOK(job[t])'
      BY <2>1 DEF HelperStart, tableVars, JobTypeOK, JobOK, Registered, Idle
    <3>2. QED  BY <2>1, <3>1 DEF HelperStart, JobTypeOK
  <2>6. QED  BY <2>2, <2>3, <2>4, <2>5
<1>3. QED  BY <1>1, <1>2 DEF ProcessStep

-----------------------------------------------------------------------------
(* The helper's steps leave the native driver alone.                       *)

ReplayState == [op : {"replay", "copy", "send"}, at : Index, upto : Index,
                poses : [Index -> 0..MaxUpdates], pending : SUBSET (Props \X Relayed)]

\* What a thread works with: a running helper and registered trackers.
LEMMA JobFacts ==
  ASSUME TypeOK, NEW t \in Threads, job[t].op # "idle"
  PROVE  /\ helper # 0
         /\ job[t].op \in {"added", "activate", "pose", "property"} => job[t].index \in Registered
         /\ job[t].op = "pose" => job[t].n \in 1..MaxUpdates
         /\ job[t].op = "property" => job[t].prop \in Props /\ job[t].write \in Write
         /\ job[t].op \in {"replay", "copy", "send"} =>
              /\ job[t] \in ReplayState
              /\ job[t].at \in Registered /\ job[t].upto \in Registered
              /\ job[t].at <= job[t].upto
<1>1. job[t] \in Job /\ JobOK(job[t])
  BY DEF TypeOK, JobTypeOK
<1>2. helper # 0
  BY <1>1 DEF JobOK, Idle
<1>3. job[t].op \in {"added", "activate", "pose", "property"} => job[t].index \in Registered
  BY <1>1 DEF JobOK
<1>4. job[t].op = "pose" => job[t].n \in 1..MaxUpdates
  BY <1>1 DEF Job, Idle
<1>5. job[t].op = "property" => job[t].prop \in Props /\ job[t].write \in Write
  BY <1>1 DEF Job, Idle
<1>6. ASSUME job[t].op \in {"replay", "copy", "send"}
      PROVE  /\ job[t] \in ReplayState
             /\ job[t].at \in Registered /\ job[t].upto \in Registered
             /\ job[t].at <= job[t].upto
  <2>1. job[t] \in ReplayState
    BY <1>1, <1>6 DEF Job, Idle, ReplayState
  <2>2. job[t].at <= job[t].upto /\ job[t].upto \in Registered
    BY <1>1, <1>6 DEF JobOK
  <2>3. job[t].at \in Registered
    BY <2>1, <2>2, SizeAssumption DEF Registered, Index, TypeOK, TableTypeOK, ReplayState
  <2>4. QED  BY <2>1, <2>2, <2>3
<1>7. QED  BY <1>2, <1>3, <1>4, <1>5, <1>6

\* A job of ReplayTrackers stays one when it moves on.
LEMMA ReplayJob ==
  ASSUME TypeOK, NEW r \in ReplayState, r.upto \in Registered, r.at <= r.upto, helper # 0
  PROVE  r \in Job /\ JobOK(r)
<1>1. r \in Job
  BY DEF Job, ReplayState
<1>2. r.op \in {"replay", "copy", "send"} /\ r # Idle
  BY DEF ReplayState, Idle
<1>3. QED  BY <1>1, <1>2 DEF JobOK

LEMMA MainStepType ==
  ASSUME TypeOK, MainStep
  PROVE  TypeOK'
<1> USE DEF TypeOK
<1> DEFINE j == job[Main]
<1>1. Main \in Threads
  BY ThreadAssumption
<1>2. CASE SendHeartbeat
  <2>1. LinkTypeOK'
    BY <1>2, Datagrams, TransmitType DEF SendHeartbeat
  <2>2. QED
    BY <1>2, <2>1, NativeFrame, TableFrame, JobFrame DEF SendHeartbeat, tableVars, processVars
<1>3. CASE HelperReceive
  <2>1. LinkTypeOK'
    <3>1. toHelper' \in Seq(ToHelper)
      BY <1>3 DEF HelperReceive, LinkTypeOK
    <3>2. CASE UNCHANGED <<toNative, losses>>
      BY <3>1, <3>2 DEF LinkTypeOK
    <3>3. CASE Transmit(Heartbeat)
      <4>1. Heartbeat \in ToNative
        BY <1>3, Datagrams DEF HelperReceive
      <4>2. toNative' \in Seq(ToNative)
        BY <3>3, <4>1 DEF LinkTypeOK, Transmit, Deliver, Lose
      <4>3. losses' \in 0..MaxLosses
        BY <3>3, SizeAssumption DEF LinkTypeOK, Transmit, Deliver, Lose
      <4>4. QED  BY <3>1, <4>2, <4>3 DEF LinkTypeOK
    <3>4. QED  BY <1>3, <3>2, <3>3 DEF HelperReceive
  <2>2. NativeTypeOK' /\ TableTypeOK' /\ UNCHANGED <<helper, trackers>>
    BY <1>3, NativeFrame, TableFrame DEF HelperReceive, tableVars, processVars
  <2>3. JobTypeOK'
    <3>1. CASE UNCHANGED job
      BY <2>2, <3>1, JobFrame
    <3>2. CASE Goto(Main, [op |-> "exit"])
      <4>1. [op |-> "exit"] \in Job /\ JobOK([op |-> "exit"])
        BY <1>3 DEF Job, JobOK, HelperReceive
      <4>2. QED  BY <1>1, <2>2, <3>2, <4>1, GotoType
    <3>3. CASE /\ trackers # <<>>
               /\ Goto(Main, [op |-> "replay", at |-> 1, upto |-> Len(trackers),
                              poses |-> last_pose, pending |-> {}])
      <4> DEFINE r == [op |-> "replay", at |-> 1, upto |-> Len(trackers),
                       poses |-> last_pose, pending |-> {}]
      <4>1. Len(trackers) \in Registered /\ 1 <= Len(trackers) /\ Len(trackers) \in Index
        BY <3>3, SizeAssumption DEF TableTypeOK, Registered, Index
      <4>2. r \in ReplayState
        BY <4>1, SizeAssumption DEF TableTypeOK, ReplayState, Index
      <4>3. r \in Job /\ JobOK(r)
        BY <1>3, <4>1, <4>2, ReplayJob DEF HelperReceive
      <4>4. QED  BY <1>1, <2>2, <3>3, <4>3, GotoType
    <3>4. QED  BY <1>3, <3>1, <3>2, <3>3 DEF HelperReceive
  <2>4. QED  BY <2>1, <2>2, <2>3
<1>4. ASSUME j.op \in {"replay", "copy", "send"}
      PROVE  /\ helper # 0 /\ j \in ReplayState /\ j.at \in Registered /\ j.at \in Index
             /\ j.upto \in Registered /\ j.at <= j.upto
             /\ j.poses \in [Index -> 0..MaxUpdates]
             /\ j.pending \in SUBSET (Props \X Relayed)
  BY <1>1, <1>4, JobFacts DEF ReplayState
<1>5. CASE ReplayAdded
  <2> DEFINE r == [j EXCEPT !.op = "copy"]
  <2>1. j.op = "replay" /\ SendToNative(TrackerAdded(j.at)) /\ Goto(Main, r)
    BY <1>5 DEF ReplayAdded
  <2>2. LinkTypeOK'
    BY <1>4, <2>1, Datagrams, TransmitType
  <2>3. r \in ReplayState /\ r.at = j.at /\ r.upto = j.upto
    BY <1>4, <2>1 DEF ReplayState
  <2>4. JobTypeOK'
    <3>1. r \in Job /\ JobOK(r)
      BY <1>4, <2>1, <2>3, ReplayJob
    <3> HIDE DEF r
    <3>2. QED  BY <1>1, <1>5, <2>1, <3>1, GotoType DEF ReplayAdded, tableVars, processVars
  <2>5. QED  BY <1>5, <2>2, <2>4, NativeFrame, TableFrame DEF ReplayAdded
<1>6. CASE ReplayCopy
  <2> DEFINE kept == {p \in Props : properties[j.at][p] \notin Oversized \cup {"unset"}}
             copied == {<<p, AsReplayed(properties[j.at][p])>> : p \in kept}
             r == [j EXCEPT !.op = "send", !.pending = copied]
  <2>1. j.op = "copy" /\ Goto(Main, r)
    BY <1>6 DEF ReplayCopy
  <2>2. copied \in SUBSET (Props \X Relayed)
    <3>1. properties[j.at] \in [Props -> Stored]
      BY <1>4, <2>1 DEF TableTypeOK
    <3>2. \A p \in kept : AsReplayed(properties[j.at][p]) \in Relayed
      BY <3>1 DEF AsReplayed, Stored, Relayed
    <3>3. QED  BY <3>2
  <2>3. r \in ReplayState /\ r.at = j.at /\ r.upto = j.upto
    <3> HIDE DEF copied
    <3>1. QED  BY <1>4, <2>1, <2>2 DEF ReplayState
  <2>4. JobTypeOK'
    <3>1. r \in Job /\ JobOK(r)
      BY <1>4, <2>1, <2>3, ReplayJob
    <3> HIDE DEF r
    <3>2. QED  BY <1>1, <1>6, <2>1, <3>1, GotoType DEF ReplayCopy, tableVars, processVars
  <2>5. QED  BY <1>6, <2>4, NativeFrame, TableFrame, LinkFrame DEF ReplayCopy
<1>7. CASE ReplayProperty
  <2>1. PICK e \in j.pending : /\ SendToNative(TrackerProperty(j.at, e[1], e[2]))
                               /\ Goto(Main, [j EXCEPT !.pending = @ \ {e}])
    BY <1>7 DEF ReplayProperty
  <2>2. j.op = "send"
    BY <1>7 DEF ReplayProperty
  <2> DEFINE rest == j.pending \ {e}
             r == [j EXCEPT !.pending = rest]
  <2>3. LinkTypeOK'
    <3>1. e[1] \in Props /\ e[2] \in Relayed
      BY <1>4, <2>2
    <3>2. TrackerProperty(j.at, e[1], e[2]) \in ToNative
      BY <1>4, <2>2, <3>1, Datagrams
    <3>3. QED  BY <2>1, <3>2, TransmitType
  <2>4. r \in ReplayState /\ r.at = j.at /\ r.upto = j.upto
    <3>1. rest \in SUBSET (Props \X Relayed)
      BY <1>4, <2>2
    <3> HIDE DEF rest
    <3>2. QED  BY <1>4, <2>2, <3>1 DEF ReplayState
  <2>5. JobTypeOK'
    <3>1. r \in Job /\ JobOK(r)
      BY <1>4, <2>2, <2>4, ReplayJob
    <3>2. Goto(Main, r)
      BY <2>1
    <3> HIDE DEF r
    <3>3. QED  BY <1>1, <1>7, <3>1, <3>2, GotoType DEF ReplayProperty, tableVars, processVars
  <2>6. QED  BY <1>7, <2>3, <2>5, NativeFrame, TableFrame DEF ReplayProperty
<1>8. CASE ReplayPose
  <2>1. j.op = "send"
    BY <1>8 DEF ReplayPose
  <2>2. LinkTypeOK'
    <3>1. j.poses[j.at] # 0 => j.poses[j.at] \in 1..MaxUpdates
      BY <1>4, <2>1, SizeAssumption
    <3>2. j.poses[j.at] # 0 => TrackerPose(j.at, j.poses[j.at], TRUE) \in ToNative
      BY <1>4, <2>1, <3>1, Datagrams
    <3>3. QED  BY <1>8, <3>2, TransmitType, LinkFrame DEF ReplayPose
  <2>3. JobTypeOK'
    <3>1. CASE j.at = j.upto
      <4>1. Idle \in Job /\ JobOK(Idle)
        BY DEF Job, JobOK, Idle
      <4>2. QED
        BY <1>1, <1>8, <3>1, <4>1, GotoType DEF ReplayPose, tableVars, processVars
    <3>2. CASE j.at # j.upto
      <4> DEFINE r == [j EXCEPT !.op = "replay", !.at = @ + 1]
      <4>1. j.at + 1 \in Index /\ j.at + 1 <= j.upto
        <5>1. j.at \in Index /\ j.upto \in Index /\ j.at <= j.upto
          BY <1>4, <2>1 DEF ReplayState
        <5>2. QED  BY <3>2, <5>1, SizeAssumption DEF Index
      <4>2. r \in ReplayState /\ r.at = j.at + 1 /\ r.upto = j.upto
        BY <1>4, <2>1, <4>1 DEF ReplayState
      <4>3. r \in Job /\ JobOK(r)
        BY <1>4, <2>1, <4>1, <4>2, ReplayJob
      <4>4. Goto(Main, r)
        BY <1>8, <3>2 DEF ReplayPose
      <4> HIDE DEF r
      <4>5. QED
        BY <1>1, <1>8, <4>3, <4>4, GotoType DEF ReplayPose, tableVars, processVars
    <3>3. QED  BY <3>1, <3>2
  <2>4. QED  BY <1>8, <2>2, <2>3, NativeFrame, TableFrame DEF ReplayPose
<1>9. QED  BY <1>2, <1>3, <1>5, <1>6, <1>7, <1>8 DEF MainStep

LEMMA CallStepType ==
  ASSUME TypeOK, CallStep
  PROVE  TypeOK'
<1> USE DEF TypeOK
<1>1. ASSUME NEW d \in Drivers, TrackedDeviceAdded(d) PROVE TypeOK'
  <2> DEFINE j == [op |-> "added", index |-> Len(trackers) + 1]
  <2>1. /\ helper # 0 /\ ThreadOf[d] \in Threads
        /\ trackers' = Append(trackers, d) /\ Len(trackers) < HelperCapacity
        /\ Goto(ThreadOf[d], j)
    BY <1>1, ThreadAssumption DEF TrackedDeviceAdded
  <2>2. /\ trackers' \in Seq(Drivers) /\ Len(trackers') = Len(trackers) + 1
        /\ Len(trackers') <= HelperCapacity /\ Registered' = 1..(Len(trackers) + 1)
        /\ Len(trackers) \in Nat
    BY <2>1, SizeAssumption DEF TableTypeOK, Registered
  <2>3. TableTypeOK'
    <3>1. known' \subseteq Registered'
      BY <1>1, <2>2 DEF TrackedDeviceAdded, TableTypeOK, Registered
    <3>2. registered' \subseteq Serials
      BY <1>1, DriverAssumption DEF TrackedDeviceAdded, TableTypeOK
    <3>3. QED
      BY <1>1, <2>1, <2>2, <3>1, <3>2 DEF TrackedDeviceAdded, TableTypeOK, processVars
  <2>4. JobTypeOK'
    <3>1. j \in Job
      BY <2>1, <2>2, SizeAssumption DEF Job, Index
    <3>2. job' \in [Threads -> Job]
      BY <2>1, <3>1 DEF Goto, JobTypeOK
    <3>3. ASSUME NEW t \in Threads PROVE JobOK(job[t])'
      <4>1. CASE t = ThreadOf[d]
        <5>1. job'[t] = j
          BY <2>1, <4>1 DEF Goto, JobTypeOK
        <5>2. helper' # 0
          BY <1>1, <2>1 DEF TrackedDeviceAdded, processVars
        <5>3. QED  BY <2>2, <5>1, <5>2 DEF JobOK
      <4>2. CASE t # ThreadOf[d]
        <5>1. job'[t] = job[t] /\ helper' = helper /\ JobOK(job[t])
          BY <1>1, <2>1, <4>2 DEF Goto, JobTypeOK, TrackedDeviceAdded, processVars
        <5>2. \A i \in Registered : i \in Registered'
          BY <2>2 DEF Registered
        <5>3. QED  BY <5>1, <5>2 DEF JobOK
      <4>3. QED  BY <4>1, <4>2
    <3>4. QED  BY <3>2, <3>3 DEF JobTypeOK
  <2>5. NativeTypeOK' /\ LinkTypeOK'
    BY <1>1, NativeFrame, LinkFrame DEF TrackedDeviceAdded
  <2>6. QED  BY <2>3, <2>4, <2>5
<1>2. ASSUME NEW i \in known, TrackedDevicePoseUpdated(i) PROVE TypeOK'
  <2> DEFINE t == ThreadOf[trackers[i]]
             j == [op |-> "pose", index |-> i, n |-> updates + 1]
  <2>1. /\ i \in Registered /\ i \in Index /\ trackers[i] \in Drivers /\ t \in Threads
        /\ helper # 0
    BY SizeAssumption, ThreadAssumption DEF TableTypeOK, Registered, Index
  <2>2. updates + 1 \in 1..MaxUpdates /\ updates + 1 \in 0..MaxUpdates
    BY <1>2, SizeAssumption DEF TrackedDevicePoseUpdated, TableTypeOK
  <2>3. last_pose' \in [Index -> 0..MaxUpdates]
    BY <1>2, <2>1, <2>2 DEF TrackedDevicePoseUpdated, TableTypeOK
  <2>4. TableTypeOK'
    BY <1>2, <2>2, <2>3 DEF TrackedDevicePoseUpdated, TableTypeOK, Registered, processVars
  <2>5. j \in Job /\ JobOK(j)
    BY <2>1, <2>2 DEF Job, JobOK
  <2>6. JobTypeOK'
    BY <1>2, <2>1, <2>5, GotoType DEF TrackedDevicePoseUpdated, processVars
  <2>7. QED
    BY <1>2, <2>4, <2>6, NativeFrame, LinkFrame DEF TrackedDevicePoseUpdated
<1>3. ASSUME NEW i \in known, NEW p \in Props, NEW w \in Write, WriteProperty(i, p, w)
      PROVE  TypeOK'
  <2> DEFINE t == ThreadOf[trackers[i]]
             j == [op |-> "property", index |-> i, prop |-> p, write |-> w]
             value == IF w = "erase" THEN "unset" ELSE w
  <2>1. /\ i \in Registered /\ i \in Index /\ trackers[i] \in Drivers /\ t \in Threads
        /\ helper # 0
    BY SizeAssumption, ThreadAssumption DEF TableTypeOK, Registered, Index
  <2>2. updates' \in 0..MaxUpdates
    BY <1>3, SizeAssumption DEF WriteProperty, TableTypeOK
  <2>3. properties' \in [Index -> [Props -> Stored]]
    <3>1. value \in Stored
      BY DEF Write, Stored
    <3>2. properties' = [properties EXCEPT ![i][p] = value]
      BY <1>3 DEF WriteProperty
    <3> HIDE DEF value
    <3>3. QED  BY <2>1, <3>1, <3>2 DEF TableTypeOK
  <2>4. TableTypeOK'
    BY <1>3, <2>2, <2>3 DEF WriteProperty, TableTypeOK, Registered, processVars
  <2>5. j \in Job /\ JobOK(j)
    BY <2>1 DEF Job, JobOK
  <2>6. JobTypeOK'
    BY <1>3, <2>1, <2>5, GotoType DEF WriteProperty, processVars
  <2>7. QED  BY <1>3, <2>4, <2>6, NativeFrame, LinkFrame DEF WriteProperty
<1>4. QED  BY <1>1, <1>2, <1>3 DEF CallStep

LEMMA FinishCallType ==
  ASSUME TypeOK, NEW t \in Threads, FinishCall(t)
  PROVE  TypeOK'
<1> USE DEF TypeOK
<1> DEFINE j == job[t]
<1>1. ASSUME NEW k \in Job, JobOK(k), Goto(t, k), UNCHANGED <<helper, trackers>>
      PROVE  JobTypeOK'
  BY <1>1, GotoType
<1>2. Idle \in Job /\ JobOK(Idle)
  BY DEF Job, JobOK, Idle
<1>3. CASE SendTrackerAdded(t)
  <2>1. helper # 0 /\ j.index \in Registered
    BY <1>3, JobFacts DEF SendTrackerAdded
  <2>2. LinkTypeOK'
    BY <1>3, <2>1, Datagrams, TransmitType DEF SendTrackerAdded
  <2> DEFINE k == [op |-> "activate", index |-> j.index]
  <2>3. k \in Job /\ JobOK(k)
    <3>1. j.index \in Index
      BY <2>1, SizeAssumption DEF TableTypeOK, Registered, Index
    <3>2. QED  BY <2>1, <3>1 DEF Job, JobOK
  <2>4. JobTypeOK'
    BY <1>1, <1>3, <2>3 DEF SendTrackerAdded, tableVars, processVars
  <2>5. QED  BY <1>3, <2>2, <2>4, NativeFrame, TableFrame DEF SendTrackerAdded
<1>4. CASE ActivateDriver(t)
  <2>1. j.index \in Registered
    BY <1>4, JobFacts DEF ActivateDriver
  <2>2. TableTypeOK'
    BY <1>4, <2>1 DEF ActivateDriver, TableTypeOK, Registered, processVars
  <2>3. JobTypeOK'
    BY <1>1, <1>2, <1>4 DEF ActivateDriver, processVars
  <2>4. QED  BY <1>4, <2>2, <2>3, NativeFrame, LinkFrame DEF ActivateDriver
<1>5. CASE SendTrackerPose(t)
  <2>1. helper # 0 /\ j.index \in Registered /\ j.n \in 1..MaxUpdates
    BY <1>5, JobFacts DEF SendTrackerPose
  <2>2. LinkTypeOK'
    BY <1>5, <2>1, Datagrams, TransmitType DEF SendTrackerPose
  <2>3. JobTypeOK'
    BY <1>1, <1>2, <1>5 DEF SendTrackerPose, tableVars, processVars
  <2>4. QED  BY <1>5, <2>2, <2>3, NativeFrame, TableFrame DEF SendTrackerPose
<1>6. CASE RelayTrackerProperty(t)
  <2>1. /\ helper # 0 /\ j.index \in Registered /\ j.prop \in Props
        /\ j.write \in Write
    BY <1>6, JobFacts DEF RelayTrackerProperty
  <2>2. j.write \notin Oversized => j.write \in Relayed
    BY <2>1 DEF Write, Relayed
  <2>3. LinkTypeOK'
    BY <1>6, <2>1, <2>2, Datagrams, TransmitType, LinkFrame DEF RelayTrackerProperty
  <2>4. JobTypeOK'
    BY <1>1, <1>2, <1>6 DEF RelayTrackerProperty, tableVars, processVars
  <2>5. QED  BY <1>6, <2>3, <2>4, NativeFrame, TableFrame DEF RelayTrackerProperty
<1>7. QED  BY <1>3, <1>4, <1>5, <1>6 DEF FinishCall

LEMMA NextType ==
  ASSUME TypeOK, [Next]_vars
  PROVE  TypeOK'
<1>1. CASE UNCHANGED vars
  BY <1>1, NativeFrame, LinkFrame, TableFrame, JobFrame DEF TypeOK, vars, tableVars, processVars
<1>2. CASE NativeStep
  BY <1>2, NativeStepType, ReceiveType DEF NativeStep
<1>3. CASE \E t \in Threads : FinishCall(t)
  BY <1>3, FinishCallType
<1>4. QED
  BY <1>1, <1>2, <1>3, SteamStepType, ProcessStepType, MainStepType, CallStepType DEF Next

\* Every reachable state of the bridge is well typed, and no helper thread is
\* ever in the middle of a call for a tracker that is not registered.
THEOREM TypeCorrect == Spec => []TypeOK
<1>1. Init => TypeOK
  BY InitType
<1>2. TypeOK /\ [Next]_vars => TypeOK'
  BY NextType
<1>3. QED  BY <1>1, <1>2, PTL DEF Spec
=============================================================================
