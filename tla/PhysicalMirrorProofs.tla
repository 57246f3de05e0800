------------------------ MODULE PhysicalMirrorProofs ------------------------
(***************************************************************************)
(* InjectedIsConnected, CallbacksMatchTable and NoGhosts hold of           *)
(* PhysicalMirror for any number of devices, whichever of them are out of  *)
(* the stub's reach, any socket capacity and any number of changes, losses *)
(* and refusals.                                                           *)
(***************************************************************************)
EXTENDS PhysicalMirror, SequenceTheorems, TLAPS

-----------------------------------------------------------------------------
(* The inductive invariant.                                                *)

Pose(d) == [type |-> "PhysicalPose", device |-> d]
Disconnection(d) == [type |-> "PhysicalDisconnected", device |-> d]

\* Injection is enabled from the moment the provider's Init has returned, and until then the
\* provider has been told nothing: the catch-up then covers all it has to know.
Silent ==
  /\ stage = "running" => enabled
  /\ enabled => stage \in {"running", "stopped"}
  /\ ~ enabled => \A d \in Device : ~ seen[d] /\ ~ physical_injected[d]

\* Before the helper is there nothing is under way to it and its table is empty.
NotStarted ==
  stage = "off" => toHelper = <<>> /\ \A d \in Device : ~ physical_poses[d]

\* With nothing lost, what the last datagram on its way says of a device's connection is what
\* the native driver holds of it.
PosesFollowed ==
  Bound /\ losses = 0 =>
    \A d \in Device : \A k \in 1..Len(toHelper) : toHelper[k] = Pose(d) =>
      \/ physical_connected[d]
      \/ \E j \in (k + 1)..Len(toHelper) : toHelper[j] = Disconnection(d)

MInv ==
  /\ TypeOK /\ Silent /\ NotStarted /\ PosesFollowed
  /\ InjectedIsConnected /\ CallbacksMatchTable /\ NoGhosts

-----------------------------------------------------------------------------
(* What the operators of the model change.                                 *)

LEMMA FrameFacts ==
  ASSUME TypeOK, frame # NoFrame
  PROVE  /\ frame \in [at : Device, poses : [Device -> BOOLEAN], refresh : BOOLEAN,
                       step : {"state", "properties"}]
         /\ frame.at \in Device
  BY DEF TypeOK, Frame

LEMMA AdvanceType ==
  ASSUME TypeOK, frame # NoFrame, Advance
  PROVE  frame' \in Frame /\ refresh_due' \in BOOLEAN
<1>1. CASE frame.at < NumDevices
  <2>1. frame.at + 1 \in Device
    BY <1>1, FrameFacts, MirrorAssumption DEF Device
  <2>2. frame' = [frame EXCEPT !.at = frame.at + 1, !.step = "state"] /\ refresh_due' = refresh_due
    BY <1>1 DEF Advance
  <2> QED
    BY <2>1, <2>2, FrameFacts DEF Frame, TypeOK
<1>2. CASE ~ (frame.at < NumDevices)
  BY <1>2 DEF Advance, Frame
<1> QED
  BY <1>1, <1>2

\* A datagram is appended when it is not lost, and only a bound socket can lose it.
LEMMA SendEffect ==
  ASSUME TypeOK, NEW d \in Device, NEW type \in {"PhysicalPose", "PhysicalProperty", "PhysicalDisconnected"},
         Send(type, d)
  PROVE  /\ toHelper' \in Seq(Message)
         /\ losses' \in 0..MaxLosses /\ (losses' = 0 => losses = 0)
         /\ Bound /\ losses' = 0 => toHelper' = Append(toHelper, [type |-> type, device |-> d])
         /\ ~ Bound => toHelper' = toHelper
<1>1. [type |-> type, device |-> d] \in Message
  BY DEF Message
<1> DEFINE datagram == [type |-> type, device |-> d]
<1>2. toHelper \in Seq(Message) /\ losses \in 0..MaxLosses
  BY DEF TypeOK
<1>3. CASE Bound /\ toHelper' = Append(toHelper, datagram) /\ losses' = losses
  BY <1>1, <1>2, <1>3
<1>4. CASE Bound /\ losses < MaxLosses /\ losses' = losses + 1 /\ toHelper' = toHelper
  BY <1>2, <1>4, MirrorAssumption
<1>5. CASE ~ Bound /\ toHelper' = toHelper /\ losses' = losses
  BY <1>2, <1>5
<1> QED
  BY <1>3, <1>4, <1>5 DEF Send, linkVars

LEMMA TryInjectEffect ==
  ASSUME TypeOK, NEW D \in SUBSET Device, TryInject(D)
  PROVE  /\ rejects' \in 0..MaxRejects
         /\ physical_injected' \in [Device -> BOOLEAN]
         /\ \A d \in Device : physical_injected'[d] => physical_injected[d] \/ d \in D
<1>1. PICK refused \in SUBSET D :
        /\ refused # {} => rejects < MaxRejects
        /\ rejects' = IF refused = {} THEN rejects ELSE rejects + 1
        /\ physical_injected' = [d \in Device |-> physical_injected[d] \/ d \in D \ refused]
  BY DEF TryInject
<1>2. rejects' \in 0..MaxRejects
  BY <1>1, MirrorAssumption DEF TypeOK
<1>3. physical_injected' \in [Device -> BOOLEAN]
  BY <1>1
<1>4. ASSUME NEW d \in Device, physical_injected'[d]
      PROVE  physical_injected[d] \/ d \in D
  BY <1>1, <1>4
<1> QED
  BY <1>2, <1>3, <1>4

LEMMA TakeEffect ==
  ASSUME TypeOK, NEW type, Take(type)
  PROVE  /\ toHelper # <<>> /\ Head(toHelper) = [type |-> type, device |-> Head(toHelper).device]
         /\ Head(toHelper).device \in Device
         /\ toHelper' = Tail(toHelper) /\ toHelper' \in Seq(Message)
         /\ \A k \in 1..Len(toHelper') : toHelper'[k] = toHelper[k + 1]
         /\ Len(toHelper) = Len(toHelper') + 1 /\ Len(toHelper') \in Nat
<1>1. toHelper \in Seq(Message) /\ toHelper # <<>>
  BY DEF Take, TypeOK
<1>2. Head(toHelper) \in Message
  BY <1>1
<1>3. Head(toHelper).type = type
  BY DEF Take
<1>4. toHelper' = Tail(toHelper)
  BY DEF Take
<1> QED
  BY <1>1, <1>2, <1>3, <1>4 DEF Message

-----------------------------------------------------------------------------
(* Types.                                                                  *)

LEMMA TypeInit == Init => TypeOK
<1> SUFFICES ASSUME Init PROVE TypeOK
  OBVIOUS
<1>1. 0 \in 0..MaxChanges /\ 0 \in 0..MaxLosses /\ 0 \in 0..MaxRejects
  BY MirrorAssumption
<1>2. toHelper \in Seq(Message) /\ frame \in Frame
  BY DEF Init, Frame
<1> QED
  BY <1>1, <1>2 DEF Init, TypeOK, Stages

\* One step per action, and for the datagrams' handlers one per changed table.
LEMMA TypeStep ==
  ASSUME TypeOK, [Next]_vars
  PROVE  TypeOK'
<1>1. ASSUME NEW d \in Device, DeviceChanges(d) PROVE TypeOK'
  <2>1. present' \in [Device -> BOOLEAN] /\ changes' \in 0..MaxChanges
    BY <1>1, MirrorAssumption DEF DeviceChanges, TypeOK
  <2> QED
    BY <1>1, <2>1 DEF DeviceChanges, TypeOK, nativeVars, linkVars, tableVars, providerVars
<1>2. CASE FiveSecondsPass
  BY <1>2 DEF FiveSecondsPass, TypeOK, steamVars, linkVars, tableVars, providerVars
<1>3. CASE BeginFrame
  <2>1. frame' \in Frame
    BY <1>3, MirrorAssumption DEF BeginFrame, TypeOK, Frame, Device
  <2> QED
    BY <1>3, <2>1 DEF BeginFrame, TypeOK, steamVars, linkVars, tableVars, providerVars
<1>4. CASE SendState
  <2>1. frame # NoFrame /\ frame.at \in Device
    BY <1>4, FrameFacts DEF SendState
  <2>2. toHelper' \in Seq(Message) /\ losses' \in 0..MaxLosses
    BY <1>4, <2>1, SendEffect DEF SendState, linkVars, TypeOK
  <2>3. physical_connected' \in [Device -> BOOLEAN]
    BY <1>4, <2>1 DEF SendState, TypeOK
  <2>4. frame' \in Frame /\ refresh_due' \in BOOLEAN
    <3>1. CASE Advance
      BY <2>1, <3>1, AdvanceType
    <3>2. CASE frame' = [frame EXCEPT !.step = "properties"] /\ UNCHANGED refresh_due
      BY <2>1, <3>2, FrameFacts DEF Frame, TypeOK
    <3> QED
      BY <1>4, <3>1, <3>2 DEF SendState
  <2> QED
    BY <1>4, <2>2, <2>3, <2>4 DEF SendState, TypeOK, steamVars, tableVars, providerVars
<1>5. CASE SendProperties
  <2>1. frame # NoFrame /\ frame.at \in Device
    BY <1>5, FrameFacts DEF SendProperties
  <2>2. toHelper' \in Seq(Message) /\ losses' \in 0..MaxLosses
    BY <1>5, <2>1, SendEffect DEF SendProperties
  <2>3. frame' \in Frame /\ refresh_due' \in BOOLEAN
    BY <1>5, <2>1, AdvanceType DEF SendProperties
  <2> QED
    BY <1>5, <2>2, <2>3 DEF SendProperties, TypeOK, steamVars, tableVars, providerVars
<1>6. CASE OnPhysicalPose
  <2> DEFINE d == Head(toHelper).device
             poses == [physical_poses EXCEPT ![d] = TRUE]
  <2>1. d \in Device /\ toHelper' \in Seq(Message)
    BY <1>6, TakeEffect DEF OnPhysicalPose
  <2>2. poses \in [Device -> BOOLEAN]
    BY <2>1 DEF TypeOK
  <2>3. /\ physical_poses' \in [Device -> BOOLEAN] /\ physical_injected' \in [Device -> BOOLEAN]
        /\ seen' \in [Device -> BOOLEAN] /\ rejects' \in 0..MaxRejects
    <3>1. CASE d \in High
      BY <1>6, <3>1 DEF OnPhysicalPose, TypeOK, providerVars
    <3>2. CASE d \notin High
      <4>1. Announceable({d}, enabled, poses, serial) \in SUBSET Device
        BY <2>1 DEF Announceable
      <4>2. physical_injected' \in [Device -> BOOLEAN] /\ rejects' \in 0..MaxRejects
        BY <1>6, <3>2, <4>1, TryInjectEffect DEF OnPhysicalPose
      <4>3. seen' \in [Device -> BOOLEAN]
        BY ZenonT(40), <1>6, <2>2, <3>2 DEF OnPhysicalPose, InjectPoses, TypeOK
      <4> QED
        BY <1>6, <2>2, <3>2, <4>2, <4>3 DEF OnPhysicalPose
    <3> QED
      BY <3>1, <3>2
  <2> QED
    BY <1>6, <2>1, <2>3 DEF OnPhysicalPose, Take, TypeOK, steamVars, nativeVars
<1>7. CASE OnPhysicalProperty
  <2> DEFINE d == Head(toHelper).device
             serials == [serial EXCEPT ![d] = "physical"]
  <2>1. d \in Device /\ toHelper' \in Seq(Message)
    BY <1>7, TakeEffect DEF OnPhysicalProperty
  <2>2. serial' \in [Device -> {"none", "physical", "provider"}]
    BY <1>7, <2>1 DEF OnPhysicalProperty, TypeOK
  <2>3. Announceable({d}, enabled, physical_poses, serials) \in SUBSET Device
    BY <2>1 DEF Announceable
  <2>4. physical_injected' \in [Device -> BOOLEAN] /\ rejects' \in 0..MaxRejects
    BY <1>7, <2>3, TryInjectEffect DEF OnPhysicalProperty
  <2> QED
    BY <1>7, <2>1, <2>2, <2>4 DEF OnPhysicalProperty, Take, TypeOK, steamVars, nativeVars
<1>8. CASE OnPhysicalDisconnected
  <2> DEFINE d == Head(toHelper).device
  <2>1. d \in Device /\ toHelper' \in Seq(Message)
    BY <1>8, TakeEffect DEF OnPhysicalDisconnected
  <2>2. physical_poses' \in [Device -> BOOLEAN] /\ physical_injected' \in [Device -> BOOLEAN]
    BY <1>8, <2>1 DEF OnPhysicalDisconnected, TypeOK
  <2>3. seen' \in [Device -> BOOLEAN]
    BY <1>8, <2>1, <2>2 DEF OnPhysicalDisconnected, InjectPoses, TypeOK
  <2> QED
    BY <1>8, <2>1, <2>2, <2>3 DEF OnPhysicalDisconnected, Take, TypeOK, steamVars, nativeVars
<1>9. CASE HelperStarts \/ LoadProvider
  BY <1>9 DEF HelperStarts, LoadProvider, TypeOK, Stages, steamVars, nativeVars, linkVars,
             tableVars, providerVars
<1>10. CASE EnablePhysicalInjection
  <2> DEFINE connected == {d \in Device \ High : physical_poses[d]}
  <2>1. Announceable(connected, TRUE, physical_poses, serial) \in SUBSET Device
    BY DEF Announceable
  <2>2. physical_injected' \in [Device -> BOOLEAN] /\ rejects' \in 0..MaxRejects
    BY <1>10, <2>1, TryInjectEffect DEF EnablePhysicalInjection
  <2>3. seen' \in [Device -> BOOLEAN]
    BY <1>10 DEF EnablePhysicalInjection, InjectPoses, TypeOK
  <2> QED
    BY <1>10, <2>2, <2>3 DEF EnablePhysicalInjection, TypeOK, Stages, steamVars, nativeVars, linkVars
<1>11. CASE HelperStops
  <2>1. toHelper' \in Seq(Message)
    BY <1>11 DEF HelperStops
  <2> QED
    BY <1>11, <2>1 DEF HelperStops, TypeOK, Stages, steamVars, nativeVars, tableVars, providerVars
<1>12. ASSUME NEW d \in High, ProviderWrites(d) PROVE TypeOK'
  <2>1. trackers' \subseteq High /\ serial' \in [Device -> {"none", "physical", "provider"}]
    BY <1>12, MirrorAssumption DEF ProviderWrites, TypeOK
  <2> QED
    BY <1>12, <2>1 DEF ProviderWrites, TypeOK, steamVars, nativeVars, linkVars, providerVars
<1>13. CASE UNCHANGED vars
  BY <1>13 DEF vars, TypeOK, steamVars, nativeVars, linkVars, tableVars, providerVars
<1> QED
  BY <1>1, <1>2, <1>3, <1>4, <1>5, <1>6, <1>7, <1>8, <1>9, <1>10, <1>11, <1>12, <1>13
     DEF Next, NativeStep, Receive

-----------------------------------------------------------------------------
(* What the provider has been told.                                        *)

\* The steps that leave the helper's tables and what the provider has seen alone.
TablesKept ==
  UNCHANGED <<enabled, physical_poses, physical_injected, seen>>

LEMMA OtherStepsKeepTables ==
  ASSUME TypeOK, [Next]_vars
  PROVE  \/ TablesKept /\ \A d \in Device : serial[d] # "none" => serial'[d] # "none"
         \/ OnPhysicalPose \/ OnPhysicalProperty \/ OnPhysicalDisconnected
         \/ EnablePhysicalInjection
<1>1. ASSUME NEW d \in High, ProviderWrites(d)
      PROVE  TablesKept /\ \A e \in Device : serial[e] # "none" => serial'[e] # "none"
  BY <1>1, MirrorAssumption DEF ProviderWrites, TablesKept, TypeOK, providerVars
<1> QED
  BY <1>1
     DEF Next, NativeStep, Receive, DeviceChanges, FiveSecondsPass, BeginFrame, SendState,
         SendProperties, HelperStarts, LoadProvider, HelperStops, TablesKept, vars, tableVars,
         providerVars

LEMMA SilentStep ==
  ASSUME TypeOK, Silent, [Next]_vars
  PROVE  Silent'
<1>1. /\ stage' = "running" => enabled'
      /\ enabled' => stage' \in {"running", "stopped"}
  <2>1. CASE HelperStarts \/ LoadProvider
    <3>1. ~ enabled /\ enabled' = enabled /\ stage' # "running"
      BY <2>1 DEF Silent, HelperStarts, LoadProvider
    <3> QED
      BY <3>1
  <2>2. CASE EnablePhysicalInjection
    BY <2>2 DEF EnablePhysicalInjection
  <2>3. CASE HelperStops
    BY <2>3 DEF HelperStops
  <2>4. CASE UNCHANGED <<stage, enabled>>
    BY <2>4 DEF Silent
  <2>5. \/ UNCHANGED <<stage, enabled>>
        \/ HelperStarts \/ LoadProvider \/ EnablePhysicalInjection \/ HelperStops
    BY DEF Next, NativeStep, Receive, DeviceChanges, FiveSecondsPass, BeginFrame, SendState,
           SendProperties, OnPhysicalPose, OnPhysicalProperty, OnPhysicalDisconnected, Take,
           ProviderWrites, vars
  <2> QED
    BY <2>1, <2>2, <2>3, <2>4, <2>5
<1>2. ASSUME ~ enabled', NEW e \in Device PROVE ~ seen'[e] /\ ~ physical_injected'[e]
  <2>1. ~ enabled /\ ~ seen[e] /\ ~ physical_injected[e]
    BY <1>2, OtherStepsKeepTables
       DEF Silent, TablesKept, OnPhysicalPose, OnPhysicalProperty, OnPhysicalDisconnected, Take,
           EnablePhysicalInjection
  <2>2. \A D, poses, serials : Announceable(D, enabled, poses, serials) = {}
    BY <2>1 DEF Announceable
  <2>3. \A D, poses : InjectPoses(D, enabled, poses) => ~ seen'[e]
    BY <2>1 DEF InjectPoses
  <2>4. TryInject({}) => ~ physical_injected'[e]
    BY <2>1, TryInjectEffect
  <2>5. CASE TablesKept
    BY <2>1, <2>5 DEF TablesKept
  <2>6. CASE OnPhysicalPose
    BY <2>1, <2>2, <2>3, <2>4, <2>6 DEF OnPhysicalPose, providerVars
  <2>7. CASE OnPhysicalProperty
    BY <2>1, <2>2, <2>4, <2>7 DEF OnPhysicalProperty
  <2>8. CASE OnPhysicalDisconnected
    BY <2>1, <2>3, <2>8 DEF OnPhysicalDisconnected, TypeOK
  <2>9. CASE EnablePhysicalInjection
    BY <1>2, <2>9 DEF EnablePhysicalInjection
  <2> QED
    BY <2>5, <2>6, <2>7, <2>8, <2>9, OtherStepsKeepTables
<1> QED
  BY <1>1, <1>2 DEF Silent

LEMMA InjectedStep ==
  ASSUME TypeOK, Silent, InjectedIsConnected, [Next]_vars
  PROVE  InjectedIsConnected'
<1> SUFFICES ASSUME NEW e \in Device, physical_injected'[e]
             PROVE  enabled' /\ physical_poses'[e] /\ serial'[e] # "none"
  BY DEF InjectedIsConnected
<1>1. CASE TablesKept /\ \A d \in Device : serial[d] # "none" => serial'[d] # "none"
  BY <1>1 DEF TablesKept, InjectedIsConnected
<1>2. CASE OnPhysicalPose
  <2> DEFINE d == Head(toHelper).device
             poses == [physical_poses EXCEPT ![d] = TRUE]
  <2>1. d \in Device /\ UNCHANGED <<enabled, serial>>
    BY <1>2, TakeEffect DEF OnPhysicalPose, Take
  <2>2. CASE d \in High
    BY <1>2, <2>1, <2>2 DEF OnPhysicalPose, InjectedIsConnected
  <2>3. CASE d \notin High
    <3>1. physical_poses' = poses /\ TryInject(Announceable({d}, enabled, poses, serial))
      BY <1>2, <2>3 DEF OnPhysicalPose
    <3>2. Announceable({d}, enabled, poses, serial) \in SUBSET Device
      BY <2>1 DEF Announceable
    <3>3. physical_injected[e] \/ e \in Announceable({d}, enabled, poses, serial)
      BY <3>1, <3>2, TryInjectEffect
    <3>4. physical_poses[e] => poses[e]
      BY <2>1 DEF TypeOK
    <3> QED
      BY <2>1, <3>1, <3>3, <3>4 DEF InjectedIsConnected, Announceable
  <2> QED
    BY <2>2, <2>3
<1>3. CASE OnPhysicalProperty
  <2> DEFINE d == Head(toHelper).device
             serials == [serial EXCEPT ![d] = "physical"]
  <2>1. d \in Device /\ UNCHANGED <<enabled, physical_poses>> /\ serial' = serials
    BY <1>3, TakeEffect DEF OnPhysicalProperty, Take
  <2>2. Announceable({d}, enabled, physical_poses, serials) \in SUBSET Device
    BY <2>1 DEF Announceable
  <2>3. physical_injected[e] \/ e \in Announceable({d}, enabled, physical_poses, serials)
    BY <1>3, <2>2, TryInjectEffect DEF OnPhysicalProperty
  <2>4. serial[e] # "none" => serials[e] # "none"
    BY <2>1 DEF TypeOK
  <2> QED
    BY <2>1, <2>3, <2>4 DEF InjectedIsConnected, Announceable
<1>4. CASE OnPhysicalDisconnected
  <2> DEFINE d == Head(toHelper).device
  <2>1. d \in Device /\ UNCHANGED <<enabled, serial>>
    BY <1>4, TakeEffect DEF OnPhysicalDisconnected, Take
  <2>2. e # d /\ physical_injected[e]
    BY <1>4, <2>1 DEF OnPhysicalDisconnected, TypeOK
  <2> QED
    BY <1>4, <2>1, <2>2 DEF OnPhysicalDisconnected, InjectedIsConnected, TypeOK
<1>5. CASE EnablePhysicalInjection
  <2> DEFINE connected == {d \in Device \ High : physical_poses[d]}
  <2>1. Announceable(connected, TRUE, physical_poses, serial) \in SUBSET Device
    BY DEF Announceable
  <2>2. physical_injected[e] \/ e \in Announceable(connected, TRUE, physical_poses, serial)
    BY <1>5, <2>1, TryInjectEffect DEF EnablePhysicalInjection
  <2> QED
    BY <1>5, <2>2 DEF EnablePhysicalInjection, InjectedIsConnected, Announceable
<1> QED
  BY <1>1, <1>2, <1>3, <1>4, <1>5, OtherStepsKeepTables

LEMMA CallbacksStep ==
  ASSUME TypeOK, Silent, CallbacksMatchTable, [Next]_vars
  PROVE  CallbacksMatchTable'
<1> SUFFICES ASSUME enabled', NEW e \in Device \ High PROVE seen'[e] = physical_poses'[e]
  BY DEF CallbacksMatchTable
<1>1. CASE TablesKept
  BY <1>1 DEF TablesKept, CallbacksMatchTable
<1>2. CASE OnPhysicalPose
  <2> DEFINE d == Head(toHelper).device
  <2>1. d \in Device /\ enabled
    BY <1>2, TakeEffect DEF OnPhysicalPose, Take
  <2>2. seen[e] = physical_poses[e]
    BY <2>1 DEF CallbacksMatchTable
  <2>3. CASE d \in High
    BY <1>2, <2>2, <2>3 DEF OnPhysicalPose, providerVars
  <2>4. CASE d \notin High
    BY ZenonT(40), <1>2, <2>1, <2>2, <2>4 DEF OnPhysicalPose, InjectPoses, TypeOK
  <2> QED
    BY <2>3, <2>4
<1>3. CASE OnPhysicalProperty
  BY <1>3 DEF OnPhysicalProperty, Take, CallbacksMatchTable
<1>4. CASE OnPhysicalDisconnected
  <2> DEFINE d == Head(toHelper).device
  <2>1. d \in Device /\ enabled
    BY <1>4, TakeEffect DEF OnPhysicalDisconnected, Take
  <2>2. seen[e] = physical_poses[e]
    BY <2>1 DEF CallbacksMatchTable
  <2> QED
    BY <1>4, <2>1, <2>2 DEF OnPhysicalDisconnected, InjectPoses, TypeOK
<1>5. CASE EnablePhysicalInjection
  <2>1. ~ enabled /\ ~ seen[e]
    BY <1>5 DEF EnablePhysicalInjection, Silent
  <2> QED
    BY <1>5, <2>1 DEF EnablePhysicalInjection, InjectPoses, TypeOK
<1> QED
  BY <1>1, <1>2, <1>3, <1>4, <1>5, OtherStepsKeepTables

-----------------------------------------------------------------------------
(* Poses and disconnections on their way.                                  *)

LEMMA NotStartedStep ==
  ASSUME TypeOK, NotStarted, [Next]_vars
  PROVE  NotStarted'
<1> SUFFICES ASSUME stage' = "off"
             PROVE  toHelper' = <<>> /\ \A d \in Device : ~ physical_poses'[d]
  BY DEF NotStarted
<1>1. stage = "off"
  BY DEF Next, NativeStep, Receive, DeviceChanges, FiveSecondsPass, BeginFrame, SendState,
         SendProperties, OnPhysicalPose, OnPhysicalProperty, OnPhysicalDisconnected, Take,
         HelperStarts, LoadProvider, EnablePhysicalInjection, HelperStops, ProviderWrites, vars
<1>2. toHelper = <<>> /\ ~ Bound /\ \A d \in Device : ~ physical_poses[d]
  BY <1>1 DEF NotStarted, Bound
<1>3. toHelper' = toHelper
  BY <1>1, <1>2
     DEF Next, NativeStep, Receive, DeviceChanges, FiveSecondsPass, BeginFrame, SendState, Send,
         SendProperties, OnPhysicalPose, OnPhysicalProperty, OnPhysicalDisconnected, Take,
         HelperStarts, LoadProvider, EnablePhysicalInjection, HelperStops, ProviderWrites, vars,
         linkVars
<1>4. physical_poses' = physical_poses
  BY <1>1, OtherStepsKeepTables
     DEF TablesKept, OnPhysicalPose, OnPhysicalProperty, OnPhysicalDisconnected, Take,
         EnablePhysicalInjection
<1> QED
  BY <1>2, <1>3, <1>4

\* The conclusions of PosesFollowed and NoGhosts.
Followed ==
  \A d \in Device : \A k \in 1..Len(toHelper) : toHelper[k] = Pose(d) =>
    \/ physical_connected[d]
    \/ \E j \in (k + 1)..Len(toHelper) : toHelper[j] = Disconnection(d)

NoGhost ==
  \A d \in Device : physical_poses[d] =>
    \/ physical_connected[d]
    \/ \E k \in 1..Len(toHelper) : toHelper[k] = Disconnection(d)

LEMMA GhostParts ==
  /\ PosesFollowed <=> (Bound /\ losses = 0 => Followed)
  /\ NoGhosts <=> (Bound /\ losses = 0 => NoGhost)
  BY DEF PosesFollowed, NoGhosts, Followed, NoGhost, Disconnection

\* A pose leaves its device connected for the driver.
LEMMA PoseSent ==
  ASSUME TypeOK, Followed, NoGhost, NEW e \in Device,
         toHelper' = Append(toHelper, Pose(e)),
         physical_connected' = [physical_connected EXCEPT ![e] = TRUE],
         UNCHANGED physical_poses
  PROVE  Followed' /\ NoGhost'
<1>1. /\ toHelper \in Seq(Message) /\ Len(toHelper) \in Nat /\ Len(toHelper') = Len(toHelper) + 1
      /\ toHelper'[Len(toHelper) + 1] = Pose(e)
      /\ \A k \in 1..Len(toHelper) : toHelper'[k] = toHelper[k]
  BY DEF TypeOK
<1>2. \A d \in Device : physical_connected[d] => physical_connected'[d]
  BY DEF TypeOK
<1>3. physical_connected'[e]
  BY DEF TypeOK
<1>4. ASSUME NEW d \in Device, NEW k \in 1..Len(toHelper'), toHelper'[k] = Pose(d),
             ~ physical_connected'[d]
      PROVE  \E j \in (k + 1)..Len(toHelper') : toHelper'[j] = Disconnection(d)
  <2>1. k \in 1..Len(toHelper) /\ ~ physical_connected[d]
    BY <1>1, <1>2, <1>3, <1>4 DEF Pose
  <2>2. PICK j \in (k + 1)..Len(toHelper) : toHelper[j] = Disconnection(d)
    BY <1>1, <1>4, <2>1 DEF Followed
  <2>3. j \in (k + 1)..Len(toHelper') /\ toHelper'[j] = toHelper[j]
    BY <1>1, <2>1
  <2> QED
    BY <2>2, <2>3
<1>5. ASSUME NEW d \in Device, physical_poses'[d], ~ physical_connected'[d]
      PROVE  \E j \in 1..Len(toHelper') : toHelper'[j] = Disconnection(d)
  <2>1. PICK j \in 1..Len(toHelper) : toHelper[j] = Disconnection(d)
    BY <1>2, <1>5 DEF NoGhost
  <2>2. j \in 1..Len(toHelper') /\ toHelper'[j] = toHelper[j]
    BY <1>1
  <2> QED
    BY <2>1, <2>2
<1> QED
  BY <1>4, <1>5 DEF Followed, NoGhost

\* A disconnection comes after every pose of its device.
LEMMA DisconnectionSent ==
  ASSUME TypeOK, Followed, NoGhost, NEW e \in Device,
         toHelper' = Append(toHelper, Disconnection(e)),
         physical_connected' = [physical_connected EXCEPT ![e] = FALSE],
         UNCHANGED physical_poses
  PROVE  Followed' /\ NoGhost'
<1>1. /\ toHelper \in Seq(Message) /\ Len(toHelper) \in Nat /\ Len(toHelper') = Len(toHelper) + 1
      /\ toHelper'[Len(toHelper) + 1] = Disconnection(e)
      /\ \A k \in 1..Len(toHelper) : toHelper'[k] = toHelper[k]
  BY DEF TypeOK
<1>2. \A d \in Device \ {e} : physical_connected[d] => physical_connected'[d]
  BY DEF TypeOK
<1>3. ASSUME NEW d \in Device, NEW k \in 1..Len(toHelper'), toHelper'[k] = Pose(d),
             ~ physical_connected'[d]
      PROVE  \E j \in (k + 1)..Len(toHelper') : toHelper'[j] = Disconnection(d)
  <2>1. k \in 1..Len(toHelper) /\ toHelper[k] = Pose(d)
    BY <1>1, <1>3 DEF Pose, Disconnection
  <2>2. CASE d = e
    BY <1>1, <2>1, <2>2
  <2>3. CASE d # e
    <3>1. PICK j \in (k + 1)..Len(toHelper) : toHelper[j] = Disconnection(d)
      BY <1>2, <1>3, <2>1, <2>3 DEF Followed
    <3>2. j \in (k + 1)..Len(toHelper') /\ toHelper'[j] = toHelper[j]
      BY <1>1, <2>1
    <3> QED
      BY <3>1, <3>2
  <2> QED
    BY <2>2, <2>3
<1>4. ASSUME NEW d \in Device, physical_poses'[d], ~ physical_connected'[d]
      PROVE  \E j \in 1..Len(toHelper') : toHelper'[j] = Disconnection(d)
  <2>1. CASE d = e
    BY <1>1, <2>1
  <2>2. CASE d # e
    <3>1. PICK j \in 1..Len(toHelper) : toHelper[j] = Disconnection(d)
      BY <1>2, <1>4, <2>2 DEF NoGhost
    <3>2. j \in 1..Len(toHelper') /\ toHelper'[j] = toHelper[j]
      BY <1>1
    <3> QED
      BY <3>1, <3>2
  <2> QED
    BY <2>1, <2>2
<1> QED
  BY <1>3, <1>4 DEF Followed, NoGhost

\* Properties say nothing of the connection.
LEMMA PropertySent ==
  ASSUME TypeOK, Followed, NoGhost, NEW e \in Device,
         toHelper' = Append(toHelper, [type |-> "PhysicalProperty", device |-> e]),
         UNCHANGED <<physical_connected, physical_poses>>
  PROVE  Followed' /\ NoGhost'
<1>1. /\ toHelper \in Seq(Message) /\ Len(toHelper) \in Nat /\ Len(toHelper') = Len(toHelper) + 1
      /\ toHelper'[Len(toHelper) + 1] = [type |-> "PhysicalProperty", device |-> e]
      /\ \A k \in 1..Len(toHelper) : toHelper'[k] = toHelper[k]
  BY DEF TypeOK
<1>2. ASSUME NEW d \in Device, NEW k \in 1..Len(toHelper'), toHelper'[k] = Pose(d),
             ~ physical_connected[d]
      PROVE  \E j \in (k + 1)..Len(toHelper') : toHelper'[j] = Disconnection(d)
  <2>1. k \in 1..Len(toHelper) /\ toHelper[k] = Pose(d)
    BY <1>1, <1>2 DEF Pose
  <2>2. PICK j \in (k + 1)..Len(toHelper) : toHelper[j] = Disconnection(d)
    BY <1>2, <2>1 DEF Followed
  <2>3. j \in (k + 1)..Len(toHelper') /\ toHelper'[j] = toHelper[j]
    BY <1>1, <2>1
  <2> QED
    BY <2>2, <2>3
<1>3. ASSUME NEW d \in Device, physical_poses[d], ~ physical_connected[d]
      PROVE  \E j \in 1..Len(toHelper') : toHelper'[j] = Disconnection(d)
  <2>1. PICK j \in 1..Len(toHelper) : toHelper[j] = Disconnection(d)
    BY <1>3 DEF NoGhost
  <2>2. j \in 1..Len(toHelper') /\ toHelper'[j] = toHelper[j]
    BY <1>1
  <2> QED
    BY <2>1, <2>2
<1> QED
  BY <1>2, <1>3 DEF Followed, NoGhost

\* A datagram taken is one whose effect the rest of the socket's queue outlives.
LEMMA Taken ==
  ASSUME TypeOK, Followed, NoGhost, NEW type, Take(type), UNCHANGED physical_connected,
         \A d \in Device : physical_poses'[d] =>
           /\ Head(toHelper) # Disconnection(d)
           /\ physical_poses[d] \/ Head(toHelper) = Pose(d)
  PROVE  Followed' /\ NoGhost'
<1>1. /\ toHelper # <<>> /\ Head(toHelper) = toHelper[1] /\ Len(toHelper) \in Nat
      /\ Len(toHelper') \in Nat /\ Len(toHelper) = Len(toHelper') + 1
      /\ \A k \in 1..Len(toHelper') : toHelper'[k] = toHelper[k + 1]
  BY TakeEffect DEF TypeOK
<1>2. ASSUME NEW d \in Device, NEW k \in 1..Len(toHelper'), toHelper'[k] = Pose(d),
             ~ physical_connected[d]
      PROVE  \E j \in (k + 1)..Len(toHelper') : toHelper'[j] = Disconnection(d)
  <2>1. k + 1 \in 1..Len(toHelper) /\ toHelper[k + 1] = Pose(d)
    BY <1>1, <1>2
  <2>2. PICK j \in (k + 1 + 1)..Len(toHelper) : toHelper[j] = Disconnection(d)
    BY <1>2, <2>1 DEF Followed
  <2>3. j - 1 \in (k + 1)..Len(toHelper') /\ j - 1 \in 1..Len(toHelper') /\ (j - 1) + 1 = j
    BY <1>1, <2>1
  <2> QED
    BY <1>1, <2>2, <2>3
<1>3. ASSUME NEW d \in Device, physical_poses'[d], ~ physical_connected[d]
      PROVE  \E j \in 1..Len(toHelper') : toHelper'[j] = Disconnection(d)
  <2>1. PICK j \in 1..Len(toHelper) : toHelper[j] = Disconnection(d)
    <3>1. CASE physical_poses[d]
      BY <1>3, <3>1 DEF NoGhost
    <3>2. CASE Head(toHelper) = Pose(d)
      <4>1. 1 \in 1..Len(toHelper) /\ toHelper[1] = Pose(d)
        BY <1>1, <3>2
      <4> QED
        BY <1>1, <1>3, <4>1 DEF Followed
    <3> QED
      BY <1>3, <3>1, <3>2
  <2>2. j # 1
    BY <1>1, <1>3, <2>1
  <2>3. j - 1 \in 1..Len(toHelper') /\ (j - 1) + 1 = j
    BY <1>1, <2>2
  <2> QED
    BY <1>1, <2>1, <2>3
<1> QED
  BY <1>2, <1>3 DEF Followed, NoGhost

LEMMA GhostStep ==
  ASSUME TypeOK, NotStarted, PosesFollowed, NoGhosts, [Next]_vars
  PROVE  PosesFollowed' /\ NoGhosts'
<1> SUFFICES ASSUME Bound', losses' = 0 PROVE Followed' /\ NoGhost'
  BY DEF PosesFollowed, NoGhosts, Followed, NoGhost, Disconnection
<1>1. CASE HelperStarts
  <2>1. toHelper' = <<>> /\ \A d \in Device : ~ physical_poses'[d]
    BY <1>1 DEF HelperStarts, NotStarted, linkVars, tableVars
  <2> QED
    BY <2>1 DEF Followed, NoGhost
<1>2. CASE ~ HelperStarts
  <2>1. Bound
    BY <1>2
       DEF Bound, Next, NativeStep, Receive, DeviceChanges, FiveSecondsPass, BeginFrame, SendState,
           SendProperties, OnPhysicalPose, OnPhysicalProperty, OnPhysicalDisconnected, Take,
           LoadProvider, EnablePhysicalInjection, HelperStops, ProviderWrites, vars
  <2>2. CASE SendState
    <3> DEFINE d == frame.at
    <3>1. d \in Device
      BY <2>2, FrameFacts DEF SendState
    <3>2. physical_poses' = physical_poses
      BY <2>2 DEF SendState, tableVars
    <3>3. CASE Send("PhysicalPose", d) /\ physical_connected' = [physical_connected EXCEPT ![d] = TRUE]
      <4>1. losses = 0 /\ toHelper' = Append(toHelper, Pose(d))
        BY <2>1, <3>1, <3>3, SendEffect DEF TypeOK, Pose
      <4>2. Followed /\ NoGhost
        BY <2>1, <4>1, GhostParts
      <4> QED
        BY <3>1, <3>2, <3>3, <4>1, <4>2, PoseSent
    <3>4. CASE Send("PhysicalDisconnected", d)
               /\ physical_connected' = [physical_connected EXCEPT ![d] = FALSE]
      <4>1. losses = 0 /\ toHelper' = Append(toHelper, Disconnection(d))
        BY <2>1, <3>1, <3>4, SendEffect DEF TypeOK, Disconnection
      <4>2. Followed /\ NoGhost
        BY <2>1, <4>1, GhostParts
      <4> QED
        BY <3>1, <3>2, <3>4, <4>1, <4>2, DisconnectionSent
    <3>5. CASE ~ physical_connected[d] /\ UNCHANGED linkVars
               /\ physical_connected' = [physical_connected EXCEPT ![d] = FALSE]
      <4>1. physical_connected' = physical_connected
        BY <3>1, <3>5 DEF TypeOK
      <4>2. losses = 0 /\ toHelper' = toHelper
        BY <3>5 DEF linkVars
      <4> QED
        BY <2>1, <3>2, <4>1, <4>2, GhostParts DEF Followed, NoGhost
    <3> QED
      BY <2>2, <3>3, <3>4, <3>5 DEF SendState
  <2>3. CASE SendProperties
    <3>1. frame.at \in Device
      BY <2>3, FrameFacts DEF SendProperties
    <3>2. losses = 0 /\ toHelper' = Append(toHelper, [type |-> "PhysicalProperty", device |-> frame.at])
      BY <2>1, <2>3, <3>1, SendEffect DEF SendProperties, TypeOK
    <3>3. Followed /\ NoGhost
      BY <2>1, <3>2, GhostParts
    <3> QED
      BY <2>3, <3>1, <3>2, <3>3, PropertySent DEF SendProperties, tableVars
  <2>4. CASE OnPhysicalPose
    <3> DEFINE d == Head(toHelper).device
    <3>1. Take("PhysicalPose") /\ losses = 0 /\ UNCHANGED physical_connected
      BY <2>4 DEF OnPhysicalPose, Take, nativeVars
    <3>2. d \in Device /\ Head(toHelper) = Pose(d)
      BY <3>1, TakeEffect DEF Pose
    <3>3. \A e \in Device : physical_poses'[e] => physical_poses[e] \/ e = d
      BY <2>4, <3>2 DEF OnPhysicalPose, TypeOK
    <3>4. \A e \in Device : Head(toHelper) # Disconnection(e)
      BY <3>2 DEF Pose, Disconnection
    <3> QED
      BY <2>1, <3>1, <3>2, <3>3, <3>4, GhostParts, Taken
  <2>5. CASE OnPhysicalProperty
    <3>1. Take("PhysicalProperty") /\ losses = 0 /\ UNCHANGED <<physical_connected, physical_poses>>
      BY <2>5 DEF OnPhysicalProperty, Take, nativeVars
    <3>2. \A e \in Device : Head(toHelper) # Disconnection(e)
      BY <3>1, TakeEffect DEF Disconnection
    <3> QED
      BY <2>1, <3>1, <3>2, GhostParts, Taken
  <2>6. CASE OnPhysicalDisconnected
    <3> DEFINE d == Head(toHelper).device
    <3>1. Take("PhysicalDisconnected") /\ losses = 0 /\ UNCHANGED physical_connected
      BY <2>6 DEF OnPhysicalDisconnected, Take, nativeVars
    <3>2. d \in Device /\ Head(toHelper) = Disconnection(d)
      BY <3>1, TakeEffect DEF Disconnection
    <3>3. \A e \in Device : physical_poses'[e] => physical_poses[e] /\ e # d
      BY <2>6, <3>2 DEF OnPhysicalDisconnected, TypeOK
    <3>4. \A e \in Device : Head(toHelper) = Disconnection(e) => e = d
      BY <3>2 DEF Disconnection
    <3> QED
      BY <2>1, <3>1, <3>2, <3>3, <3>4, GhostParts, Taken
  <2>7. CASE UNCHANGED <<toHelper, physical_connected, physical_poses, losses>>
    BY <2>1, <2>7, GhostParts DEF Followed, NoGhost
  <2> QED
    BY <1>2, <2>2, <2>3, <2>4, <2>5, <2>6, <2>7
       DEF Next, NativeStep, Receive, DeviceChanges, FiveSecondsPass, BeginFrame, LoadProvider,
           EnablePhysicalInjection, HelperStops, Bound, ProviderWrites, vars, nativeVars, linkVars,
           tableVars
<1> QED
  BY <1>1, <1>2

-----------------------------------------------------------------------------
(* The theorems.                                                           *)

LEMMA MInvInit == Init => MInv
<1> SUFFICES ASSUME Init PROVE MInv
  OBVIOUS
<1>1. TypeOK /\ ~ Bound /\ stage = "off" /\ toHelper = <<>> /\ ~ enabled
  BY TypeInit DEF Init, Bound
<1>2. \A d \in Device : ~ seen[d] /\ ~ physical_injected[d] /\ ~ physical_poses[d]
  BY DEF Init
<1> QED
  BY <1>1, <1>2
     DEF MInv, Silent, NotStarted, PosesFollowed, InjectedIsConnected, CallbacksMatchTable, NoGhosts

LEMMA MInvStep == MInv /\ [Next]_vars => MInv'
<1> SUFFICES ASSUME MInv, [Next]_vars PROVE MInv'
  OBVIOUS
<1> QED
  BY TypeStep, SilentStep, NotStartedStep, InjectedStep, CallbacksStep, GhostStep DEF MInv

\* The parts hold together in every reachable state.
THEOREM MInvHolds == Spec => []MInv
<1> QED
  BY MInvInit, MInvStep, PTL DEF Spec

\* Every reachable state is well typed: SendPhysicalState's loop never leaves the device indices.
THEOREM MirrorTypes == Spec => []TypeOK
<1>1. MInv => TypeOK
  BY DEF MInv
<1> QED
  BY <1>1, MInvHolds, PTL

\* A device the provider has been told of is held to be connected and has a serial number.
THEOREM InjectedConnected == Spec => []InjectedIsConnected
<1>1. MInv => InjectedIsConnected
  BY DEF MInv
<1> QED
  BY <1>1, MInvHolds, PTL

\* From EnablePhysicalInjection on, callbacks and table agree on every device with a stub.
THEOREM CallbacksAgree == Spec => []CallbacksMatchTable
<1>1. MInv => CallbacksMatchTable
  BY DEF MInv
<1> QED
  BY <1>1, MInvHolds, PTL

\* Without losses, every device that is gone for the native driver is gone for the helper or its
\* PhysicalDisconnected is in the socket, behind every pose of it.
THEOREM GhostsLeave == Spec => []NoGhosts
<1>1. MInv => NoGhosts
  BY DEF MInv
<1> QED
  BY <1>1, MInvHolds, PTL

=============================================================================
