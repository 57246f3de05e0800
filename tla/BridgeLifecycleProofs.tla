----------------------- MODULE BridgeLifecycleProofs -----------------------
(***************************************************************************)
(* HelpersExclusive, HelperInReadyPrefix, CompanionOutlivesHandoff,        *)
(* LiveHelperNotTimedOut and NoVainWait hold of BridgeLifecycle for any    *)
(* number of sessions and mishaps, for any timeouts that keep the order of *)
(* the code's, and however long a session takes to start.                  *)
(***************************************************************************)
EXTENDS BridgeLifecycle, FiniteSetTheorems, TLAPS

-----------------------------------------------------------------------------
(* Who has the lock.  A launcher past the lock holds it until it ends, its  *)
(* runner from the start of a program to its end; so the one session whose  *)
(* processes hold the lock is the one that took it last.                    *)

Holding == Starting \cup {"running"}
Unstarted == {"none", "waiting"} \cup Starting
Undisplayed == {"none", "waiting", "locked", "prefix", "ui", "dashboard"}

\* A loop that has come round has found its driver's last datagram younger than NativeTimeout.
Timers ==
  \A s \in Session :
    /\ helper[s] # "loop" => s \notin looped
    /\ s \in looped => timer[s] < NativeTimeout

Started ==
  \A s \in Session :
    /\ launcher[s] \in Unstarted => helper[s] = "none"
    /\ launcher[s] \in Undisplayed => dashboard[s] = "none"
    /\ launcher[s] = "running" => helper[s] # "none"
    /\ s > session => launcher[s] = "none" /\ waited[s] = 0

Held ==
  /\ \A s \in Session : launcher[s] \in Holding => locked = s /\ "launcher" \in holders
  /\ \A s \in Session : launcher[s] = "prefix" => "runner" \in holders
  /\ \A s \in Session :
       locked = s /\ helper[s] = "none" /\ "runner" \in holders => launcher[s] \in {"prefix", "ended"}
  /\ holders \subseteq {"launcher", "runner"}
  /\ "launcher" \in holders => locked \in Session /\ launcher[locked] \in Holding
  /\ "runner" \in holders => locked \in Session /\ helper[locked] # "gone"
  /\ handed = {} => \A s \in Bound : locked = s /\ "runner" \in holders

Ready ==
  /\ marker => prefix = "ready"
  /\ \A s \in Session : launcher[s] \in {"ui", "dashboard", "helper", "running"} => prefix = "ready"
  /\ HelperInReadyPrefix

Sessions ==
  /\ up => session # NoSession /\ orphaned < session
  /\ locked <= session
  /\ session # NoSession /\ ~ taken => locked < session

\* While the helper's loop runs, each tick finds a datagram of it at the driver's port or
\* received since the tick before.
Heard ==
  up /\ online /\ helper[session] = "loop" =>
    \/ session \in outbox \/ silence \in {0, Never}
    \/ silence = 1 /\ session \notin looped

\* How long the present session's launcher can have waited, as long as the lock has not
\* changed hands: while its holder was starting, and after that for a tick and NativeTimeout.
\* Datagrams of the holder's own session, whose driver is gone, are still read once.
Patience ==
  LET r == locked
      w == waited[session]
  IN  session \in Session /\ launcher[session] = "waiting" /\ ~ taken /\ holders # {} =>
        /\ r \in Session
        /\ Coming(r) => w <= stalled
        /\ helper[r] = "loop" => w <= stalled + 1 + timer[r]
        /\ helper[r] = "loop" /\ Own(r, inbox) # {} => w = 0 \/ (w <= stalled + 1 /\ r \notin looped)
        /\ w <= stalled + 1 + NativeTimeout

LInv == TypeOK /\ Timers /\ Started /\ Held /\ Ready /\ Sessions /\ Heard /\ Patience

-----------------------------------------------------------------------------
(* Types.                                                                  *)

LEMMA MishapType ==
  ASSUME TypeOK, Mishap
  PROVE  mishaps' \in 0..MaxMishaps /\ handed' \subseteq Session
  BY LifecycleAssumption DEF TypeOK, Mishap, Trouble

LEMMA ToHelperType ==
  ASSUME TypeOK, NEW D \in SUBSET Datagram, ToHelper(D)
  PROVE  inbox' \subseteq Datagram
  BY DEF TypeOK, ToHelper

LEMMA DatagramType ==
  ASSUME NEW s \in Session
  PROVE  {Packet(s)} \in SUBSET Datagram /\ {Shutdown(s)} \in SUBSET Datagram
  BY DEF Datagram, Packet, Shutdown

LEMMA GoneType ==
  ASSUME TypeOK, NEW s \in Session, Gone(s)
  PROVE  /\ helper' \in [Session -> {"none", "priming", "loading", "loop", "gone"}]
         /\ timer' \in [Session -> 0..NativeTimeout]
         /\ holders' \subseteq {"launcher", "runner", "ui"}
         /\ looped' \subseteq Session /\ inbox' \subseteq Datagram
<1>1. 0 \in 0..NativeTimeout
  BY LifecycleAssumption
<1> QED
  BY <1>1 DEF TypeOK, Gone, Release

LEMMA TypeStep ==
  ASSUME TypeOK, Timers, Sessions, [Next]_vars
  PROVE  TypeOK'
<1> USE LifecycleAssumption DEF Session, NoSession
<1>1. CASE NativeInit
  <2>1. session' \in Session
    BY <1>1 DEF NativeInit, TypeOK
  <2>2. inbox' \subseteq Datagram
    BY <1>1, <2>1 DEF NativeInit, ToHelper, Packet, Datagram, TypeOK
  <2>3. launcher' \in [Session -> LauncherPhase]
    BY <1>1, <2>1 DEF NativeInit, TypeOK, LauncherPhase
  <2>4. orphaned' \in 0..session'
    BY <1>1 DEF NativeInit, TypeOK
  <2>5. online' \in BOOLEAN
    BY <1>1, Zenon DEF NativeInit, TypeOK
  <2>6. silence' \in 0..Never
    BY <1>1 DEF NativeInit, Never
  <2>7. up' \in BOOLEAN /\ framed' \in BOOLEAN /\ taken' \in BOOLEAN /\ outbox' \subseteq Session
    BY <1>1 DEF NativeInit
  <2>8. stalled' \in Nat
    BY <1>1 DEF NativeInit
  <2> QED
    BY <1>1, <2>1, <2>2, <2>3, <2>4, <2>5, <2>6, <2>7, <2>8
       DEF NativeInit, helperVars, counters, TypeOK
<1>2. CASE Cleanup
  <2>1. session \in Session
    BY <1>2 DEF Cleanup, TypeOK, Sessions
  <2>2. inbox' \subseteq Datagram /\ mishaps' \in 0..MaxMishaps /\ handed' \subseteq Session
    BY <1>2, <2>1, ToHelperType, DatagramType, MishapType DEF Cleanup, TypeOK, counters
  <2> QED
    BY <1>2, <2>2 DEF Cleanup, lockVars, launcherVars, helperVars, TypeOK
<1>3. CASE DriverCrash
  <2>1. mishaps' \in 0..MaxMishaps /\ handed' \subseteq Session
    BY <1>3, MishapType DEF DriverCrash
  <2>2. orphaned' \in 0..session'
    BY <1>3 DEF DriverCrash, TypeOK
  <2> QED
    BY <1>3, <2>1, <2>2 DEF DriverCrash, lockVars, launcherVars, helperVars, TypeOK
<1>4. CASE RunFrame
  <2>1. session \in Session
    BY <1>4 DEF RunFrame, TypeOK, Sessions
  <2>2. inbox' \subseteq Datagram
    BY <1>4, <2>1, ToHelperType, DatagramType DEF RunFrame
  <2>3. online' \in BOOLEAN /\ silence' \in 0..Never
    BY <1>4 DEF RunFrame, Received, TimedOut, TypeOK, Never
  <2> QED
    BY <1>4, <2>2, <2>3 DEF RunFrame, lockVars, launcherVars, helperVars, counters, TypeOK
<1>5. CASE UiEnds
  BY ZenonT(40), <1>5 DEF UiEnds, driverVars, helperVars, socketVars, counters, TypeOK
<1>6. ASSUME NEW s \in Session, TakeLock(s) PROVE TypeOK'
  BY SMTT(30), <1>6 DEF TakeLock, Goto, driverVars, helperVars, socketVars, counters, TypeOK,
      LauncherPhase
<1>7. ASSUME NEW s \in Session, GiveUp(s) PROVE TypeOK'
  BY <1>7 DEF GiveUp, Goto, driverVars, lockVars, helperVars, socketVars, counters, TypeOK,
      LauncherPhase
<1>8. ASSUME NEW s \in Session, CheckMarker(s) PROVE TypeOK'
  BY ZenonT(40), <1>8 DEF CheckMarker, Goto, driverVars, helperVars, socketVars, counters, TypeOK,
      LauncherPhase
<1>9. ASSUME NEW s \in Session, PrefixMade(s) PROVE TypeOK'
  <2>1. mishaps' \in 0..MaxMishaps /\ handed' \subseteq Session
    BY <1>9, MishapType DEF PrefixMade, counters, TypeOK
  <2>2. launcher' \in [Session -> LauncherPhase] /\ holders' \subseteq {"launcher", "runner", "ui"}
    BY <1>9 DEF PrefixMade, Goto, TypeOK, LauncherPhase
  <2> QED
    BY ZenonT(40), <1>9, <2>1, <2>2 DEF PrefixMade, driverVars, helperVars, socketVars, TypeOK
<1>10. ASSUME NEW s \in Session, StartUi(s) PROVE TypeOK'
  BY <1>10 DEF StartUi, Goto, driverVars, lockVars, helperVars, socketVars, counters, TypeOK,
      LauncherPhase
<1>11. ASSUME NEW s \in Session, StartDashboard(s) PROVE TypeOK'
  BY <1>11 DEF StartDashboard, Goto, driverVars, lockVars, helperVars, socketVars, counters,
      TypeOK, LauncherPhase
<1>12. ASSUME NEW s \in Session, StartHelper(s) PROVE TypeOK'
  BY SMTT(30), <1>12 DEF StartHelper, ToNative, Goto, driverVars, counters, TypeOK, LauncherPhase
<1>13. ASSUME NEW s \in Session, LauncherEnds(s) PROVE TypeOK'
  BY SMTT(30), <1>13 DEF LauncherEnds, Goto, Release, driverVars, helperVars, socketVars, counters,
      TypeOK, LauncherPhase
<1>14. ASSUME NEW s \in Session, RunnerHandsOff(s) PROVE TypeOK'
  <2>1. mishaps' \in 0..MaxMishaps /\ handed' \subseteq Session
    BY <1>14 DEF RunnerHandsOff, Trouble, TypeOK
  <2>2. launcher' \in [Session -> LauncherPhase] /\ holders' \subseteq {"launcher", "runner", "ui"}
    BY <1>14 DEF RunnerHandsOff, Goto, Release, TypeOK, LauncherPhase
  <2> QED
    BY SMTT(30), <1>14, <2>1, <2>2 DEF RunnerHandsOff, driverVars, helperVars, socketVars, TypeOK
<1>15. ASSUME NEW s \in Session, LauncherKilled(s) PROVE TypeOK'
  <2>1. mishaps' \in 0..MaxMishaps /\ handed' \subseteq Session
    BY <1>15, MishapType DEF LauncherKilled
  <2>2. launcher' \in [Session -> LauncherPhase] /\ holders' \subseteq {"launcher", "runner", "ui"}
    BY <1>15 DEF LauncherKilled, Goto, Release, TypeOK, LauncherPhase
  <2> QED
    BY SMTT(30), <1>15, <2>1, <2>2 DEF LauncherKilled, driverVars, helperVars, socketVars, TypeOK
<1>16. ASSUME NEW s \in Session, CompanionEnds(s) PROVE TypeOK'
  BY <1>16 DEF CompanionEnds, driverVars, lockVars, helperVars, socketVars, counters, TypeOK
<1>17. ASSUME NEW s \in Session, Prime(s) PROVE TypeOK'
  <2>1. CASE Gone(s)
    BY ZenonT(40), <1>17, <2>1, GoneType DEF Prime, driverVars, launcherVars, counters, TypeOK
  <2>2. CASE helper' = [helper EXCEPT ![s] = "loading"] /\ inbox' = {}
             /\ UNCHANGED <<timer, looped, holders>>
    BY SMTT(30), <1>17, <2>2 DEF Prime, driverVars, launcherVars, counters, TypeOK
  <2> QED
    BY <1>17, <2>1, <2>2 DEF Prime
<1>18. ASSUME NEW s \in Session, ProviderInit(s) PROVE TypeOK'
  <2>1. outbox' \subseteq Session
    BY <1>18 DEF ProviderInit, ToNative, TypeOK
  <2>2. CASE Mishap /\ Gone(s)
    BY ZenonT(40), <1>18, <2>1, <2>2, GoneType, MishapType DEF ProviderInit, driverVars, launcherVars, TypeOK
  <2>3. CASE helper' = [helper EXCEPT ![s] = "loop"] /\ timer' = [timer EXCEPT ![s] = 0]
             /\ UNCHANGED <<looped, inbox, holders, counters>>
    BY SMTT(30), <1>18, <2>1, <2>3 DEF ProviderInit, driverVars, launcherVars, counters, TypeOK
  <2> QED
    BY <1>18, <2>2, <2>3 DEF ProviderInit
<1>19. ASSUME NEW s \in Session, HelperLoop(s) PROVE TypeOK'
  <2>1. outbox' \subseteq Session
    BY <1>19 DEF HelperLoop, ToNative, TypeOK
  <2>2. CASE Gone(s)
    BY ZenonT(40), <1>19, <2>1, <2>2, GoneType DEF HelperLoop, driverVars, launcherVars, counters, TypeOK
  <2>3. CASE ~ Gone(s)
    <3>0. 0 \in 0..NativeTimeout
      OBVIOUS
    <3>1. timer' \in [Session -> 0..NativeTimeout]
      BY SMTT(30), <1>19, <2>3, <3>0 DEF HelperLoop, TypeOK, Timers
    <3>2. looped' \subseteq Session /\ inbox' \subseteq Datagram /\ UNCHANGED <<helper, holders>>
      BY <1>19, <2>3 DEF HelperLoop, TypeOK
    <3> QED
      BY SMTT(30), <1>19, <2>1, <3>1, <3>2 DEF HelperLoop, driverVars, launcherVars, counters, TypeOK
  <2> QED
    BY <2>2, <2>3
<1>20. ASSUME NEW s \in Session, HelperKilled(s) PROVE TypeOK'
  BY ZenonT(40), <1>20, GoneType, MishapType DEF HelperKilled, driverVars, launcherVars, TypeOK
<1>21. CASE Tick
  <2>1. silence' \in 0..Never
    BY <1>21 DEF Tick, Age, Never, TypeOK
  <2>2. waited' \in [Session -> 0..LockWait]
    BY <1>21 DEF Tick, TypeOK
  <2>3. timer' \in [Session -> 0..NativeTimeout]
    <3> SUFFICES ASSUME NEW s \in Session, helper[s] = "loop"
                 PROVE  timer[s] + 1 \in 0..NativeTimeout
      BY <1>21 DEF Tick, TypeOK
    <3> QED
      BY <1>21 DEF Tick, Timers, TypeOK
  <2>4. stalled' \in Nat
    BY <1>21 DEF Tick, TypeOK
  <2> QED
    BY <1>21, <2>1, <2>2, <2>3, <2>4 DEF Tick, socketVars, counters, TypeOK
<1>22. CASE UNCHANGED vars
  BY <1>22 DEF vars, driverVars, lockVars, launcherVars, helperVars, socketVars, counters,
      TypeOK
<1> QED
  BY <1>1, <1>2, <1>3, <1>4, <1>5, <1>6, <1>7, <1>8, <1>9, <1>10, <1>11, <1>12, <1>13, <1>14,
      <1>15, <1>16, <1>17, <1>18, <1>19, <1>20, <1>21, <1>22 DEF Next, LauncherStep, HelperStep

-----------------------------------------------------------------------------
(* Timers and stages.                                                      *)

LEMMA GoneTimers ==
  ASSUME TypeOK, Timers, NEW s \in Session, Gone(s)
  PROVE  Timers'
<1>1. \A r \in Session \ {s} : helper'[r] = helper[r] /\ timer'[r] = timer[r] /\ (r \in looped' <=> r \in looped)
  BY DEF Gone, TypeOK
<1>2. helper'[s] = "gone" /\ timer'[s] = 0 /\ s \notin looped'
  BY DEF Gone, TypeOK
<1> QED
  BY <1>1, <1>2, LifecycleAssumption DEF Timers

LEMMA TimersStep ==
  ASSUME TypeOK, Timers, Started, [Next]_vars
  PROVE  Timers'
<1> USE LifecycleAssumption DEF Session, NoSession
<1>1. CASE NativeInit
  BY <1>1 DEF NativeInit, ToHelper, helperVars, counters, TypeOK, Timers
<1>2. CASE Cleanup
  BY <1>2 DEF Cleanup, ToHelper, Mishap, lockVars, launcherVars, helperVars, counters, Trouble,
      TypeOK, Timers
<1>3. CASE DriverCrash
  BY <1>3 DEF DriverCrash, Mishap, lockVars, launcherVars, helperVars, Trouble, TypeOK, Timers
<1>4. CASE RunFrame
  BY <1>4 DEF RunFrame, ToHelper, Received, TimedOut, lockVars, launcherVars, helperVars,
      counters, TypeOK, Timers
<1>5. CASE UiEnds
  BY <1>5 DEF UiEnds, driverVars, helperVars, socketVars, counters, TypeOK, Timers
<1>6. ASSUME NEW s \in Session, TakeLock(s) PROVE Timers'
  BY <1>6 DEF TakeLock, Goto, driverVars, helperVars, socketVars, counters, TypeOK, Timers
<1>7. ASSUME NEW s \in Session, GiveUp(s) PROVE Timers'
  BY <1>7 DEF GiveUp, Goto, driverVars, lockVars, helperVars, socketVars, counters, TypeOK,
      Timers
<1>8. ASSUME NEW s \in Session, CheckMarker(s) PROVE Timers'
  BY <1>8 DEF CheckMarker, Goto, driverVars, helperVars, socketVars, counters, TypeOK, Timers
<1>9. ASSUME NEW s \in Session, PrefixMade(s) PROVE Timers'
  BY <1>9 DEF PrefixMade, Mishap, Goto, driverVars, helperVars, socketVars, counters, Trouble,
      TypeOK, Timers
<1>10. ASSUME NEW s \in Session, StartUi(s) PROVE Timers'
  BY <1>10 DEF StartUi, Goto, driverVars, lockVars, helperVars, socketVars, counters, TypeOK,
      Timers
<1>11. ASSUME NEW s \in Session, StartDashboard(s) PROVE Timers'
  BY <1>11 DEF StartDashboard, Goto, driverVars, lockVars, helperVars, socketVars, counters,
      TypeOK, Timers
<1>12. ASSUME NEW s \in Session, StartHelper(s) PROVE Timers'
  BY <1>12 DEF StartHelper, ToNative, Goto, driverVars, counters, TypeOK, Timers, Started,
      Unstarted, Starting
<1>13. ASSUME NEW s \in Session, LauncherEnds(s) PROVE Timers'
  BY <1>13 DEF LauncherEnds, Goto, Release, driverVars, helperVars, socketVars, counters,
      TypeOK, Timers
<1>14. ASSUME NEW s \in Session, RunnerHandsOff(s) PROVE Timers'
  BY <1>14 DEF RunnerHandsOff, Trouble, Goto, Release, driverVars, helperVars, socketVars,
      TypeOK, Timers
<1>15. ASSUME NEW s \in Session, LauncherKilled(s) PROVE Timers'
  BY <1>15 DEF LauncherKilled, Mishap, Goto, Release, Alive, driverVars, helperVars,
      socketVars, Trouble, TypeOK, Timers
<1>16. ASSUME NEW s \in Session, CompanionEnds(s) PROVE Timers'
  BY <1>16 DEF CompanionEnds, driverVars, lockVars, helperVars, socketVars, counters, TypeOK,
      Timers
<1>17. ASSUME NEW s \in Session, Prime(s) PROVE Timers'
  <2>1. CASE ~ Gone(s)
    BY <1>17, <2>1 DEF Prime, TypeOK, Timers
  <2> QED
    BY <1>17, <2>1, GoneTimers
<1>18. ASSUME NEW s \in Session, ProviderInit(s) PROVE Timers'
  <2>1. CASE /\ helper' = [helper EXCEPT ![s] = "loop"] /\ timer' = [timer EXCEPT ![s] = 0]
             /\ looped' = looped
    BY <1>18, <2>1 DEF TypeOK, Timers
  <2>2. CASE Gone(s)
    BY <1>18, <2>2, GoneTimers
  <2> QED
    BY <1>18, <2>1, <2>2 DEF ProviderInit
<1>19. ASSUME NEW s \in Session, HelperLoop(s) PROVE Timers'
  <2>1. CASE ~ Gone(s)
    <3> DEFINE quiet == IF Own(s, inbox) = {} THEN timer[s] ELSE 0
    <3>1. quiet \in Nat /\ quiet < NativeTimeout
      BY <1>19, <2>1 DEF HelperLoop, TypeOK
    <3>2. /\ timer' = [timer EXCEPT ![s] = quiet]
          /\ looped' = looped \cup {s} /\ helper' = helper
      BY <1>19, <2>1 DEF HelperLoop
    <3> HIDE DEF quiet
    <3> QED
      BY <1>19, <3>1, <3>2 DEF HelperLoop, TypeOK, Timers
  <2> QED
    BY <1>19, <2>1, GoneTimers
<1>20. ASSUME NEW s \in Session, HelperKilled(s) PROVE Timers'
  BY <1>20, GoneTimers DEF HelperKilled
<1>21. CASE Tick
  BY <1>21 DEF Tick, Age, lockVars, socketVars, counters, TypeOK, Timers, Started, Coming,
      Unstarted, Loading, Starting
<1>22. CASE UNCHANGED vars
  BY <1>22 DEF vars, driverVars, lockVars, launcherVars, helperVars, socketVars, counters,
      TypeOK, Timers
<1> QED
  BY <1>1, <1>2, <1>3, <1>4, <1>5, <1>6, <1>7, <1>8, <1>9, <1>10, <1>11, <1>12, <1>13, <1>14,
      <1>15, <1>16, <1>17, <1>18, <1>19, <1>20, <1>21, <1>22 DEF Next, LauncherStep, HelperStep

\* A launcher goes through its stages in order, and only forwards.
LEMMA StartedStep ==
  ASSUME TypeOK, Started, Sessions, [Next]_vars
  PROVE  Started'
<1> USE LifecycleAssumption DEF Session, NoSession
<1>1. CASE NativeInit
  BY <1>1 DEF NativeInit, ToHelper, helperVars, counters, TypeOK, Started, Unstarted,
      Undisplayed, Starting
<1>2. CASE Cleanup
  BY <1>2 DEF Cleanup, ToHelper, Mishap, lockVars, launcherVars, helperVars, counters, Trouble,
      TypeOK, Started, Unstarted, Undisplayed, Starting
<1>3. CASE DriverCrash
  BY <1>3 DEF DriverCrash, Mishap, lockVars, launcherVars, helperVars, Trouble, TypeOK,
      Started, Unstarted, Undisplayed, Starting
<1>4. CASE RunFrame
  BY <1>4 DEF RunFrame, ToHelper, Received, TimedOut, lockVars, launcherVars, helperVars,
      counters, TypeOK, Started, Unstarted, Undisplayed, Starting
<1>5. CASE UiEnds
  BY <1>5 DEF UiEnds, driverVars, helperVars, socketVars, counters, TypeOK, Started, Unstarted,
      Undisplayed, Starting
<1>6. ASSUME NEW s \in Session, TakeLock(s) PROVE Started'
  BY <1>6 DEF TakeLock, Goto, driverVars, helperVars, socketVars, counters, TypeOK, Started,
      Unstarted, Undisplayed, Starting
<1>7. ASSUME NEW s \in Session, GiveUp(s) PROVE Started'
  BY <1>7 DEF GiveUp, Goto, driverVars, lockVars, helperVars, socketVars, counters, TypeOK,
      Started, Unstarted, Undisplayed, Starting
<1>8. ASSUME NEW s \in Session, CheckMarker(s) PROVE Started'
  BY SMTT(30), <1>8 DEF CheckMarker, Goto, driverVars, helperVars, socketVars, counters, TypeOK, Started,
      Unstarted, Undisplayed, Starting
<1>9. ASSUME NEW s \in Session, PrefixMade(s) PROVE Started'
  <2>1. /\ UNCHANGED <<driverVars, waited, dashboard, helperVars>>
        /\ \/ launcher' = launcher
           \/ launcher[s] = "prefix" /\ launcher' = [launcher EXCEPT ![s] = "ui"]
           \/ launcher' = [launcher EXCEPT ![s] = "ended"]
    BY <1>9 DEF PrefixMade, Goto
  <2>2. s <= session /\ helper[s] = "none"
    BY <1>9 DEF PrefixMade, Sessions
  <2> QED
    BY SMTT(30), <2>1, <2>2 DEF driverVars, helperVars, TypeOK, Started, Unstarted, Undisplayed, Starting
<1>10. ASSUME NEW s \in Session, StartUi(s) PROVE Started'
  BY <1>10 DEF StartUi, Goto, driverVars, lockVars, helperVars, socketVars, counters, TypeOK,
      Started, Unstarted, Undisplayed, Starting
<1>11. ASSUME NEW s \in Session, StartDashboard(s) PROVE Started'
  BY <1>11 DEF StartDashboard, Goto, driverVars, lockVars, helperVars, socketVars, counters,
      TypeOK, Started, Unstarted, Undisplayed, Starting
<1>12. ASSUME NEW s \in Session, StartHelper(s) PROVE Started'
  BY <1>12 DEF StartHelper, ToNative, Goto, driverVars, counters, TypeOK, Started, Unstarted,
      Undisplayed, Starting
<1>13. ASSUME NEW s \in Session, LauncherEnds(s) PROVE Started'
  BY <1>13 DEF LauncherEnds, Goto, Release, driverVars, helperVars, socketVars, counters,
      TypeOK, Started, Unstarted, Undisplayed, Starting
<1>14. ASSUME NEW s \in Session, RunnerHandsOff(s) PROVE Started'
  BY <1>14 DEF RunnerHandsOff, Trouble, Goto, Release, driverVars, helperVars, socketVars,
      TypeOK, Started, Unstarted, Undisplayed, Starting
<1>15. ASSUME NEW s \in Session, LauncherKilled(s) PROVE Started'
  BY <1>15 DEF LauncherKilled, Mishap, Goto, Release, Alive, driverVars, helperVars,
      socketVars, Trouble, TypeOK, Started, Unstarted, Undisplayed, Starting, LauncherPhase
<1>16. ASSUME NEW s \in Session, CompanionEnds(s) PROVE Started'
  BY <1>16 DEF CompanionEnds, driverVars, lockVars, helperVars, socketVars, counters, TypeOK,
      Started, Unstarted, Undisplayed, Starting
<1>17. ASSUME NEW s \in Session, Prime(s) PROVE Started'
  BY <1>17 DEF Prime, Gone, driverVars, launcherVars, counters, Release, TypeOK, Started,
      Unstarted, Undisplayed, Starting
<1>18. ASSUME NEW s \in Session, ProviderInit(s) PROVE Started'
  BY <1>18 DEF ProviderInit, ToNative, Mishap, Gone, driverVars, launcherVars, counters,
      Trouble, Release, TypeOK, Started, Unstarted, Undisplayed, Starting
<1>19. ASSUME NEW s \in Session, HelperLoop(s) PROVE Started'
  BY <1>19 DEF HelperLoop, ToNative, Gone, driverVars, launcherVars, counters, Release, TypeOK,
      Started, Unstarted, Undisplayed, Starting
<1>20. ASSUME NEW s \in Session, HelperKilled(s) PROVE Started'
  <2>1. helper[s] # "none" /\ helper' = [helper EXCEPT ![s] = "gone"]
    BY <1>20 DEF HelperKilled, Gone, Bound, Loading
  <2> QED
    BY <1>20, <2>1 DEF HelperKilled, driverVars, launcherVars, TypeOK, Started, Unstarted, Starting
<1>21. CASE Tick
  BY <1>21 DEF Tick, Age, lockVars, socketVars, counters, TypeOK, Started, Unstarted,
      Undisplayed, Starting
<1>22. CASE UNCHANGED vars
  BY <1>22 DEF vars, driverVars, lockVars, launcherVars, helperVars, socketVars, counters,
      TypeOK, Started, Unstarted, Undisplayed, Starting
<1> QED
  BY <1>1, <1>2, <1>3, <1>4, <1>5, <1>6, <1>7, <1>8, <1>9, <1>10, <1>11, <1>12, <1>13, <1>14,
      <1>15, <1>16, <1>17, <1>18, <1>19, <1>20, <1>21, <1>22 DEF Next, LauncherStep, HelperStep

-----------------------------------------------------------------------------
(* The lock.                                                               *)

\* The end of a helper takes its runner's hold with it.
LEMMA GoneHeld ==
  ASSUME TypeOK, Started, Held, NEW s \in Session, helper[s] # "none", Gone(s),
         UNCHANGED <<launcher, locked>>, handed' = handed
  PROVE  Held'
<1>1. \A r \in Session \ {s} : helper'[r] = helper[r]
  BY DEF Gone, TypeOK
<1>2. helper'[s] = "gone"
  BY DEF Gone, TypeOK
<1>3. holders' = IF locked = s THEN holders \ {"runner"} ELSE holders
  BY DEF Gone, Release
<1>4. \A r \in Session : launcher'[r] \in Holding => locked' = r /\ "launcher" \in holders'
  BY <1>3 DEF Held
<1>5. \A r \in Session : launcher'[r] = "prefix" => "runner" \in holders'
  BY <1>3 DEF Held, Started, Unstarted, Starting, Holding
<1>6. \A r \in Session :
        locked' = r /\ helper'[r] = "none" /\ "runner" \in holders' => launcher'[r] \in {"prefix", "ended"}
  BY <1>1, <1>2, <1>3 DEF Held
<1>7. holders' \subseteq {"launcher", "runner"}
  BY <1>3 DEF Held
<1>8. "launcher" \in holders' => locked' \in Session /\ launcher'[locked'] \in Holding
  BY <1>3 DEF Held
<1>9. "runner" \in holders' => locked' \in Session /\ helper'[locked'] # "gone"
  BY <1>1, <1>3 DEF Held
<1>10. handed' = {} => \A r \in Bound' : locked' = r /\ "runner" \in holders'
  BY <1>1, <1>2, <1>3 DEF Held, Bound, Loading
<1> QED
  BY <1>4, <1>5, <1>6, <1>7, <1>8, <1>9, <1>10 DEF Held

LEMMA HeldStep ==
  ASSUME TypeOK, Started, Held, [Next]_vars
  PROVE  Held'
<1> USE LifecycleAssumption DEF Session, NoSession
<1>1. CASE NativeInit
  <2>1. UNCHANGED <<holders, locked, helper, handed>>
    BY <1>1 DEF NativeInit, helperVars, counters
  <2>2. session' \in Session /\ launcher[session'] = "none" /\ helper[session'] = "none"
    BY <1>1 DEF NativeInit, TypeOK, Started, Unstarted
  <2>3. \A r \in Session : launcher'[r] = launcher[r] \/ (r = session' /\ launcher'[r] = "waiting")
    BY <1>1 DEF NativeInit, TypeOK
  <2> QED
    BY <2>1, <2>2, <2>3 DEF Held, Holding, Starting, Bound, Loading
<1>2. CASE Cleanup
  BY <1>2 DEF Cleanup, ToHelper, Mishap, lockVars, launcherVars, helperVars, counters, Trouble,
      TypeOK, Held, Holding, Starting, Bound, Loading
<1>3. CASE DriverCrash
  BY <1>3 DEF DriverCrash, Mishap, lockVars, launcherVars, helperVars, Trouble, TypeOK, Held,
      Holding, Starting, Bound, Loading
<1>4. CASE RunFrame
  BY <1>4 DEF RunFrame, ToHelper, Received, TimedOut, lockVars, launcherVars, helperVars,
      counters, TypeOK, Held, Holding, Starting, Bound, Loading
<1>5. CASE UiEnds
  BY <1>5 DEF UiEnds, driverVars, helperVars, socketVars, counters, TypeOK, Held, Holding,
      Starting, Bound, Loading
<1>6. ASSUME NEW s \in Session, TakeLock(s) PROVE Held'
  BY <1>6 DEF TakeLock, Goto, driverVars, helperVars, socketVars, counters, TypeOK, Held,
      Holding, Starting, Bound, Loading
<1>7. ASSUME NEW s \in Session, GiveUp(s) PROVE Held'
  BY SMTT(30), <1>7 DEF GiveUp, Goto, driverVars, lockVars, helperVars, socketVars, counters, TypeOK,
      Held, Holding, Starting, Bound, Loading
<1>8. ASSUME NEW s \in Session, CheckMarker(s) PROVE Held'
  <2>1. UNCHANGED <<locked, helper, handed>>
    BY <1>8 DEF CheckMarker, helperVars, counters
  <2>2. locked = s /\ "launcher" \in holders /\ helper[s] = "none"
    BY <1>8 DEF CheckMarker, Held, Holding, Starting, Started, Unstarted
  <2>3. CASE launcher' = [launcher EXCEPT ![s] = "ui"] /\ holders' = holders
    BY <1>8, <2>1, <2>2, <2>3 DEF CheckMarker, TypeOK, Held, Holding, Starting, Bound, Loading
  <2>4. CASE launcher' = [launcher EXCEPT ![s] = "prefix"] /\ holders' = holders \cup {"runner"}
    BY <1>8, <2>1, <2>2, <2>4 DEF TypeOK, Held, Holding, Starting, Bound, Loading
  <2> QED
    BY <1>8, <2>3, <2>4 DEF CheckMarker, Goto
<1>9. ASSUME NEW s \in Session, PrefixMade(s) PROVE Held'
  <2>1. UNCHANGED <<locked, helper>> /\ handed' = handed
    BY <1>9 DEF PrefixMade, helperVars, counters, Mishap
  <2>2. locked = s /\ launcher[s] \in {"prefix", "ended"} /\ helper[s] = "none" /\ "runner" \in holders
    BY <1>9 DEF PrefixMade, Held
  <2>3. \A r \in Session \ {s} : launcher[r] \notin Holding
    BY <2>2 DEF Held
  <2>4. handed = {} => Bound = {}
    BY <2>2 DEF Held, Bound, Loading
  <2>5. CASE /\ launcher[s] = "prefix" /\ launcher' = [launcher EXCEPT ![s] = "ui"]
             /\ holders' = holders \ {"runner"}
    BY ZenonT(40), <2>1, <2>2, <2>3, <2>4, <2>5 DEF TypeOK, Held, Holding, Starting, Bound
  <2>6. CASE launcher' = launcher /\ launcher[s] # "prefix" /\ holders' = {}
    BY <2>1, <2>2, <2>3, <2>4, <2>6 DEF TypeOK, Held, Holding, Starting, Bound
  <2>7. CASE launcher' = [launcher EXCEPT ![s] = "ended"] /\ holders' = {}
    BY <2>1, <2>2, <2>3, <2>4, <2>7 DEF TypeOK, Held, Holding, Starting, Bound
  <2> QED
    BY <1>9, <2>5, <2>6, <2>7 DEF PrefixMade, Goto
<1>10. ASSUME NEW s \in Session, StartUi(s) PROVE Held'
  BY SMTT(30), <1>10 DEF StartUi, Goto, driverVars, lockVars, helperVars, socketVars, counters, TypeOK,
      Held, Holding, Starting, Bound, Loading
<1>11. ASSUME NEW s \in Session, StartDashboard(s) PROVE Held'
  BY SMTT(30), <1>11 DEF StartDashboard, Goto, driverVars, lockVars, helperVars, socketVars, counters,
      TypeOK, Held, Holding, Starting, Bound, Loading
<1>12. ASSUME NEW s \in Session, StartHelper(s) PROVE Held'
  BY <1>12 DEF StartHelper, ToNative, Goto, driverVars, counters, TypeOK, Held, Holding,
      Starting, Bound, Loading, Started, Unstarted
<1>13. ASSUME NEW s \in Session, LauncherEnds(s) PROVE Held'
  BY SMTT(30), <1>13 DEF LauncherEnds, Goto, Release, driverVars, helperVars, socketVars, counters,
      TypeOK, Held, Holding, Starting, Bound, Loading, Started, Unstarted
<1>14. ASSUME NEW s \in Session, RunnerHandsOff(s) PROVE Held'
  <2>1. UNCHANGED <<locked, helper>> /\ handed' # {}
    BY <1>14 DEF RunnerHandsOff, helperVars, TypeOK
  <2>2. locked = s /\ helper[s] # "none" /\ helper[s] # "gone"
    BY <1>14 DEF RunnerHandsOff, Held, Holding, Bound, Loading
  <2>3. \A r \in Session \ {s} : launcher[r] \notin Holding
    BY <2>2 DEF Held
  <2>4. launcher' = [launcher EXCEPT ![s] = "ended"]
        /\ (holders' = holders \ {"launcher"} \/ holders' = {})
    BY <1>14, <2>2 DEF RunnerHandsOff, Goto, Release
  <2> QED
    BY <2>1, <2>2, <2>3, <2>4 DEF TypeOK, Held, Holding, Starting
<1>15. ASSUME NEW s \in Session, LauncherKilled(s) PROVE Held'
  BY SMTT(30), <1>15 DEF LauncherKilled, Mishap, Goto, Release, Alive, driverVars, helperVars,
      socketVars, Trouble, TypeOK, Held, Holding, Starting, Bound, Loading, Started, Unstarted
<1>16. ASSUME NEW s \in Session, CompanionEnds(s) PROVE Held'
  BY <1>16 DEF CompanionEnds, driverVars, lockVars, helperVars, socketVars, counters, TypeOK,
      Held, Holding, Starting, Bound, Loading
<1>17. ASSUME NEW s \in Session, Prime(s) PROVE Held'
  <2>1. CASE Gone(s)
    BY <1>17, <2>1, GoneHeld DEF Prime, launcherVars, counters
  <2>2. CASE ~ Gone(s)
    BY ZenonT(40), <1>17, <2>2 DEF Prime, launcherVars, counters, TypeOK, Held, Bound, Loading
  <2> QED
    BY <2>1, <2>2
<1>18. ASSUME NEW s \in Session, ProviderInit(s) PROVE Held'
  <2>1. CASE Gone(s)
    BY <1>18, <2>1, GoneHeld DEF ProviderInit, launcherVars, counters, Mishap
  <2>2. CASE ~ Gone(s)
    BY ZenonT(40), <1>18, <2>2 DEF ProviderInit, launcherVars, counters, TypeOK, Held, Bound, Loading
  <2> QED
    BY <2>1, <2>2
<1>19. ASSUME NEW s \in Session, HelperLoop(s) PROVE Held'
  <2>1. CASE Gone(s)
    BY <1>19, <2>1, GoneHeld DEF HelperLoop, launcherVars, counters
  <2>2. CASE ~ Gone(s)
    BY <1>19, <2>2 DEF HelperLoop, launcherVars, counters, Held, Bound
  <2> QED
    BY <2>1, <2>2
<1>20. ASSUME NEW s \in Session, HelperKilled(s) PROVE Held'
  BY <1>20, GoneHeld DEF HelperKilled, launcherVars, Mishap, Bound, Loading
<1>21. CASE Tick
  BY <1>21 DEF Tick, Age, lockVars, socketVars, counters, TypeOK, Held, Holding, Starting,
      Bound, Loading
<1>22. CASE UNCHANGED vars
  BY <1>22 DEF vars, driverVars, lockVars, launcherVars, helperVars, socketVars, counters,
      TypeOK, Held, Holding, Starting, Bound, Loading
<1> QED
  BY <1>1, <1>2, <1>3, <1>4, <1>5, <1>6, <1>7, <1>8, <1>9, <1>10, <1>11, <1>12, <1>13, <1>14,
      <1>15, <1>16, <1>17, <1>18, <1>19, <1>20, <1>21, <1>22 DEF Next, LauncherStep, HelperStep

-----------------------------------------------------------------------------
(* The prefix, the sessions and the silences.                              *)

\* Nothing makes a ready prefix partial again.
LEMMA ReadyStep ==
  ASSUME TypeOK, Started, Ready, [Next]_vars
  PROVE  Ready'
<1> USE LifecycleAssumption DEF Session, NoSession
<1>1. CASE NativeInit
  BY <1>1 DEF NativeInit, ToHelper, helperVars, counters, TypeOK, Ready, HelperInReadyPrefix,
      Bound, Loading
<1>2. CASE Cleanup
  BY <1>2 DEF Cleanup, ToHelper, Mishap, lockVars, launcherVars, helperVars, counters, Trouble,
      TypeOK, Ready, HelperInReadyPrefix, Bound, Loading
<1>3. CASE DriverCrash
  BY <1>3 DEF DriverCrash, Mishap, lockVars, launcherVars, helperVars, Trouble, TypeOK, Ready,
      HelperInReadyPrefix, Bound, Loading
<1>4. CASE RunFrame
  BY <1>4 DEF RunFrame, ToHelper, Received, TimedOut, lockVars, launcherVars, helperVars,
      counters, TypeOK, Ready, HelperInReadyPrefix, Bound, Loading
<1>5. CASE UiEnds
  BY <1>5 DEF UiEnds, driverVars, helperVars, socketVars, counters, TypeOK, Ready,
      HelperInReadyPrefix, Bound, Loading
<1>6. ASSUME NEW s \in Session, TakeLock(s) PROVE Ready'
  BY <1>6 DEF TakeLock, Goto, driverVars, helperVars, socketVars, counters, TypeOK, Ready,
      HelperInReadyPrefix, Bound, Loading
<1>7. ASSUME NEW s \in Session, GiveUp(s) PROVE Ready'
  BY <1>7 DEF GiveUp, Goto, driverVars, lockVars, helperVars, socketVars, counters, TypeOK,
      Ready, HelperInReadyPrefix, Bound, Loading
<1>8. ASSUME NEW s \in Session, CheckMarker(s) PROVE Ready'
  BY <1>8 DEF CheckMarker, Goto, driverVars, helperVars, socketVars, counters, TypeOK, Ready,
      HelperInReadyPrefix, Bound, Loading
<1>9. ASSUME NEW s \in Session, PrefixMade(s) PROVE Ready'
  BY SMTT(30), <1>9 DEF PrefixMade, Mishap, Goto, driverVars, helperVars, socketVars, counters, Trouble,
      TypeOK, Ready, HelperInReadyPrefix, Bound, Loading, Started, Unstarted, Starting
<1>10. ASSUME NEW s \in Session, StartUi(s) PROVE Ready'
  BY <1>10 DEF StartUi, Goto, driverVars, lockVars, helperVars, socketVars, counters, TypeOK,
      Ready, HelperInReadyPrefix, Bound, Loading
<1>11. ASSUME NEW s \in Session, StartDashboard(s) PROVE Ready'
  BY <1>11 DEF StartDashboard, Goto, driverVars, lockVars, helperVars, socketVars, counters,
      TypeOK, Ready, HelperInReadyPrefix, Bound, Loading
<1>12. ASSUME NEW s \in Session, StartHelper(s) PROVE Ready'
  BY <1>12 DEF StartHelper, ToNative, Goto, driverVars, counters, TypeOK, Ready,
      HelperInReadyPrefix, Bound, Loading, Started, Unstarted, Starting
<1>13. ASSUME NEW s \in Session, LauncherEnds(s) PROVE Ready'
  BY <1>13 DEF LauncherEnds, Goto, Release, driverVars, helperVars, socketVars, counters,
      TypeOK, Ready, HelperInReadyPrefix, Bound, Loading
<1>14. ASSUME NEW s \in Session, RunnerHandsOff(s) PROVE Ready'
  BY <1>14 DEF RunnerHandsOff, Trouble, Goto, Release, driverVars, helperVars, socketVars,
      TypeOK, Ready, HelperInReadyPrefix, Bound, Loading
<1>15. ASSUME NEW s \in Session, LauncherKilled(s) PROVE Ready'
  BY <1>15 DEF LauncherKilled, Mishap, Goto, Release, Alive, driverVars, helperVars,
      socketVars, Trouble, TypeOK, Ready, HelperInReadyPrefix, Bound, Loading
<1>16. ASSUME NEW s \in Session, CompanionEnds(s) PROVE Ready'
  BY <1>16 DEF CompanionEnds, driverVars, lockVars, helperVars, socketVars, counters, TypeOK,
      Ready, HelperInReadyPrefix, Bound, Loading
<1>17. ASSUME NEW s \in Session, Prime(s) PROVE Ready'
  BY <1>17 DEF Prime, Gone, driverVars, launcherVars, counters, Release, TypeOK, Ready,
      HelperInReadyPrefix, Bound, Loading
<1>18. ASSUME NEW s \in Session, ProviderInit(s) PROVE Ready'
  BY <1>18 DEF ProviderInit, ToNative, Mishap, Gone, driverVars, launcherVars, counters,
      Trouble, Release, TypeOK, Ready, HelperInReadyPrefix, Bound, Loading
<1>19. ASSUME NEW s \in Session, HelperLoop(s) PROVE Ready'
  BY <1>19 DEF HelperLoop, ToNative, Gone, driverVars, launcherVars, counters, Release, TypeOK,
      Ready, HelperInReadyPrefix, Bound, Loading
<1>20. ASSUME NEW s \in Session, HelperKilled(s) PROVE Ready'
  BY <1>20 DEF HelperKilled, Mishap, Gone, driverVars, launcherVars, Trouble, Release, TypeOK,
      Ready, HelperInReadyPrefix, Bound, Loading
<1>21. CASE Tick
  BY <1>21 DEF Tick, Age, lockVars, socketVars, counters, TypeOK, Ready, HelperInReadyPrefix,
      Bound, Loading
<1>22. CASE UNCHANGED vars
  BY <1>22 DEF vars, driverVars, lockVars, launcherVars, helperVars, socketVars, counters,
      TypeOK, Ready, HelperInReadyPrefix, Bound, Loading
<1> QED
  BY <1>1, <1>2, <1>3, <1>4, <1>5, <1>6, <1>7, <1>8, <1>9, <1>10, <1>11, <1>12, <1>13, <1>14,
      <1>15, <1>16, <1>17, <1>18, <1>19, <1>20, <1>21, <1>22 DEF Next, LauncherStep, HelperStep
\* A launcher that takes the lock is of a session that has been.
LEMMA SessionsStep ==
  ASSUME TypeOK, Started, Sessions, [Next]_vars
  PROVE  Sessions'
<1> USE LifecycleAssumption DEF Session, NoSession
<1>1. CASE NativeInit
  BY <1>1 DEF NativeInit, ToHelper, helperVars, counters, TypeOK, Sessions
<1>2. CASE Cleanup
  BY <1>2 DEF Cleanup, ToHelper, Mishap, lockVars, launcherVars, helperVars, counters, Trouble,
      TypeOK, Sessions
<1>3. CASE DriverCrash
  BY <1>3 DEF DriverCrash, Mishap, lockVars, launcherVars, helperVars, Trouble, TypeOK,
      Sessions
<1>4. CASE RunFrame
  BY <1>4 DEF RunFrame, ToHelper, Received, TimedOut, lockVars, launcherVars, helperVars,
      counters, TypeOK, Sessions
<1>5. CASE UiEnds
  BY <1>5 DEF UiEnds, driverVars, helperVars, socketVars, counters, TypeOK, Sessions
<1>6. ASSUME NEW s \in Session, TakeLock(s) PROVE Sessions'
  BY <1>6 DEF TakeLock, Goto, driverVars, helperVars, socketVars, counters, TypeOK, Sessions,
      Started
<1>7. ASSUME NEW s \in Session, GiveUp(s) PROVE Sessions'
  BY <1>7 DEF GiveUp, Goto, driverVars, lockVars, helperVars, socketVars, counters, TypeOK,
      Sessions
<1>8. ASSUME NEW s \in Session, CheckMarker(s) PROVE Sessions'
  BY <1>8 DEF CheckMarker, Goto, driverVars, helperVars, socketVars, counters, TypeOK, Sessions
<1>9. ASSUME NEW s \in Session, PrefixMade(s) PROVE Sessions'
  BY <1>9 DEF PrefixMade, Mishap, Goto, driverVars, helperVars, socketVars, counters, Trouble,
      TypeOK, Sessions
<1>10. ASSUME NEW s \in Session, StartUi(s) PROVE Sessions'
  BY <1>10 DEF StartUi, Goto, driverVars, lockVars, helperVars, socketVars, counters, TypeOK,
      Sessions
<1>11. ASSUME NEW s \in Session, StartDashboard(s) PROVE Sessions'
  BY <1>11 DEF StartDashboard, Goto, driverVars, lockVars, helperVars, socketVars, counters,
      TypeOK, Sessions
<1>12. ASSUME NEW s \in Session, StartHelper(s) PROVE Sessions'
  BY <1>12 DEF StartHelper, ToNative, Goto, driverVars, counters, TypeOK, Sessions
<1>13. ASSUME NEW s \in Session, LauncherEnds(s) PROVE Sessions'
  BY <1>13 DEF LauncherEnds, Goto, Release, driverVars, helperVars, socketVars, counters,
      TypeOK, Sessions
<1>14. ASSUME NEW s \in Session, RunnerHandsOff(s) PROVE Sessions'
  BY <1>14 DEF RunnerHandsOff, Trouble, Goto, Release, driverVars, helperVars, socketVars,
      TypeOK, Sessions
<1>15. ASSUME NEW s \in Session, LauncherKilled(s) PROVE Sessions'
  BY <1>15 DEF LauncherKilled, Mishap, Goto, Release, Alive, driverVars, helperVars,
      socketVars, Trouble, TypeOK, Sessions
<1>16. ASSUME NEW s \in Session, CompanionEnds(s) PROVE Sessions'
  BY <1>16 DEF CompanionEnds, driverVars, lockVars, helperVars, socketVars, counters, TypeOK,
      Sessions
<1>17. ASSUME NEW s \in Session, Prime(s) PROVE Sessions'
  BY <1>17 DEF Prime, Gone, driverVars, launcherVars, counters, Release, TypeOK, Sessions
<1>18. ASSUME NEW s \in Session, ProviderInit(s) PROVE Sessions'
  BY <1>18 DEF ProviderInit, ToNative, Mishap, Gone, driverVars, launcherVars, counters,
      Trouble, Release, TypeOK, Sessions
<1>19. ASSUME NEW s \in Session, HelperLoop(s) PROVE Sessions'
  BY <1>19 DEF HelperLoop, ToNative, Gone, driverVars, launcherVars, counters, Release, TypeOK,
      Sessions
<1>20. ASSUME NEW s \in Session, HelperKilled(s) PROVE Sessions'
  BY <1>20 DEF HelperKilled, Mishap, Gone, driverVars, launcherVars, Trouble, Release, TypeOK,
      Sessions
<1>21. CASE Tick
  BY <1>21 DEF Tick, Age, lockVars, socketVars, counters, TypeOK, Sessions
<1>22. CASE UNCHANGED vars
  BY <1>22 DEF vars, driverVars, lockVars, launcherVars, helperVars, socketVars, counters,
      TypeOK, Sessions
<1> QED
  BY <1>1, <1>2, <1>3, <1>4, <1>5, <1>6, <1>7, <1>8, <1>9, <1>10, <1>11, <1>12, <1>13, <1>14,
      <1>15, <1>16, <1>17, <1>18, <1>19, <1>20, <1>21, <1>22 DEF Next, LauncherStep, HelperStep
\* Between two ticks the loop comes round, and the next frame receives what it has sent.
LEMMA HeardStep ==
  ASSUME TypeOK, Timers, Started, Sessions, Heard, [Next]_vars
  PROVE  Heard'
<1> USE LifecycleAssumption DEF Session, NoSession
<1>1. CASE NativeInit
  BY <1>1 DEF NativeInit, ToHelper, helperVars, counters, TypeOK, Sessions, Heard, Never,
      Started
<1>2. CASE Cleanup
  BY <1>2 DEF Cleanup, ToHelper, Mishap, lockVars, launcherVars, helperVars, counters, Trouble,
      TypeOK, Sessions, Heard, Never
<1>3. CASE DriverCrash
  BY <1>3 DEF DriverCrash, Mishap, lockVars, launcherVars, helperVars, Trouble, TypeOK,
      Sessions, Heard, Never
<1>4. CASE RunFrame
  BY <1>4 DEF RunFrame, ToHelper, Received, TimedOut, lockVars, launcherVars, helperVars,
      counters, TypeOK, Sessions, Heard, Never
<1>5. CASE UiEnds
  BY <1>5 DEF UiEnds, driverVars, helperVars, socketVars, counters, TypeOK, Sessions, Heard,
      Never
<1>6. ASSUME NEW s \in Session, TakeLock(s) PROVE Heard'
  BY <1>6 DEF TakeLock, Goto, driverVars, helperVars, socketVars, counters, TypeOK, Sessions,
      Heard, Never
<1>7. ASSUME NEW s \in Session, GiveUp(s) PROVE Heard'
  BY <1>7 DEF GiveUp, Goto, driverVars, lockVars, helperVars, socketVars, counters, TypeOK,
      Sessions, Heard, Never
<1>8. ASSUME NEW s \in Session, CheckMarker(s) PROVE Heard'
  BY <1>8 DEF CheckMarker, Goto, driverVars, helperVars, socketVars, counters, TypeOK,
      Sessions, Heard, Never
<1>9. ASSUME NEW s \in Session, PrefixMade(s) PROVE Heard'
  BY <1>9 DEF PrefixMade, Mishap, Goto, driverVars, helperVars, socketVars, counters, Trouble,
      TypeOK, Sessions, Heard, Never
<1>10. ASSUME NEW s \in Session, StartUi(s) PROVE Heard'
  BY <1>10 DEF StartUi, Goto, driverVars, lockVars, helperVars, socketVars, counters, TypeOK,
      Sessions, Heard, Never
<1>11. ASSUME NEW s \in Session, StartDashboard(s) PROVE Heard'
  BY <1>11 DEF StartDashboard, Goto, driverVars, lockVars, helperVars, socketVars, counters,
      TypeOK, Sessions, Heard, Never
<1>12. ASSUME NEW s \in Session, StartHelper(s) PROVE Heard'
  BY <1>12 DEF StartHelper, ToNative, Goto, driverVars, counters, TypeOK, Sessions, Heard,
      Never, Started, Unstarted, Starting
<1>13. ASSUME NEW s \in Session, LauncherEnds(s) PROVE Heard'
  BY <1>13 DEF LauncherEnds, Goto, Release, driverVars, helperVars, socketVars, counters,
      TypeOK, Sessions, Heard, Never
<1>14. ASSUME NEW s \in Session, RunnerHandsOff(s) PROVE Heard'
  BY <1>14 DEF RunnerHandsOff, Trouble, Goto, Release, driverVars, helperVars, socketVars,
      TypeOK, Sessions, Heard, Never
<1>15. ASSUME NEW s \in Session, LauncherKilled(s) PROVE Heard'
  BY <1>15 DEF LauncherKilled, Mishap, Goto, Release, Alive, driverVars, helperVars,
      socketVars, Trouble, TypeOK, Sessions, Heard, Never
<1>16. ASSUME NEW s \in Session, CompanionEnds(s) PROVE Heard'
  BY <1>16 DEF CompanionEnds, driverVars, lockVars, helperVars, socketVars, counters, TypeOK,
      Sessions, Heard, Never
<1>17. ASSUME NEW s \in Session, Prime(s) PROVE Heard'
  BY <1>17 DEF Prime, Gone, driverVars, launcherVars, counters, Release, TypeOK, Sessions,
      Heard, Never, Timers
<1>18. ASSUME NEW s \in Session, ProviderInit(s) PROVE Heard'
  BY <1>18 DEF ProviderInit, ToNative, Mishap, Gone, driverVars, launcherVars, counters,
      Trouble, Release, TypeOK, Sessions, Heard, Never, Timers
<1>19. ASSUME NEW s \in Session, HelperLoop(s) PROVE Heard'
  BY <1>19 DEF HelperLoop, ToNative, Gone, driverVars, launcherVars, counters, Release, TypeOK,
      Sessions, Heard, Never, Own
<1>20. ASSUME NEW s \in Session, HelperKilled(s) PROVE Heard'
  BY <1>20 DEF HelperKilled, Mishap, Gone, driverVars, launcherVars, Trouble, Release, TypeOK,
      Sessions, Heard, Never
<1>21. CASE Tick
  BY <1>21 DEF Tick, Age, lockVars, socketVars, counters, TypeOK, Sessions, Heard, Never
<1>22. CASE UNCHANGED vars
  BY <1>22 DEF vars, driverVars, lockVars, launcherVars, helperVars, socketVars, counters,
      TypeOK, Sessions, Heard, Never
<1> QED
  BY <1>1, <1>2, <1>3, <1>4, <1>5, <1>6, <1>7, <1>8, <1>9, <1>10, <1>11, <1>12, <1>13, <1>14,
      <1>15, <1>16, <1>17, <1>18, <1>19, <1>20, <1>21, <1>22 DEF Next, LauncherStep, HelperStep

-----------------------------------------------------------------------------
(* The patience of launchers.                                              *)

\* The present session's launcher waits for a lock that has not changed hands.
Waits == session \in Session /\ launcher[session] = "waiting" /\ ~ taken /\ holders # {}

\* The lock is another session's.
LEMMA LockOfAnother ==
  ASSUME TypeOK, Held, Sessions, Waits
  PROVE  locked \in Session /\ locked # session
<1>1. locked \in Session
  BY DEF Held, Waits
<1>2. locked < session
  BY DEF Waits, Sessions, Session, NoSession
<1> QED
  BY <1>1, <1>2, LifecycleAssumption DEF Session, Waits

\* Whose lock it is changes no step but the taking of it.
LEMMA GonePatience ==
  ASSUME TypeOK, Started, Held, Sessions, Patience,
         NEW s \in Session, helper[s] # "none", Gone(s),
         UNCHANGED <<session, launcher, waited, locked, taken, stalled>>
  PROVE  Patience'
<1> SUFFICES ASSUME Waits'
             PROVE  /\ Coming(locked)' => waited[session] <= stalled
                    /\ helper'[locked] = "loop" => waited[session] <= stalled + 1 + timer'[locked]
                    /\ Own(locked, inbox)' = {}
                    /\ waited[session] <= stalled + 1 + NativeTimeout
                    /\ locked \in Session
  BY DEF Patience, Waits
<1>1. Waits
  BY DEF Waits, Gone, Release
<1>2. locked \in Session /\ Own(locked, inbox)' = {}
  BY <1>1, LockOfAnother DEF Gone, Own
<1>3. waited[session] <= stalled + 1 + NativeTimeout
  BY <1>1 DEF Patience, Waits
<1>4. CASE locked = s
  <2>1. helper'[s] = "gone"
    BY DEF Gone, TypeOK
  <2>2. ~ Coming(s)'
    BY <1>4, <2>1 DEF Coming, Loading, Started, Unstarted
  <2> QED
    BY <1>2, <1>3, <1>4, <2>1, <2>2
<1>5. CASE locked # s
  <2>1. helper'[locked] = helper[locked] /\ timer'[locked] = timer[locked] /\ holders' = holders
    BY <1>2, <1>5 DEF Gone, Release, TypeOK
  <2>2. Coming(locked)' => Coming(locked)
    BY <2>1 DEF Coming
  <2> QED
    BY <1>1, <1>2, <1>3, <2>1, <2>2 DEF Patience, Waits
<1> QED
  BY <1>4, <1>5

LEMMA PatienceStep ==
  ASSUME TypeOK, Timers, Started, Held, Sessions, Patience, [Next]_vars
  PROVE  Patience'
<1> USE LifecycleAssumption DEF Session, NoSession
<1>1. CASE NativeInit
  <2>1. waited'[session'] = 0 /\ session' \in Session /\ stalled' = 0
    BY <1>1 DEF NativeInit, Started, TypeOK
  <2>2. holders # {} => locked \in Session
    BY DEF Held
  <2>3. timer' = timer /\ timer \in [Session -> Nat] /\ UNCHANGED <<holders, locked>>
    BY <1>1 DEF NativeInit, helperVars, TypeOK
  <2> QED
    BY <2>1, <2>2, <2>3 DEF Patience
<1>2. CASE Cleanup
  <2> SUFFICES ASSUME Waits PROVE Own(locked, inbox)' = Own(locked, inbox)
    BY <1>2 DEF Cleanup, Patience, Waits, Coming, lockVars, launcherVars, helperVars
  <2>1. locked # session
    BY LockOfAnother
  <2> QED
    BY <1>2, <2>1 DEF Cleanup, ToHelper, Shutdown, Own, lockVars
<1>3. CASE DriverCrash
  BY <1>3 DEF DriverCrash, Mishap, lockVars, launcherVars, helperVars, Trouble, TypeOK,
      Patience, Coming, Held, Holding, Starting, Started, Unstarted
<1>4. CASE RunFrame
  <2> SUFFICES ASSUME Waits PROVE Own(locked, inbox)' = Own(locked, inbox)
    BY <1>4 DEF RunFrame, Patience, Waits, Coming, lockVars, launcherVars, helperVars
  <2>1. locked # session
    BY LockOfAnother
  <2> QED
    BY <1>4, <2>1 DEF RunFrame, ToHelper, Packet, Own, lockVars
<1>5. CASE UiEnds
  BY <1>5 DEF UiEnds, driverVars, helperVars, socketVars, counters, TypeOK, Patience, Coming,
      Held, Holding, Starting, Started, Unstarted
<1>6. ASSUME NEW s \in Session, TakeLock(s) PROVE Patience'
  BY <1>6 DEF TakeLock, Goto, driverVars, helperVars, socketVars, counters, TypeOK, Patience,
      Coming, Held, Holding, Starting, Started, Unstarted
<1>7. ASSUME NEW s \in Session, GiveUp(s) PROVE Patience'
  BY <1>7 DEF GiveUp, Goto, driverVars, lockVars, helperVars, socketVars, counters, TypeOK,
      Patience, Coming, Held, Holding, Starting, Started, Unstarted
<1>8. ASSUME NEW s \in Session, CheckMarker(s) PROVE Patience'
  BY SMTT(30), <1>8 DEF CheckMarker, Goto, driverVars, helperVars, socketVars, counters, TypeOK,
      Patience, Coming, Held, Holding, Starting, Started, Unstarted
<1>9. ASSUME NEW s \in Session, PrefixMade(s) PROVE Patience'
  <2>1. UNCHANGED <<session, waited, locked, taken, stalled, helper, timer, looped, inbox>>
    BY <1>9 DEF PrefixMade, driverVars, helperVars, socketVars
  <2>2. CASE holders' = {}
    BY <2>2 DEF Patience
  <2>3. CASE launcher[s] = "prefix" /\ launcher' = [launcher EXCEPT ![s] = "ui"]
             /\ holders' = holders \ {"runner"}
    <3>1. locked = s /\ Coming(s)
      BY <1>9, <2>3 DEF PrefixMade, Coming, Starting
    <3>2. launcher'[session] = "waiting" /\ session \in Session => launcher[session] = "waiting"
      BY <2>3 DEF TypeOK
    <3>3. helper[s] # "loop" /\ Own(locked, inbox)' = Own(locked, inbox)
      BY <1>9, <2>1 DEF PrefixMade, Own
    <3> QED
      BY <2>1, <2>3, <3>1, <3>2, <3>3 DEF Patience
  <2> QED
    BY <1>9, <2>2, <2>3 DEF PrefixMade, Goto
<1>10. ASSUME NEW s \in Session, StartUi(s) PROVE Patience'
  BY <1>10 DEF StartUi, Goto, driverVars, lockVars, helperVars, socketVars, counters, TypeOK,
      Patience, Coming, Held, Holding, Starting, Started, Unstarted
<1>11. ASSUME NEW s \in Session, StartDashboard(s) PROVE Patience'
  BY <1>11 DEF StartDashboard, Goto, driverVars, lockVars, helperVars, socketVars, counters,
      TypeOK, Patience, Coming, Held, Holding, Starting, Started, Unstarted
<1>12. ASSUME NEW s \in Session, StartHelper(s) PROVE Patience'
  BY <1>12 DEF StartHelper, ToNative, Goto, driverVars, counters, TypeOK, Patience, Coming,
      Held, Holding, Starting, Started, Unstarted
<1>13. ASSUME NEW s \in Session, LauncherEnds(s) PROVE Patience'
  BY <1>13 DEF LauncherEnds, Goto, Release, driverVars, helperVars, socketVars, counters,
      TypeOK, Patience, Coming, Held, Holding, Starting, Started, Unstarted
<1>14. ASSUME NEW s \in Session, RunnerHandsOff(s) PROVE Patience'
  BY <1>14 DEF RunnerHandsOff, Trouble, Goto, Release, driverVars, helperVars, socketVars,
      TypeOK, Patience, Coming, Held, Holding, Starting, Started, Unstarted
<1>15. ASSUME NEW s \in Session, LauncherKilled(s) PROVE Patience'
  BY <1>15 DEF LauncherKilled, Mishap, Goto, Release, Alive, driverVars, helperVars,
      socketVars, Trouble, TypeOK, Patience, Coming, Held, Holding, Starting, Started, Unstarted
<1>16. ASSUME NEW s \in Session, CompanionEnds(s) PROVE Patience'
  BY <1>16 DEF CompanionEnds, driverVars, lockVars, helperVars, socketVars, counters, TypeOK,
      Patience, Coming, Held, Holding, Starting, Started, Unstarted
<1>17. ASSUME NEW s \in Session, Prime(s) PROVE Patience'
  <2>1. UNCHANGED <<session, launcher, waited, locked, taken, stalled>>
    BY <1>17 DEF Prime, driverVars, launcherVars
  <2>2. CASE Gone(s)
    BY <1>17, <2>1, <2>2, GonePatience DEF Prime
  <2>3. CASE ~ Gone(s)
    <3>1. UNCHANGED <<timer, looped, holders>> /\ inbox' = {} /\ helper' = [helper EXCEPT ![s] = "loading"]
      BY <1>17, <2>3 DEF Prime
    <3>2. \A r \in Session : Coming(r)' => Coming(r)
      BY <1>17, <2>1, <3>1 DEF Prime, Coming, Loading, TypeOK
    <3>3. Own(locked, inbox)' = {} /\ (helper'[locked] = "loop" => helper[locked] = "loop")
      BY <2>1, <3>1 DEF Own, TypeOK
    <3> QED
      BY <2>1, <3>1, <3>2, <3>3 DEF Patience
  <2> QED
    BY <2>2, <2>3
<1>18. ASSUME NEW s \in Session, ProviderInit(s) PROVE Patience'
  <2>1. UNCHANGED <<session, launcher, waited, locked, taken, stalled>>
    BY <1>18 DEF ProviderInit, driverVars, launcherVars
  <2>2. CASE Gone(s)
    BY <1>18, <2>1, <2>2, GonePatience DEF ProviderInit
  <2>3. CASE ~ Gone(s)
    <3>1. /\ UNCHANGED <<looped, holders, inbox>>
          /\ timer' = [timer EXCEPT ![s] = 0] /\ helper' = [helper EXCEPT ![s] = "loop"]
      BY <1>18, <2>3 DEF ProviderInit
    <3> SUFFICES ASSUME Waits PROVE Patience'
      BY <2>1, <3>1 DEF Patience, Waits
    <3>2. locked \in Session /\ waited[session] \in Nat
      <4>1. waited \in [Session -> 0..LockWait] /\ session \in Session
        BY DEF TypeOK, Waits
      <4> QED
        BY <4>1, LockOfAnother
    <3>3. CASE locked = s
      <4>1. Coming(s) /\ s \notin looped
        BY <1>18 DEF ProviderInit, Coming, Loading, Timers
      <4>2. waited[session] <= stalled /\ stalled \in Nat
        BY <3>3, <4>1 DEF Patience, Waits, TypeOK
      <4>3. helper'[s] = "loop" /\ timer'[s] = 0 /\ waited[session] <= stalled + 1
        BY <3>1, <4>1, <4>2, <3>2 DEF TypeOK
      <4>4. ~ Coming(s)'
        BY <1>18, <2>1, <4>3 DEF ProviderInit, Coming, Loading, Started, Unstarted
      <4> QED
        BY <2>1, <3>1, <3>2, <3>3, <4>1, <4>2, <4>3, <4>4 DEF Patience
    <3>4. CASE locked # s
      <4>1. helper'[locked] = helper[locked] /\ timer'[locked] = timer[locked]
        BY <3>1, <3>2, <3>4 DEF TypeOK
      <4>2. Coming(locked)' => Coming(locked)
        BY <2>1, <3>1, <4>1 DEF Coming
      <4>3. Own(locked, inbox)' = Own(locked, inbox)
        BY <2>1, <3>1 DEF Own
      <4> QED
        BY <2>1, <3>1, <4>1, <4>2, <4>3 DEF Patience, Waits
    <3> QED
      BY <3>3, <3>4
  <2> QED
    BY <2>2, <2>3
<1>19. ASSUME NEW s \in Session, HelperLoop(s) PROVE Patience'
  <2>1. UNCHANGED <<session, launcher, waited, locked, taken, stalled>>
    BY <1>19 DEF HelperLoop, driverVars, launcherVars
  <2>2. CASE Gone(s)
    BY <1>19, <2>1, <2>2, GonePatience DEF HelperLoop
  <2>3. CASE ~ Gone(s)
    <3>1. /\ timer' = [timer EXCEPT ![s] = IF Own(s, inbox) = {} THEN timer[s] ELSE 0]
          /\ inbox' = {} /\ UNCHANGED <<helper, holders>>
      BY <1>19, <2>3 DEF HelperLoop
    <3> SUFFICES ASSUME Waits PROVE Patience'
      BY <2>1, <3>1 DEF Patience, Waits
    <3>2. locked \in Session /\ waited[session] \in Nat /\ Own(locked, inbox)' = {}
      <4>1. waited \in [Session -> 0..LockWait] /\ session \in Session
        BY DEF TypeOK, Waits
      <4> QED
        BY <3>1, <4>1, LockOfAnother DEF Own
    <3>3. Coming(locked)' <=> Coming(locked)
      BY <2>1, <3>1 DEF Coming
    <3>4. CASE locked = s
      <4>1. ~ Coming(s)
        BY <1>19 DEF HelperLoop, Coming, Loading, Started, Unstarted
      <4>2. waited[session] <= stalled + 1 + timer'[s]
        BY SMTT(30), <1>19, <3>1, <3>2, <3>4 DEF HelperLoop, Patience, Waits, TypeOK
      <4> QED
        BY <2>1, <3>1, <3>2, <3>3, <3>4, <4>1, <4>2 DEF Patience, Waits
    <3>5. CASE locked # s
      <4>1. timer'[locked] = timer[locked]
        BY <3>1, <3>2, <3>5 DEF TypeOK
      <4> QED
        BY <2>1, <3>1, <3>2, <3>3, <4>1 DEF Patience, Waits
    <3> QED
      BY <3>4, <3>5
  <2> QED
    BY <2>2, <2>3
<1>20. ASSUME NEW s \in Session, HelperKilled(s) PROVE Patience'
  BY <1>20, GonePatience DEF HelperKilled, driverVars, launcherVars, Bound, Loading
<1>21. CASE Tick
  <2>1. /\ UNCHANGED <<session, launcher, locked, taken, holders, helper, inbox>> /\ looped' = {}
        /\ \A r \in Session : helper[r] = "loop" => r \in looped
        /\ \A r \in Session : ~ (launcher[r] = "running" /\ helper[r] = "gone")
    BY <1>21 DEF Tick, lockVars, socketVars
  <2> DEFINE r == locked
             w == waited[session]
  <2> SUFFICES ASSUME Waits
               PROVE  /\ r \in Session
                      /\ Coming(r)' => w' <= stalled'
                      /\ helper[r] = "loop" => w' <= stalled' + 1 + timer'[r]
                      /\ helper[r] = "loop" /\ Own(r, inbox)' # {} => w' <= stalled' + 1
                      /\ w' <= stalled' + 1 + NativeTimeout
    BY <2>1 DEF Patience, Waits
  <2>2. r \in Session /\ w \in Nat /\ timer[r] \in Nat /\ stalled \in Nat
    <3>1. r \in Session /\ session \in Session
      BY LockOfAnother DEF Waits
    <3> QED
      BY <3>1 DEF TypeOK
  <2>3. w' = w + 1
    BY <1>21, <2>1 DEF Tick, Waits
  <2>4. /\ helper[r] = "loop" => timer'[r] = timer[r] + 1
        /\ Coming(r) => stalled' = stalled + 1
        /\ stalled' >= stalled /\ stalled' \in Nat
    BY <1>21, <2>2 DEF Tick, HolderStarts, Waits
  <2>5. Coming(r)' <=> Coming(r)
    BY <2>1 DEF Coming
  <2>6. /\ Coming(r) => w <= stalled
        /\ helper[r] = "loop" => w <= stalled + 1 + timer[r]
        /\ helper[r] = "loop" /\ Own(r, inbox) # {} => w = 0 \/ (w <= stalled + 1 /\ r \notin looped)
    BY DEF Patience, Waits
  <2>7. helper[r] = "loop" => r \in looped /\ timer[r] < NativeTimeout
    BY <2>1, <2>2 DEF Timers
  <2>8. Coming(r) \/ helper[r] = "loop"
    <3>1. CASE "launcher" \in holders
      <4>1. launcher[r] \in Starting \/ (launcher[r] = "running" /\ helper[r] # "none")
        BY <2>2, <3>1 DEF Held, Holding, Started
      <4> QED
        BY <2>1, <2>2, <4>1 DEF Coming, Loading, TypeOK
    <3>2. CASE "runner" \in holders
      <4>1. helper[r] # "gone"
        BY <2>2, <3>2 DEF Held
      <4> QED
        BY <2>2, <3>2, <4>1 DEF Coming, Loading, TypeOK
    <3> QED
      BY <3>1, <3>2 DEF Held, Waits
  <2>9. w + 1 <= stalled' + 1 + NativeTimeout
    <3>1. CASE Coming(r)
      BY <2>2, <2>4, <2>6, <3>1
    <3>2. CASE helper[r] = "loop"
      BY <2>2, <2>4, <2>6, <2>7, <3>2
    <3> QED
      BY <2>8, <3>1, <3>2
  <2>10. Own(r, inbox)' = Own(r, inbox)
    BY <2>1 DEF Own
  <2>11. Coming(r)' => w' <= stalled'
    BY <2>2, <2>3, <2>4, <2>5, <2>6
  <2>12. helper[r] = "loop" => w' <= stalled' + 1 + timer'[r]
    BY <2>2, <2>3, <2>4, <2>6
  <2>13. helper[r] = "loop" /\ Own(r, inbox)' # {} => w' <= stalled' + 1
    BY <2>2, <2>3, <2>4, <2>6, <2>7, <2>10
  <2> QED
    BY <2>2, <2>3, <2>9, <2>11, <2>12, <2>13
<1>22. CASE UNCHANGED vars
  BY <1>22 DEF vars, driverVars, lockVars, launcherVars, helperVars, socketVars, counters,
      TypeOK, Patience, Coming, Held, Holding, Starting, Started, Unstarted
<1> QED
  BY <1>1, <1>2, <1>3, <1>4, <1>5, <1>6, <1>7, <1>8, <1>9, <1>10, <1>11, <1>12, <1>13, <1>14,
      <1>15, <1>16, <1>17, <1>18, <1>19, <1>20, <1>21, <1>22 DEF Next, LauncherStep, HelperStep

-----------------------------------------------------------------------------
(* The inductive invariant and what follows from it.                       *)

LEMMA TypeInit == Init => TypeOK
<1> SUFFICES ASSUME Init PROVE TypeOK
  OBVIOUS
<1>1. 0 \in 0..LockWait /\ 0 \in 0..NativeTimeout /\ 0 \in 0..MaxMishaps /\ Never \in 0..Never
      /\ 0 \in Nat
  BY LifecycleAssumption DEF Never
<1>2. session \in Session \cup {NoSession} /\ orphaned \in 0..session /\ locked \in Session \cup {NoSession}
  BY DEF Init, NoSession
<1>3. /\ launcher \in [Session -> LauncherPhase] /\ waited \in [Session -> 0..LockWait]
      /\ dashboard \in [Session -> {"none", "live", "gone"}]
      /\ helper \in [Session -> {"none", "priming", "loading", "loop", "gone"}]
      /\ timer \in [Session -> 0..NativeTimeout]
  BY <1>1 DEF Init, LauncherPhase
<1>4. marker \in BOOLEAN /\ prefix \in {"absent", "partial", "ready"}
  BY DEF Init
<1> QED
  BY <1>1, <1>2, <1>3, <1>4 DEF Init, TypeOK

LEMMA LInvInit == Init => LInv
<1> SUFFICES ASSUME Init PROVE LInv
  OBVIOUS
<1> USE LifecycleAssumption
<1>1. TypeOK
  BY TypeInit
<1>2. Timers /\ Started /\ Held
  BY <1>1 DEF Init, TypeOK, Timers, Started, Held, Holding, Unstarted, Undisplayed, Starting, Bound, Loading
<1>3. Ready
  BY DEF Init, Ready, HelperInReadyPrefix, Bound, Loading
<1>4. Sessions /\ Heard /\ Patience
  BY DEF Init, Sessions, Heard, Patience, NoSession
<1> QED
  BY <1>1, <1>2, <1>3, <1>4 DEF LInv

LEMMA LInvStep == LInv /\ [Next]_vars => LInv'
<1> SUFFICES ASSUME LInv, [Next]_vars PROVE LInv'
  OBVIOUS
<1> QED
  BY TypeStep, TimersStep, StartedStep, HeldStep, ReadyStep, SessionsStep, HeardStep, PatienceStep
     DEF LInv

\* The parts hold together in every reachable state.
THEOREM LInvHolds == Spec => []LInv
<1> QED
  BY LInvInit, LInvStep, PTL DEF Spec

\* Every reachable state is well typed.
THEOREM Types == Spec => []TypeOK
<1>1. LInv => TypeOK
  BY DEF LInv
<1> QED
  BY <1>1, LInvHolds, PTL

\* bridge.lock, inherited by the runner, keeps a second helper from binding the port while the
\* first has it, whichever process is killed, as long as no runner has handed its helper off.
THEOREM Exclusive == Spec => []HelpersExclusive
<1>1. LInv => HelpersExclusive
  <2> SUFFICES ASSUME LInv, handed = {} PROVE Cardinality(Bound) <= 1
    BY DEF HelpersExclusive
  <2>1. Bound \subseteq {locked}
    BY DEF LInv, Held, Bound
  <2>2. IsFiniteSet({locked}) /\ Cardinality({locked}) = 1
    BY FS_Singleton
  <2>3. IsFiniteSet(Bound) /\ Cardinality(Bound) <= Cardinality({locked})
    BY <2>1, <2>2, FS_Subset
  <2> QED
    BY <2>2, <2>3
<1> QED
  BY <1>1, LInvHolds, PTL

\* The helper is only started in a prefix whose initialization has ended well, even when the
\* launcher that initialized it was killed in between.
THEOREM InReadyPrefix == Spec => []HelperInReadyPrefix
<1>1. LInv => HelperInReadyPrefix
  BY DEF LInv, Ready
<1> QED
  BY <1>1, LInvHolds, PTL

\* As long as the vrserver that spawned its launcher is up, kill(pid, 0) finds the launcher,
\* the one whose runner has handed its helper off too, so nothing takes the companion away.
THEOREM CompanionStays == Spec => CompanionOutlivesHandoff
<1>1. ASSUME LInv, [Next]_vars, NEW s \in Session, up, session = s, dashboard[s] = "live"
      PROVE  dashboard'[s] = "live"
  <2>1. orphaned < s /\ dashboard \in [Session -> {"none", "live", "gone"}]
    BY <1>1 DEF LInv, Sessions, TypeOK
  <2>2. ASSUME NEW r \in Session, StartDashboard(r) PROVE dashboard'[s] = "live"
    <3>1. dashboard[r] = "none"
      BY <1>1, <2>2 DEF StartDashboard, LInv, Started, Undisplayed
    <3> QED
      BY <1>1, <2>1, <2>2, <3>1 DEF StartDashboard
  <2>3. ASSUME NEW r \in Session, CompanionEnds(r) PROVE dashboard'[s] = "live"
    <3>1. ParentIsAlive(s)
      BY <2>1, <1>1 DEF ParentIsAlive, LInv, TypeOK, Session, NoSession
    <3>2. r # s
      BY <1>1, <2>3, <3>1 DEF CompanionEnds
    <3> QED
      BY <1>1, <2>1, <2>3, <3>2 DEF CompanionEnds
  <2>4. CASE dashboard' = dashboard
    BY <1>1, <2>4
  <2>5. \/ dashboard' = dashboard
        \/ \E r \in Session : StartDashboard(r) \/ CompanionEnds(r)
    BY <1>1
       DEF Next, LauncherStep, HelperStep, NativeInit, Cleanup, DriverCrash, RunFrame, UiEnds, TakeLock,
           GiveUp, CheckMarker, PrefixMade, StartUi, StartHelper, LauncherEnds, RunnerHandsOff,
           LauncherKilled, Prime, ProviderInit, HelperLoop, HelperKilled, Tick, vars, launcherVars
  <2> QED
    BY <2>2, <2>3, <2>4, <2>5
<1>2. LInv /\ [Next]_vars =>
        [\A s \in Session :
           /\ up /\ session = s /\ dashboard[s] = "live"
           /\ Alive(s) \/ (s \in handed /\ s \in Bound)
           => dashboard'[s] = "live"]_vars
  BY <1>1
<1> QED
  BY <1>2, LInvHolds, PTL DEF Spec, CompanionOutlivesHandoff

\* A helper in its loop is heard between any two ticks, so CheckHelperTimeout, which waits for
\* HelperTimeout of them, never takes it for dead.
THEOREM LiveHelperKept == Spec => LiveHelperNotTimedOut
<1>1. ASSUME LInv, [Next]_vars, up, up', online, ~ online', helper[session] = "loop"
      PROVE  FALSE
  <2>1. RunFrame
    BY <1>1
       DEF Next, LauncherStep, HelperStep, NativeInit, Cleanup, DriverCrash, UiEnds, TakeLock,
           GiveUp, CheckMarker, PrefixMade, StartUi, StartDashboard, StartHelper, LauncherEnds,
           RunnerHandsOff, LauncherKilled, CompanionEnds, Prime, ProviderInit, HelperLoop,
           HelperKilled, Tick, vars, driverVars
  <2>2. Received.online /\ Received.silence \in {0, 1, Never}
    BY <1>1 DEF Received, LInv, Heard
  <2>3. ~ TimedOut(Received)
    BY <2>2, LifecycleAssumption DEF TimedOut, Never
  <2> QED
    BY <1>1, <2>1, <2>2, <2>3 DEF RunFrame
<1>2. LInv /\ [Next]_vars => [up /\ up' /\ online /\ ~ online' => helper[session] # "loop"]_vars
  BY <1>1
<1> QED
  BY <1>2, LInvHolds, PTL DEF Spec, LiveHelperNotTimedOut

\* Whatever the holder of the lock needs to start, once it has started it gives the lock back
\* within NativeTimeout and a tick when its driver is gone; so a launcher that gives up on it has
\* spent the rest of its patience on the start.
THEOREM PatienceSuffices == Spec => NoVainWait
<1>1. ASSUME LInv, NEW s \in Session, session = s, launcher[s] = "waiting", GiveUp(s)
      PROVE  taken \/ stalled >= LockWait - (NativeTimeout + 1)
  <2>1. waited[session] = LockWait /\ holders # {}
    BY <1>1 DEF GiveUp
  <2>2. ~ taken => waited[session] <= stalled + 1 + NativeTimeout
    BY <1>1, <2>1 DEF LInv, Patience
  <2>3. stalled \in Nat
    BY <1>1 DEF LInv, TypeOK
  <2> QED
    BY <2>1, <2>2, <2>3, LifecycleAssumption
<1>2. LInv /\ [Next]_vars =>
        [\A s \in Session :
           session = s /\ launcher[s] = "waiting" /\ GiveUp(s) =>
             taken \/ stalled >= LockWait - (NativeTimeout + 1)]_vars
  BY <1>1
<1> QED
  BY <1>2, LInvHolds, PTL DEF Spec, NoVainWait

=============================================================================
