-------------------------- MODULE BridgeLifecycle --------------------------
(***************************************************************************)
(* Who starts and ends whom: the native driver (native/driver_main.cpp)    *)
(* spawns a launcher (scripts/standable-bridge-launcher.sh) for each Init, *)
(* the launcher waits for bridge.lock, prepares the Windows prefix, starts *)
(* the original UI, the dashboard companion and the helper                 *)
(* (windows/bridge_host_main.cpp), and driver and helper give each other   *)
(* up after some silence.                                                  *)
(*                                                                         *)
(* Time passes in ticks; a tick waits for what the code does without       *)
(* delay, and every loop comes round at least once in it.  What the        *)
(* datagrams carry is TrackerRelay and PhysicalMirror; what the companion  *)
(* does is DashboardOverlay.                                               *)
(***************************************************************************)
EXTENDS Naturals, FiniteSets

CONSTANTS
  MaxSessions,     \* bound: calls of Init
  HelperTimeout,   \* silence after which the driver gives the helper up
  NativeTimeout,   \* silence after which the helper gives the driver up
  LockWait,        \* patience of a launcher
  MaxMishaps       \* bound: processes killed, steps failed, datagrams lost, hand-offs

Session == 1..MaxSessions
NoSession == 0

ASSUME LifecycleAssumption ==
  /\ MaxSessions \in Nat \ {0}
  /\ HelperTimeout \in Nat \ {0, 1}
  /\ NativeTimeout \in Nat \ {0, 1}
  /\ LockWait \in Nat /\ LockWait > NativeTimeout + 1
  /\ MaxMishaps \in Nat

VARIABLES
  \* native driver
  session,         \* session_ of the last Init
  orphaned,        \* session_ of the last Init of a vrserver that has ended
  up,              \* initialized_
  online,          \* bridge_online_
  silence,         \* ticks since last_helper_packet_, or Never
  framed,          \* RunFrame has run in this tick
  \* launchers
  launcher,        \* where the launcher of each session is
  waited,          \* ticks it has waited for the lock
  locked,          \* the session whose launcher took bridge.lock last
  holders,         \* processes that have that launcher's descriptor 9
  taken,           \* history: the lock has been taken since the last Init
  stalled,         \* history: ticks of the last launcher's wait the holder was starting in
  prefix, marker,  \* the Windows prefix, and .prefix-ready
  ui,              \* the UI runs
  dashboard,       \* the companion of each session
  \* helper
  helper,
  timer,           \* of each loop: ticks since last_native_packet
  looped,          \* helpers whose loop has run in this tick
  \* sockets
  inbox,           \* datagrams at the helper's port
  outbox,          \* sessions of the datagrams at the driver's port
  mishaps,
  handed           \* sessions whose runner has returned while the helper ran

driverVars == <<session, orphaned, up, online, silence, framed>>
lockVars == <<locked, holders, taken, stalled>>
launcherVars == <<launcher, waited, prefix, marker, ui, dashboard>>
helperVars == <<helper, timer, looped>>
socketVars == <<inbox, outbox>>
counters == <<mishaps, handed>>
vars == <<driverVars, lockVars, launcherVars, helperVars, socketVars, counters>>

-----------------------------------------------------------------------------
Never == HelperTimeout + 1   \* last_helper_packet_ is reset
Datagram == [session : Session, kind : {"packet", "shutdown"}]
Packet(s) == [session |-> s, kind |-> "packet"]
Shutdown(s) == [session |-> s, kind |-> "shutdown"]

LauncherPhase ==
  {"none", "waiting", "locked", "prefix", "ui", "dashboard", "helper", "running", "ended"}
Starting == {"locked", "prefix", "ui", "dashboard", "helper"}
Loading == {"priming", "loading"}
Bound == {s \in Session : helper[s] \in Loading \cup {"loop"}}   \* helpers with a socket

TypeOK ==
  /\ session \in Session \cup {NoSession} /\ orphaned \in 0..session
  /\ up \in BOOLEAN /\ online \in BOOLEAN /\ framed \in BOOLEAN
  /\ silence \in 0..Never
  /\ launcher \in [Session -> LauncherPhase]
  /\ waited \in [Session -> 0..LockWait]
  /\ locked \in Session \cup {NoSession}
  /\ holders \subseteq {"launcher", "runner", "ui"}
  /\ taken \in BOOLEAN /\ stalled \in Nat
  /\ prefix \in {"absent", "partial", "ready"} /\ marker \in BOOLEAN
  /\ ui \in BOOLEAN
  /\ dashboard \in [Session -> {"none", "live", "gone"}]
  /\ helper \in [Session -> {"none", "priming", "loading", "loop", "gone"}]
  /\ timer \in [Session -> 0..NativeTimeout]
  /\ looped \subseteq Session
  /\ inbox \subseteq Datagram /\ outbox \subseteq Session
  /\ mishaps \in 0..MaxMishaps /\ handed \subseteq Session

Init ==
  /\ session = NoSession /\ orphaned = NoSession
  /\ up = FALSE /\ online = FALSE /\ silence = Never /\ framed = FALSE
  /\ launcher = [s \in Session |-> "none"]
  /\ waited = [s \in Session |-> 0]
  /\ locked = NoSession /\ holders = {} /\ taken = FALSE /\ stalled = 0
  /\ prefix \in {"absent", "partial", "ready"}
  /\ marker \in BOOLEAN /\ (marker => prefix = "ready")
  /\ ui = FALSE
  /\ dashboard = [s \in Session |-> "none"]
  /\ helper = [s \in Session |-> "none"]
  /\ timer = [s \in Session |-> 0]
  /\ looped = {}
  /\ inbox = {} /\ outbox = {}
  /\ mishaps = 0 /\ handed = {}

-----------------------------------------------------------------------------
(* Sockets.                                                                *)

\* Mutant: the session of a datagram is not compared.
OwnAny(s, datagrams) == datagrams

\* ValidateHeader rejects datagrams of other sessions.
Own(s, datagrams) == {d \in datagrams : d.session = s}

\* Only a bound socket receives; which one of two that share the port is open.
ToHelper(datagrams) == inbox' = IF Bound = {} THEN inbox ELSE inbox \cup datagrams
ToNative(s) == outbox' = IF up THEN outbox \cup {s} ELSE outbox

Trouble == mishaps < MaxMishaps /\ mishaps' = mishaps + 1
Mishap == Trouble /\ UNCHANGED handed

-----------------------------------------------------------------------------
(* The native driver.                                                      *)

\* Init opens a new socket, says Hello and spawns a launcher, in a vrserver that
\* has done Cleanup or in a new one.
NativeInit ==
  /\ ~ up
  /\ session < MaxSessions
  /\ session' = session + 1
  /\ \/ UNCHANGED <<orphaned, online>>
     \/ orphaned' = session /\ online' = FALSE
  /\ up' = TRUE
  /\ silence' = Never
  /\ framed' = FALSE
  /\ taken' = FALSE /\ stalled' = 0
  /\ launcher' = [launcher EXCEPT ![session'] = "waiting"]
  /\ outbox' = {}
  /\ ToHelper({Packet(session')})
  /\ UNCHANGED <<locked, holders, waited, prefix, marker, ui, dashboard, helperVars, counters>>

\* The Shutdown datagram may get lost.
Cleanup ==
  /\ up
  /\ up' = FALSE
  /\ \/ ToHelper({Shutdown(session)}) /\ UNCHANGED counters
     \/ Mishap /\ UNCHANGED inbox
  /\ outbox' = {}
  /\ UNCHANGED <<session, orphaned, online, silence, framed, lockVars, launcherVars, helperVars>>

\* vrserver is killed.
DriverCrash ==
  /\ up
  /\ Mishap
  /\ up' = FALSE /\ online' = FALSE
  /\ orphaned' = session
  /\ outbox' = {}
  /\ UNCHANGED <<session, silence, framed, lockVars, launcherVars, helperVars, inbox>>

\* Mutant: only the datagram that brings the helper online refreshes the clock.
ReceivedFirst ==
  IF session \in outbox
  THEN [online |-> TRUE, silence |-> IF online THEN silence ELSE 0]
  ELSE [online |-> online, silence |-> silence]

\* Mutant: the clock is refreshed by every call of Receive.
ReceivedAlways ==
  IF session \in outbox
  THEN [online |-> TRUE, silence |-> 0]
  ELSE [online |-> online, silence |-> IF online THEN 0 ELSE silence]

\* ReceiveFromHelper.
Received ==
  IF session \in outbox
  THEN [online |-> TRUE, silence |-> 0]
  ELSE [online |-> online, silence |-> silence]

\* CheckHelperTimeout, at the end of the frame.
TimedOut(state) == state.online /\ state.silence # Never /\ state.silence >= HelperTimeout

\* RunFrame receives, sends poses and heartbeats, and looks at the clock.
RunFrame ==
  /\ up
  /\ framed' = TRUE
  /\ outbox' = {}
  /\ ToHelper({Packet(session)})
  /\ silence' = Received.silence
  /\ online' = (Received.online /\ ~ TimedOut(Received))
  /\ UNCHANGED <<session, orphaned, up, lockVars, launcherVars, helperVars, counters>>

-----------------------------------------------------------------------------
(* The launcher.                                                           *)

Goto(s, phase) == launcher' = [launcher EXCEPT ![s] = phase]

\* flock -w 20 9: the lock is free when no process has the descriptor any more.
TakeLock(s) ==
  /\ launcher[s] = "waiting"
  /\ holders = {}
  /\ Goto(s, "locked")
  /\ waited' = [waited EXCEPT ![s] = 0]
  /\ locked' = s /\ holders' = {"launcher"} /\ taken' = TRUE /\ stalled' = 0
  /\ UNCHANGED <<driverVars, prefix, marker, ui, dashboard, helperVars, socketVars,
                 counters>>

GiveUp(s) ==
  /\ launcher[s] = "waiting"
  /\ waited[s] = LockWait
  /\ holders # {}
  /\ Goto(s, "ended")
  /\ waited' = [waited EXCEPT ![s] = 0]
  /\ UNCHANGED <<driverVars, lockVars, prefix, marker, ui, dashboard, helperVars,
                 socketVars, counters>>

\* Mutant: the marker is set before the program has ended.
CheckMarkerEarly(s) ==
  /\ launcher[s] = "locked"
  /\ \/ marker /\ Goto(s, "ui") /\ UNCHANGED <<prefix, marker, holders>>
     \/ /\ ~ marker
        /\ Goto(s, "prefix")
        /\ prefix' = IF prefix = "ready" THEN "ready" ELSE "partial"
        /\ marker' = TRUE
        /\ holders' = holders \cup {"runner"}
  /\ UNCHANGED <<driverVars, locked, taken, stalled, waited, ui, dashboard, helperVars,
                 socketVars, counters>>

\* Without its marker the prefix is initialized by a program run in it.
CheckMarker(s) ==
  /\ launcher[s] = "locked"
  /\ \/ marker /\ Goto(s, "ui") /\ UNCHANGED <<prefix, holders>>
     \/ /\ ~ marker
        /\ Goto(s, "prefix")
        /\ prefix' = IF prefix = "ready" THEN "ready" ELSE "partial"
        /\ holders' = holders \cup {"runner"}
  /\ UNCHANGED <<driverVars, locked, taken, stalled, waited, marker, ui, dashboard, helperVars,
                 socketVars, counters>>

\* The program ends; the launcher, if it is still there, sets the marker, or
\* ends itself when the program has failed.
PrefixMade(s) ==
  /\ locked = s
  /\ helper[s] = "none"
  /\ "runner" \in holders
  /\ \/ /\ prefix' = "ready"
        /\ UNCHANGED counters
        /\ IF launcher[s] = "prefix"
           THEN marker' = TRUE /\ Goto(s, "ui") /\ holders' = holders \ {"runner"}
           ELSE UNCHANGED <<marker, launcher>> /\ holders' = {}
     \/ /\ Mishap
        /\ Goto(s, "ended")
        /\ holders' = {}
        /\ UNCHANGED <<prefix, marker>>
  /\ UNCHANGED <<driverVars, locked, taken, stalled, waited, ui, dashboard, helperVars,
                 socketVars>>

\* Mutant: the UI's subshell keeps descriptor 9.
StartUiHolding(s) ==
  /\ launcher[s] = "ui"
  /\ Goto(s, "dashboard")
  /\ ui' = TRUE
  /\ holders' = holders \cup {"ui"}
  /\ UNCHANGED <<driverVars, locked, taken, stalled, waited, prefix, marker, dashboard,
                 helperVars, socketVars, counters>>

\* The UI's subshell closes descriptor 9 and ends when a UI runs already.
StartUi(s) ==
  /\ launcher[s] = "ui"
  /\ Goto(s, "dashboard")
  /\ ui' = TRUE
  /\ UNCHANGED <<driverVars, lockVars, waited, prefix, marker, dashboard, helperVars, socketVars,
                 counters>>

\* So does the companion's, when another companion has not ended yet.
StartDashboard(s) ==
  /\ launcher[s] = "dashboard"
  /\ Goto(s, "helper")
  /\ dashboard' = [dashboard EXCEPT ![s] =
                     IF \E r \in Session : dashboard[r] = "live" THEN "gone" ELSE "live"]
  /\ UNCHANGED <<driverVars, lockVars, waited, prefix, marker, ui, helperVars, socketVars,
                 counters>>

\* Mutant: the runner closes descriptor 9, as UI and companion do.
StartHelperUnlocked(s) ==
  /\ launcher[s] = "helper"
  /\ Goto(s, "running")
  /\ holders' = holders
  /\ helper' = [helper EXCEPT ![s] = "priming"]
  /\ inbox' = {}
  /\ ToNative(s)
  /\ UNCHANGED <<driverVars, locked, taken, stalled, waited, prefix, marker, ui, dashboard, timer,
                 looped, counters>>

\* The runner inherits descriptor 9; the helper binds its socket and says Hello.
StartHelper(s) ==
  /\ launcher[s] = "helper"
  /\ Goto(s, "running")
  /\ holders' = holders \cup {"runner"}
  /\ helper' = [helper EXCEPT ![s] = "priming"]
  /\ inbox' = {}
  /\ ToNative(s)
  /\ UNCHANGED <<driverVars, locked, taken, stalled, waited, prefix, marker, ui, dashboard, timer,
                 looped, counters>>

Alive(s) == launcher[s] \in LauncherPhase \ {"none", "ended"}
Release(s, process) == holders' = IF locked = s THEN holders \ {process} ELSE holders

\* The runner has returned.
LauncherEnds(s) ==
  /\ launcher[s] = "running"
  /\ helper[s] = "gone"
  /\ Release(s, "launcher")
  /\ Goto(s, "ended")
  /\ UNCHANGED <<driverVars, locked, taken, stalled, waited, prefix, marker, ui, dashboard,
                 helperVars, socketVars, counters>>

\* The runner returns while the helper runs on, with or without descriptor 9.
RunnerHandsOff(s) ==
  /\ launcher[s] = "running"
  /\ s \in Bound
  /\ Trouble
  /\ handed' = handed \cup {s}
  /\ Goto(s, "ended")
  /\ \/ Release(s, "launcher")
     \/ holders' = IF locked = s THEN {} ELSE holders
  /\ UNCHANGED <<driverVars, locked, taken, stalled, waited, prefix, marker, ui, dashboard,
                 helperVars, socketVars>>

LauncherKilled(s) ==
  /\ Alive(s)
  /\ Mishap
  /\ Goto(s, "ended")
  /\ Release(s, "launcher")
  /\ UNCHANGED <<driverVars, locked, taken, stalled, waited, prefix, marker, ui, dashboard,
                 helperVars, socketVars>>

UiEnds ==
  /\ ui
  /\ ui' = FALSE
  /\ holders' = holders \ {"ui"}
  /\ UNCHANGED <<driverVars, locked, taken, stalled, launcher, waited, prefix, marker, dashboard,
                 helperVars, socketVars, counters>>

\* Mutant: somebody waits for the launcher, and its process id is free.
ParentIsReaped(s) == Alive(s)

\* kill(pid, 0) finds an ended launcher as well, as long as the vrserver that
\* has spawned it, and never waits for it, has not ended.
ParentIsAlive(s) == Alive(s) \/ s > orphaned

\* The companion ends with its lifetime parent, or on a quit event.
CompanionEnds(s) ==
  /\ dashboard[s] = "live"
  /\ ~ ParentIsAlive(s) \/ ~ up
  /\ dashboard' = [dashboard EXCEPT ![s] = "gone"]
  /\ UNCHANGED <<driverVars, lockVars, launcher, waited, prefix, marker, ui, helperVars,
                 socketVars, counters>>

-----------------------------------------------------------------------------
(* The helper.                                                             *)

\* main returns, and with it the runner.
Gone(s) ==
  /\ helper' = [helper EXCEPT ![s] = "gone"]
  /\ timer' = [timer EXCEPT ![s] = 0]
  /\ Release(s, "runner")
  /\ looped' = looped \ {s}
  /\ inbox' = {}

\* For 250 milliseconds the helper reads what the driver sends, a Shutdown too.
Prime(s) ==
  /\ helper[s] = "priming"
  /\ IF Shutdown(s) \in Own(s, inbox)
     THEN Gone(s)
     ELSE /\ helper' = [helper EXCEPT ![s] = "loading"]
          /\ inbox' = {}
          /\ UNCHANGED <<timer, looped, holders>>
  /\ UNCHANGED <<driverVars, locked, taken, stalled, launcherVars, outbox, counters>>

\* The DLLs are loaded and the provider's Init returns, which may take its
\* time and may fail.
ProviderInit(s) ==
  /\ helper[s] = "loading"
  /\ ToNative(s)
  /\ \/ /\ helper' = [helper EXCEPT ![s] = "loop"]
        /\ timer' = [timer EXCEPT ![s] = 0]
        /\ UNCHANGED <<looped, inbox, holders, counters>>
     \/ Mishap /\ Gone(s)
  /\ UNCHANGED <<driverVars, locked, taken, stalled, launcherVars>>

\* Mutant: a heartbeat only in a round that received nothing.
HelperLoopIdleBeat(s) ==
  /\ helper[s] = "loop"
  /\ IF Own(s, inbox) = {} THEN ToNative(s) ELSE UNCHANGED outbox
  /\ LET own == Own(s, inbox)
         quiet == IF own = {} THEN timer[s] ELSE 0
     IN  IF Shutdown(s) \in own \/ quiet >= NativeTimeout
         THEN Gone(s)
         ELSE /\ timer' = [timer EXCEPT ![s] = quiet]
              /\ looped' = looped \cup {s}
              /\ inbox' = {}
              /\ UNCHANGED <<helper, holders>>
  /\ UNCHANGED <<driverVars, locked, taken, stalled, launcherVars, counters>>

\* One round: receive, RunFrame, heartbeat, the clock, and the exit flag.
HelperLoop(s) ==
  /\ helper[s] = "loop"
  /\ ToNative(s)
  /\ LET own == Own(s, inbox)
         quiet == IF own = {} THEN timer[s] ELSE 0
     IN  IF Shutdown(s) \in own \/ quiet >= NativeTimeout
         THEN Gone(s)
         ELSE /\ timer' = [timer EXCEPT ![s] = quiet]
              /\ looped' = looped \cup {s}
              /\ inbox' = {}
              /\ UNCHANGED <<helper, holders>>
  /\ UNCHANGED <<driverVars, locked, taken, stalled, launcherVars, counters>>

HelperKilled(s) ==
  /\ s \in Bound
  /\ Mishap
  /\ Gone(s)
  /\ UNCHANGED <<driverVars, locked, taken, stalled, launcherVars, outbox>>

-----------------------------------------------------------------------------
(* Time.                                                                   *)

\* Sessions on their way from the lock to the end of the provider's Init, which
\* may take any time, or whose program in the prefix runs without its launcher.
Coming(s) ==
  \/ launcher[s] \in Starting
  \/ helper[s] \in Loading
  \/ locked = s /\ helper[s] = "none" /\ "runner" \in holders

\* Mutant: the age of last_helper_packet_ grows without end.
AgeUncapped == silence + 1

\* now - last_helper_packet_, as far as CheckHelperTimeout tells ages apart.
Age == IF silence < HelperTimeout THEN silence + 1 ELSE silence

\* Time passes when every loop has come round and nothing is left to do at once:
\* a free lock is taken, a patience that is exhausted ends, and so does a
\* launcher whose runner has returned.  A session may start for any number of
\* ticks.
HolderStarts ==
  /\ session # NoSession /\ launcher[session] = "waiting" /\ ~ taken
  /\ locked # NoSession /\ Coming(locked)

Tick ==
  /\ up => framed
  /\ \A s \in Session :
       /\ helper[s] = "loop" => s \in looped
       /\ launcher[s] = "waiting" => holders # {} /\ waited[s] < LockWait
       /\ ~ (launcher[s] = "running" /\ helper[s] = "gone")
       /\ dashboard[s] = "live" => ParentIsAlive(s)
  /\ framed' = FALSE
  /\ looped' = {}
  /\ silence' = Age
  /\ waited' = [s \in Session |-> IF launcher[s] = "waiting" THEN waited[s] + 1 ELSE waited[s]]
  /\ timer' = [s \in Session |-> IF helper[s] = "loop" THEN timer[s] + 1 ELSE timer[s]]
  /\ stalled' = IF HolderStarts THEN stalled + 1 ELSE stalled
  /\ UNCHANGED <<session, orphaned, up, online, locked, holders, taken, launcher, prefix, marker,
                 ui, dashboard, helper, socketVars, counters>>

LauncherStep(s) ==
  \/ TakeLock(s) \/ GiveUp(s) \/ CheckMarker(s) \/ PrefixMade(s)
  \/ StartUi(s) \/ StartDashboard(s) \/ StartHelper(s)
  \/ LauncherEnds(s)

HelperStep(s) == Prime(s) \/ ProviderInit(s) \/ HelperLoop(s)

Next ==
  \/ NativeInit \/ Cleanup \/ DriverCrash \/ RunFrame
  \/ UiEnds
  \/ \E s \in Session :
       \/ LauncherStep(s) \/ RunnerHandsOff(s) \/ LauncherKilled(s) \/ CompanionEnds(s)
       \/ HelperStep(s) \/ HelperKilled(s)
  \/ Tick

Spec == Init /\ [][Next]_vars

\* SteamVR calls RunFrame, processes run, and time passes.
FairSpec ==
  /\ Spec
  /\ WF_vars(RunFrame)
  /\ WF_vars(Tick)
  /\ \A s \in Session :
       WF_vars(LauncherStep(s)) /\ WF_vars(HelperStep(s)) /\ WF_vars(CompanionEnds(s))

-----------------------------------------------------------------------------
(* Properties.                                                             *)

\* At most one helper has a provider at work and the port bound, whoever was
\* killed: bridge.lock outlives its launcher in the runner.
HelpersExclusive == handed = {} => Cardinality(Bound) <= 1

\* The helper never runs in a prefix that was left half-made.
HelperInReadyPrefix == Bound # {} => prefix = "ready"

\* The launcher of the present session gives up on a lock that has not changed
\* hands only when its holder was still starting for all of its patience but
\* NativeTimeout and a tick: what is left once it has started always outlasts the
\* helper of a driver that is gone, Shutdown or not.
NoVainWait ==
  [][\A s \in Session :
       session = s /\ launcher[s] = "waiting" /\ GiveUp(s) =>
         taken \/ stalled >= LockWait - (NativeTimeout + 1)]_vars

\* The driver never takes a helper whose loop runs for dead.
LiveHelperNotTimedOut ==
  [][up /\ up' /\ online /\ ~ online' => helper[session] # "loop"]_vars

\* "The native endpoint marks all relayed trackers disconnected if the helper
\* stops responding" (docs/ARCHITECTURE.md:59).
SilentHelperNoticed ==
  \A s \in Session : session = s /\ helper[s] = "gone" ~> session # s \/ ~ up \/ ~ online

\* "The helper exits if the native SteamVR provider disappears" (the same), also
\* when the next session's driver keeps sending to its port.
HelperFollowsDriver ==
  \A s \in Session : s \in Bound /\ ~ (up /\ session = s) ~> s \notin Bound

\* A driver that stays has its helper at work for good, once it is heard, unless
\* its launcher has ended.
SessionServed ==
  \A s \in Session :
    <>[](up /\ session = s /\ Alive(s)) => <>[](helper[s] = "loop" /\ online)

\* The companion "keeps the dashboard handle alive when Proton hands the Windows helper off
\* to Wine and returns from its launcher command" (docs/ARCHITECTURE.md:15): while the driver
\* whose launcher started it is up, nothing takes it away as long as the launcher is there or,
\* after a hand-off has ended the launcher, the helper still runs.
CompanionOutlivesHandoff ==
  [][\A s \in Session :
       /\ up /\ session = s /\ dashboard[s] = "live"
       /\ Alive(s) \/ (s \in handed /\ s \in Bound)
       => dashboard'[s] = "live"]_vars

\* Without a hand-off the companion ends when its launcher has ended: "The companion follows
\* the lifetime of the persistent bridge launcher" (docs/ARCHITECTURE.md:15).
CompanionFollowsLauncher ==
  \A s \in Session :
    dashboard[s] = "live" /\ launcher[s] = "ended" /\ s \notin handed ~> dashboard[s] = "gone"

=============================================================================
