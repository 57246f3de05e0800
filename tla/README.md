# A TLA+ development of the Standable Linux bridge

The repository runs the original Windows `driver_standable.dll` under Proton and
relays it to native SteamVR. This directory holds TLA+ models of its core, TLC
configurations that check them on small instances, and TLAPS proofs that hold for
every value of the constants. Paths below are relative to the repository root.

## 1. The system

| component | state | operations | talks to |
| --- | --- | --- | --- |
| native driver (`src/native/driver_main.cpp`, `relay_tracker.cpp`), loaded by vrserver | `trackers_` (16 relay slots), `physical_connected_`, `bridge_online_`, session, clocks | `Init`, `Cleanup`, `RunFrame` = receive, send physical state, send events, hello and heartbeat, timeout; `RelayTracker::Activate`, `Deactivate`, `GetPose` | SteamVR (calls both ways), helper (UDP), launcher (spawn) |
| helper (`src/windows/bridge_host_main.cpp`, `fake_openvr.cpp`) | `trackers_`, `tracker_indices_`, `properties_`, `physical_poses_`, `physical_injected_`, `events_`, settings, injection and exit flags | `main` = open, prime, load, init, loop; `HandlePacket`; the OpenVR interfaces the DLL calls | native driver (UDP), the original DLL (calls both ways, several threads) |
| transport (`include/bridge_protocol.hpp`, `native_transport.cpp`, `windows_transport.cpp`) | socket, peer, session, sequence | `Open`, `Close`, `Send`, `Receive` with header validation | loopback UDP |
| Steam adapter (`src/windows/steam_api_bridge.cpp`) | client, pipe, user, interfaces, last result | lazy connection, interface lookup, context generation | `steamclient64.dll` |
| dashboard (`src/dashboard/dashboard_main.cpp`) | captured window, pixmap, texture or raw buffers, mouse buttons | find and capture a window, upload, submit to the overlay, translate input | X11, OpenGL, SteamVR overlays |
| launcher (`scripts/standable-bridge-launcher.sh`, `runtime-common.sh`) | `bridge.lock`, `ui.lock`, `dashboard.lock`, prefix marker | start helper, UI and dashboard | Proton or Wine |
| installer and updater (`install.sh`, `scripts/install.sh`, `update.sh`, `uninstall.sh`) | installed files, backups, version | verify, back up, replace, register | the file system, SteamVR |

Native driver and helper share nothing but datagrams. The helper answers every
`Hello` (sent at `Init` and every two seconds) with a replay of its whole registry;
that exchange is the only repair for lost datagrams, in one direction. In the other,
poses are sent every frame and properties again every five seconds, but a
disconnection is sent once.

What is hard, and which property is about it:

* **Threads of the DLL against the helper's main thread.** The registry is guarded by
  mutexes, but every send follows the unlock: a replay works from a copy and may send
  it after newer updates (`LivePosesInOrder`, `PosesConverge`, `PropertiesConverge`);
  an announcement must precede the tracker's updates (`NoOrphanUpdates`, about datagrams of
  the present session: those of an earlier one are rejected).
* **Lost datagrams**: the registration, the last pose, the last property
  (`RegistrationRelayed`, `PosesConverge`, `PropertiesConverge`), a disconnection
  (`NoGhosts`, only as long as nothing is lost).
* **Timeouts, crashes and restarts**: the helper falls silent and comes back, is killed
  between any two steps, or is replaced by one of a later session that registers the
  same trackers in another order (`ConnectedOnlyWhileOnline`, `SlotPerSerial`,
  `RefinesContract`, `PoseFromOwnTracker` and its part that holds, `PoseFromOwnTrackerAtFirst`).
* **SteamVR's own order of calls** on a relay object (`ContainerMirrorsCache`).
* **Devices primed before the provider's hooks exist**, refused announcements,
  reconnections, and index ranges that overlap (`CallbacksMatchTable`,
  `InjectedIsConnected`, `DevicesAnnounced`).
* **Raw images SteamVR reads after the call has returned**, completed by an event that
  may report a failure, while the transport changes under way (`RawBuffersHeld`,
  `OneRawInFlight`, `PicturesKeepComing`); calls of which the second fails after the
  first took effect (`PointerScaleCatchesUp`).
* **Windows that vanish, come back, change size or turn black** between any two X11
  requests of one capture (`PixmapOfTarget`, `PictureFollowsTarget`), or between the
  press and the release of a button (`ReleasesForwarded`).
* **The end of the companion** from three sides, at any point (`StopsWhenTold`).
* **Processes that start and outlive each other**: a launcher waits for the lock of a
  helper whose driver is gone (`NoVainWait`, `HelperFollowsDriver`), is killed with its
  runner still at work (`HelpersExclusive`) or in the middle of the prefix
  (`HelperInReadyPrefix`); each side must notice the other's silence and mistake nothing
  else for it (`SilentHelperNoticed`, `LiveHelperNotTimedOut`, `SessionServed`). The
  dashboard must survive the runner's return (`CompanionOutlivesHandoff`) and otherwise end
  with its launcher (`CompanionFollowsLauncher`, which fails).
* **A connection to Steam made by whichever thread needs it first**, checked in one section
  of the lock and used in another, while attempts fail half-made and the result is
  overwritten (`HandlesAuthenticated`), contexts labelled with the connection they were made
  for (`CurrentContextsUsable`), and a provider that is started before Steam
  (`ContextsServed`).
* **An installation that ends between two files**, is repeated with the same or another
  version, or overlaps another (`FilesWhole`, `ReplacedIsBackedUp`, `FinishedIsComplete`).

`PROJECT.json` lists the hazards at their lines, those no property covers yet included.

## 2. Modules

### TrackerRelay: from the DLL's registration to SteamVR

State and code: `slots` is `DeviceProvider::trackers_` (configured, remote index,
serial, `pose_`, property cache); `object` is `object_id_` together with SteamVR's
decision on `TrackedDeviceAdded`; `shown` and `container` are what SteamVR was told;
`toNative` and `toHelper` are the two sockets' receive queues; `trackers`, `last_pose`
and `properties` are the helper's tables; `known` are the indices the DLL has learned
from `Activate`; `job[t]` says which half of a call helper thread `t` has done.
Remote index 47 + k is k here.

Actions: `NativeInit`, `Cleanup`, `SendHello`, `CheckHelperTimeout`, `Receive` (one
disjunct per message and one for datagrams of another session) for the native driver;
`Activate` and `Deactivate` for SteamVR; `HelperStart`, `HelperStop`, `SendHeartbeat`,
`HelperReceive`, `ReplayAdded`, `ReplayCopy`, `ReplayProperty`, `ReplayPose` for the
helper's main thread; `TrackedDeviceAdded`, `SendTrackerAdded`, `ActivateDriver`,
`TrackedDevicePoseUpdated`, `SendTrackerPose`, `WriteProperty`, `RelayTrackerProperty`
for the DLL's calls, cut where the code releases its mutex.

Decisions:

* The loopback keeps the order of one sender. A datagram is lost when nobody has
  bound the port, or within the budget `MaxLosses`. `Capacity` holds a sender back
  and is a bound of the model only; `SendToHelper` never blocks `Init` and `Cleanup`.
* A pose is the driver that computed it and a global number, so that "whose" and
  "which is newer" can be told; its numbers are not modelled. `FromWire` and
  `DriverPoseToWire` copy every field, which is read off the code, not checked.
* Property values are a few constants; `Oversized` are those beyond
  `kMaxPropertyBytes`, `"error"` a `PropertyWrite_SetError`, `"erase"` an erasure,
  `"empty"` a Set without data. A container shows `"default"` for a property
  `ApplyDefaults` may write and nobody else did.
* A session is one `Init`; the launcher starts one helper for each and `bridge.lock`
  keeps two from running at once. Time is left out: a timeout may fire whenever its
  guard holds, the helper may stop whenever its session is over, or at any time with
  `HelperCrashes`. Until the provider's `Init` returns, the code's main thread does not
  read the socket; the model lets it.
* The native driver's `Shutdown` handler is left out: no helper sends that message. A
  helper that received `Shutdown` makes no further calls from its main thread: its last
  `RunFrame` sends to a socket that is closed or rejects its session.
* The DLL is external: which thread drives which tracker is the constant `ThreadOf`;
  it uses an index only after `Activate`, also one whose activation it failed itself.
  Serial numbers are different and fit their field.

### RelayContract: what SteamVR may rely on

The abstract specification: a relay object exists only for a serial the DLL
registered, is never taken away or given to another serial, and is connected only
while the helper is heard. `TrackerRelay!RefinesContract` instantiates it with the set
of configured serials and of those with a connected pose.

### PhysicalMirror: from SteamVR's devices to the DLL

`SendPhysicalState` with its snapshot of poses and its refresh decision, one step per
datagram; the helper's stages (priming, loading, running, stopped); its tables; and
what the provider's hooks saw. `High` are the indices from 48 on, which have no stub
and are also the indices of trackers. The helper handles all of this on one thread, so
a handler is one step. Relay objects are skipped by `IsRelayObject` and are not among
the devices; the serial number stands for the mirrored properties; one `Init`. Whether
the provider accepts a device is a free choice, refused at most `MaxRejects` times.

### MCTrackerRelay

Gives the functions `SerialOf` and `ThreadOf` their values for TLC.

### DashboardOverlay: from a captured frame to the dashboard tab

One thread, `run_dashboard`, with `at` for the place in its loop; `connect` and `create`
come before it. `raw_in_flight`, `raw_frame`, `pending_raw_frame`, `waiting_frame`,
`opengl_mode`, `bounds_configured` and `mouse_size` are the members of
`DashboardOverlay`, `gl_ready` and `gl_size` those of `OpenGlTextureUploader`. SteamVR's
side is `loading` (images accepted and not completed), `events`, `flipped`, `scale`, and
`shown`. Each operator is the function of its name; `ProcessEvent` is one round of the
polling loop, because a completion may arrive between two rounds.

Decisions:

* A frame is its memory and its size. `waiting_frame_` is `NoFrame`, which has memory of its
  own, `Waiting`; `Free` is the memory a new frame can get, so a frame takes neither memory
  the companion holds nor memory SteamVR is reading. That SteamVR is not reading freed
  memory is then what `RawBuffersHeld` has to show.
* `upright` flips whenever a picture appears with the bounds of its kind, which makes
  "again and again" a property of one step.
* `glTexImage2D` may fail for want of memory after which the size is recorded all the same;
  a frame of the recorded size then fails for a texture without storage.
* The two timers (five seconds to a texture retry, one frame interval) are free choices
  with fairness. That the page is open, the capture ready and a frame at hand is the guard
  of `SubmitFrame` and the choice between it and `NoFrameDue`. Source size and scaled size
  of a frame are one size.
* Destroying the overlay lets go of all images at once.

### WindowCapture: from Standable's window to a frame, and the pointer back

`target`, `source`, `pixmap`, `redirected`, `force_direct_capture` and
`blank_frame_count` are the members of `X11WindowCapture`; `at` cuts `refresh_target()` and
`capture()` at each request whose answer they use: the look at the old target, the search for
a new one with its size (`FindTarget`), the naming of the pixmap (`NamePixmap`), the attributes
(`GetAttributes`), the pixmap's contents, the direct capture, and per child its attributes
(`LookAtChild`) and its capture (`TrySurface`). Windows change between any two of them. `back`
is the place `refresh_target` or `setup_composite_pixmap` was called for. The server has
`viewable`, `size`, `visible` (the ways of capture that show more than black), `redirects`
and `down` (buttons pressed through XTEST). A stale pixmap is one named before the server
gave its window new memory.

Decisions:

* `Top` are the windows `find_standable_window` accepts; its scores decide nothing the
  properties tell apart, so any viewable one may be found. The pixels are black or not.
  An image that does not fit its drawable is an X error.
* The size in `source` was read before the pixmap was named, and the window may have been
  resized in between: the pixmap has the size of its own moment. Reading it by a larger `source`
  fails, and the companion goes on with direct capture (the place `"unread"`). A smaller one
  gives part of the window until the next `GetAttributes` sees the new size.
* The redirection is asked for and gives no answer; it is one step with the naming that follows.
  When the naming fails the redirection stays, because `redirected_` is false.
* Sizes stand for areas as well. `MinSurface` is the smallest child searched in a window of each
  size, `max(4096, parent / 20)` in the code, and `MaxSurfaces` the 32 that are left after sorting
  (`Kept`); the traversal's own limits, depth 6 and 1024 windows, are left out.
* The code searches children at the first black frame and at every hundredth after it;
  `ProbeEvery` is that hundred, and the counter runs up to twice of it and round again.
* The window raised for input, coordinates and synthetic events have no state of
  their own here. `Scroll` is one step of the wheel: more of them repeat it.
* One request to XTEST may fail per event, within `MaxFailures`; the companion then never
  uses XTEST again.

`MCWindowCapture` gives `Parent` and `MinSurface` their values for TLC.

### BridgeLifecycle: who starts and ends whom

The driver's `Init`, `Cleanup` and `RunFrame` with their clock (`silence` is the age of
`last_helper_packet_`), one launcher per session with its place in the script, the helper's
`main` with its clock (`timer`), and the companion as far as its lifetime goes. `holders`
are the processes that have descriptor 9, and with it `bridge.lock`, open. `orphaned` tells
whose vrserver has ended: the launchers it spawned lose their process id when they end, those
of a vrserver that runs keep it, because nobody waits for them.

Time passes in ticks. A tick waits for every loop to come round once (`framed`, `looped`),
for the lock to be taken when it is free, and for processes that have nothing left to
wait for; so three seconds, ten seconds and twenty seconds become `HelperTimeout`,
`NativeTimeout` and `LockWait` ticks. It does not wait for a start: the prefix, loading and
the provider's `Init` may take any number of ticks, as nothing in the code bounds them (a first
start under Proton is the slow one). `stalled` counts the ticks of a launcher's wait in which
the lock's holder was starting. `LockWait > NativeTimeout + 1` is the code's 20 > 10 and its slack.

Decisions:

* A datagram is a session and whether it is `Shutdown`; any other one refreshes the clock of
  its receiver. Several of a kind in a queue count as one. Which of two helpers that share
  the port receives is not determined.
* `RunFrame` sends in every tick and `HelperLoop` in every round: poses, or else heartbeats.
* One failure of the program in the prefix, of loading or of the provider's `Init` stands
  for each of them. `MaxMishaps` bounds processes killed, steps failed, `Shutdown`s lost and
  hand-offs together.
* The runner hands the helper off (`RunnerHandsOff`) when it returns while the helper
  runs, as `docs/ARCHITECTURE.md:15` says Proton does; then the lock may be free while the
  helper runs, which is why `HelpersExclusive` speaks of behaviours without it.
* `handed` are the sessions whose runner has handed its helper off.
* That vrserver may reap the driver's children is not assumed; `posix_spawn` succeeds.
* The companion's quit event comes when the driver is down.

### SteamAdapter: the provider's calls to Steam

`api` is `g_state`, `generation` is `g_context_generation`; `label` and `slot` are `slots[1]`
and `slots[2]` of a context. A step is what the code does in one section of `g_state_lock`:
`EnsureConnected` with the first step of a call, the read of the user, of the error or of the
client (`ReadUser`, `ApiInitRefused`, `MakeInterface`) as a step of its own. `ContextInit`
takes no lock and is cut at each access to the generation and to the slots; `in`, `gen`,
`held`, `asked` and `made` are a thread's locals and what it was given.

Decisions:

* The initialiser a context brings is in Valve's headers: it calls
  `FindOrCreateUserInterface(GetHSteamUser())`. The provider may also call any of the four
  functions at any time, from any thread.
* A user has the number of the pipe it was connected through, an interface that of its user
  and that of its pipe. `pipes` counts the pipes opened; the code releases none, not even those
  of attempts that fail (`leaks`, at most `MaxLeaks`).
* Steam is `ready` or not. An attempt fails at each point the code checks; which of the three
  results it is and its message are left out. `lapsed` tells that an attempt failed after
  another had succeeded: `Init` without a version list turns the result into a failure and
  leaves the connection, the next call then replaces it by what a new attempt yields,
  half-made if it fails, and a thread between its check and its use sees that.
* `shared` are contexts two threads have initialised at the same time. Nothing in the code
  keeps them apart, and no claim is made about them.

### Installer: what happens to Standable's folder

`at` is the place of each run in `install.sh`, `todo` the files its loop has not finished,
`destination` the bridge's files, `backup` what the backup directory of the run holds. A file
is absent, torn, or of one version. `FetchArchive`, `Verify`, and per file `BackUp`,
`OpenTemporary`, `WriteTemporary` and `Rename` (`install_atomic`), then `Register`
(`scripts/install.sh`, unless `--no-register`); `Uninstall` is `uninstall.sh`. `EndEarly` ends
a run at any of these places: a command that fails under `set -e`, or a kill.

Decisions:

* `VERSION` is the first file of the loop, scripts are the last; `Optional` are scripts
  that not every version has. A file that only the old version had stays.
* An archive whose checksum is that of the published one is that version's archive; a torn
  one is refused. Archive and checksums are fetched separately and may be of two releases.
* Opening a file to copy it and renaming another over its name do not disturb each other, so
  `BackUp` is one step. A cut copy leaves the destination as it was and counts for nothing.
* Backup directories are named by the nanosecond, so two runs have two; temporary files by
  the process id, and one that is left behind is never read.
* `overlapped` tells that two runs have been past their checks at once.

`MCInstaller` says which version ships which file.

## 3. Runs

| run | cfg | question | size |
| --- | --- | --- | --- |
| registration | TrackerRelayRegistration | types, `PoseFromOwnTrackerAtFirst`, `SlotPerSerial`, `ConnectedOnlyWhileOnline`, `NoOrphanUpdates`, `RefinesContract`: two trackers on two threads, two sessions, the helper killed at any point, one loss | 1.7 M states |
| live_updates | TrackerRelayUpdates | `RegistrationRelayed`, `ContainerMirrorsCache`, `LivePosesInOrder`, `PosesConverge`, `PropertiesConverge`: two updates, one loss, two datagrams in flight, an oversized value | 0.3 M |
| mirror | PhysicalMirror | types, `InjectedIsConnected`, `CallbacksMatchTable`, `NoGhosts`, `DevicesAnnounced`: two devices with a stub and one without | 0.1 M |
| reindex | TrackerRelayReindex | expected violation of `PoseFromOwnTracker` over two sessions | |
| replayed_values | TrackerRelayValues | expected violation of `PropertiesRelayed` | |
| overlay | DashboardOverlay | types, `RawBuffersHeld`, `OneRawInFlight`, `PicturesKeepComing`, `PointerScaleCatchesUp`, `StopsWhenTold`: three buffers, two sizes, two failing calls, two changes from outside | 0.2 M |
| capture | WindowCapture | types, `PixmapOfTarget`, `PictureFollowsTarget`: a window with a child surface, two sizes, two changes, one refused request, a search at every second black frame | 0.7 M |
| stuck_button | WindowCaptureButtons | expected violation of `ReleasesForwarded` | |
| lifecycle | BridgeLifecycle | types, `HelpersExclusive`, `HelperInReadyPrefix`, `NoVainWait`, `LiveHelperNotTimedOut`, `SilentHelperNoticed`, `HelperFollowsDriver`, `SessionServed`, `CompanionOutlivesHandoff`: two sessions, one mishap, starts of any length | 0.2 M |
| companion_stays | BridgeLifecycleCompanion | expected violation of `CompanionFollowsLauncher` in one session | |
| steam | SteamAdapter | `HandlesAuthenticated`, `CurrentContextsUsable`, `ContextsServed`: two threads, one context, one `Init` without a version list, one failed attempt with its pipe open | 0.8 M |
| installer | Installer | `FilesWhole`, `ReplacedIsBackedUp`, `FinishedIsComplete`: three runs, two at once, two versions, three files of which one is a script only the second version has | 1.6 M |

Why the bounds are enough to be interesting: two trackers are what it takes to confuse
one with another, two threads to interleave a call with a replay, two updates to tell
an older one from a newer one, one loss to need a repair, two sessions for a restart.
Three buffers are one that SteamVR reads, one that waits and one for the next frame;
two failures let a call fail after a change of transport that a failure caused; two window
changes make it lose a window and find it again, resize one between its size and its pixmap, or
resize and repaint one. (One child is enough for every place of `capture`, the failed pixmap and
the failed candidate included. The cut to `MaxSurfaces` and the candidate after a failed one need
two children; with one change that instance passes too, in 1.0 M states.)
In `lifecycle` two sessions are a helper that is left over and one that waits for it, and one
mishap leaves it over; of the timeouts only their order and the slack between them matter.
In `steam` one thread replaces the connection between the other's check and its use, for
which one `Init` without a version list is needed, and the attempt that follows fails at
any of its points or succeeds on another pipe. In `installer` a third run repeats what a
second one, of the same or another version, has left half done of a first.
`CHECK_DEADLOCK FALSE` in the TrackerRelay runs (after the last `Cleanup` and the helper's
exit nothing is left to do), in the overlay's (the companion ends) and in the lifecycle's (all
processes end).

What the violations show:

* **reindex.** `DeviceProvider` is a global and `Init` does not clear `trackers_`. A slot
  keeps the remote index of the previous helper until its own serial is announced again.
  If the DLL registers its trackers in another order, updates for an index go to the
  first slot that has it: another tracker's (`docs/ARCHITECTURE.md:32` promises one relay
  object for each original tracker). Within the first `Init` the same property holds
  (`PoseFromOwnTrackerAtFirst` in `registration`; `OwnPosesFirstSession` for any number of trackers).
* **replayed_values.** `ReplayTrackers` marks everything it sends as
  `PropertyWrite_Set`: an error the DLL stored comes out as an empty value
  (`README.md:81` says properties are relayed). `PropertiesConverge` is therefore
  stated up to that form.
* **stuck_button.** A press goes to the X server through XTEST. If the window is gone when
  the controller releases the button, `send_mouse_button` returns before it reaches XTEST,
  though `process_events` has forgotten the button: the server holds it down
  (`docs/ARCHITECTURE.md:17` says the events are injected). No request fails in this run.
* **companion_stays.** The companion asks `kill(pid, 0)` whether its launcher lives. The driver
  spawns the launcher and never waits for it, so the process id stays in use after it has ended.
  That is what lets the dashboard survive a hand-off (`CompanionOutlivesHandoff`, which is about
  that case and the launcher that lives); it also keeps the companion until SteamVR quits when the
  launcher has ended for good, where `docs/ARCHITECTURE.md:15` and `:21` say it follows the
  launcher. The test (`tests/script_runtime.sh:85`) waits for the process it kills and does not
  meet the case.

### Limits the models show and no run checks

* **Colliding indices.** `OnPhysicalProperty` accepts indices up to 63, trackers start at 48,
  and both use the container `index + 1` (`fake_openvr.cpp:644`): a SteamVR device with such an
  index overwrites the properties of the tracker, which `README.md:81` says are the
  provider's. SteamVR has to hand out more than 48 devices for it.
* **A companion left out.** The launcher takes `dashboard.lock` in a subshell and leaves the
  companion out, without waiting, when an earlier one still holds it.
* **A slow start.** A launcher whose holder is still making the prefix or loading the provider may
  give up although its own driver stays (`launcher:67`); nothing starts another one. `NoVainWait`
  says how much of its patience the start must have taken; `SessionServed` asks for a launcher
  that stays.
* **A connection that is gone.** After one success the adapter never looks at its connection
  again; after a restart of Steam its handles are those of the ended client. Each failed
  attempt leaves a pipe open.
* **Two installers at once.** Nothing keeps them apart; backups may then be of the other's
  files and the folder a mixture, of whole files.
* **settings.json.** `enable-dashboard.sh` reads, edits and renames it without a lock, at every
  start of a launcher, when an older Standable may still be saving it.

### Fairness

`RunFrame` is called again and again, so `Receive`, `SendHello`, `BeginFrame` and the
passing of five seconds are weakly fair; so is the main thread's replay. A thread that
has begun a call finishes it. Strong fairness appears only where the bound `Capacity` can
disable a sender again and again; the program never waits there. Nothing is
assumed of the DLL, of SteamVR, of restarts, or of losses beyond their finite budget.

The companion's loop runs on one thread with a sleep of five milliseconds, hence
`WF_vars(LoopStep)` and, in WindowCapture, `WF_vars(CaptureStep)` for a capture or a search
that has begun. A branch of the loop that is taken when a timer has run out is enabled in one
place of the loop only and disabled in all others, hence strong fairness for
`RetryTexture`, `SubmitFrame` and `BeginCapture`: the timers run out again and again, and
the page is open again and again. SteamVR completes every raw image it has accepted, with
success or failure; without that the companion waits, by design, and the properties could
not hold. `PicturesKeepComing` and `PointerScaleCatchesUp` are about behaviours that are
left undisturbed in the end, `PictureFollowsTarget` about windows that are; what these
conditions leave out (a texture whose storage could not be allocated, a stale pixmap) is
listed among the hazards.

In BridgeLifecycle SteamVR calls `RunFrame`, time passes, and what a launcher, a helper or
a companion can do it does (`WF_vars` each); nothing is assumed of `Init`, `Cleanup`, of the
UI or of mishaps. `SessionServed` is about a driver that stays up and a launcher that stays.

In SteamAdapter a call that has begun goes on (`WF_vars(Continue(t))` for each thread); no
call has to be made and Steam owes nothing. `ContextsServed` asks for a Steam that is ready in
the end and a context that is handed to `ContextInit` again and again. Installer has no
liveness: it may end anywhere.

## 4. Proofs

`TrackerRelayProofs` proves `TypeCorrect`, that `TypeOK` holds of every behaviour,
for any number of drivers, threads, properties, slots, sessions, updates and losses. The
type invariant is inductive as it stands because it says of every unfinished call that
its index is registered and its helper still runs.

`TrackerRelaySafety` proves, over the inductive invariant `RelaySafety`:

* `OneSlotPerSerial`: no two relay objects have the same serial;
* `NothingConnectedOffline`: nothing is connected while offline or cleaned up;
* `ContainerFollowsCache`: an active object's container is the defaults overlaid with
  the cached writes;
* `Refinement`: `Spec => RefinesContract`.

The strengthening says that unconfigured slots are empty and have no object
(`SlotsWellFormed`), that only an active object is shown as connected
(`InactiveNotShown`), and, for the refinement, that every announcement in flight and
every registered tracker is in `registered` (`AnnouncementsRegistered`). The argument
has one lemma per group of actions; `OnTrackerAdded` and `DisconnectTrackers` are where
it has content, the rest frames.

A second invariant, `PoseOrder`, is about what the helper sends. The numbers of a tracker's
poses are in relay objects, in datagrams, in the table and in `ReplayTrackers`' copy; a live
pose, from the call that stores it on, is at least as new as all of them (`PendingNewest`,
then `LiveNewest`), because the one thread that drives a tracker sends a pose before it stores
the next, and the link keeps the order, while the copy of a replay is never ahead of the table
(`Copies`).
From it follow:

* `LiveOrder`: only a replayed datagram takes a relay object back to an older pose, across any
  number of sessions, crashes and losses.
* `OwnPosesIfSameOrder` and `OwnPosesFirstSession`: a relay object carries only poses of its own
  tracker if every run of the helper registers the trackers in the same order
  (`[]SameOrder(f)`, of any f from indices to serials), or while there has been one session.
  The violation `reindex` shows that one or the other is needed. `Follows(f)` says that slots
  and datagrams agree with f; in the first session f exists without being given
  (`FirstSession`): the one helper only ever extends it, and when it ends no other starts.

`NoOrphans` proves `NoOrphanUpdates` for trackers with serials of their own
(`DistinctSerials`) as long as no more serials were registered than there are slots: for a
tracker that finds all slots taken there is no relay object, by design. `RelayReady` adds that
no two helpers share a session (`SessionsKept`), that a driver has one index
(`RegisteredOnce`), that every slot's serial was registered (`SlotsRegistered`), and,
while the driver listens to this helper and nothing was lost, that every index the
DLL or the replay may send updates for has its relay object or its announcement under way
(`AnnouncedFirst`), with every update behind it (`UpdatesBehind`). `FreeSlot` is the count: by
`SlotPerSerial` and the pigeonhole principle a new serial finds a slot. A slot may be taken over
by another index only through its own serial, which `DistinctSerials` and `RegisteredOnce` rule
out within a helper (`NativeRelays`).

`DashboardOverlayProofs` proves, for any memory, sizes and numbers of failures and
changes:

* `TypeCorrect`, where the type invariant is inductive by itself;
* `OneInFlight` and `BuffersHeld`, together, because neither is inductive alone: that a
  buffer SteamVR reads is still `raw_frame_` needs that nothing else is submitted meanwhile,
  which is what `raw_in_flight_` stands for, and that a completion can be trusted needs that
  the queue holds the only one. The invariant adds that nothing is in flight
  before `create()` (`Nothing`). `ProcessEventHeld` has the argument: taking the one
  completion from the queue leaves no image and no completion, so the next one may go.

`SteamAdapterProofs` proves, for any numbers of threads, contexts and attempts:

* `Authenticated`. The invariant relates every handle to `owned`: as long as `lapsed` is
  false, the connection in `api` is either none at all or a confirmed one, so a thread that
  goes on from a successful check reads confirmed handles even if the connection was
  replaced meanwhile, and what it holds or has made was confirmed when it took it. Steps of
  `ConnectToSteam` that fail set `lapsed` exactly when there was something to lose.
* `ContextsCurrent`. Here the invariant follows a context through one initialisation: the
  generation moves only when a pipe is opened and confirmed, so while a thread's `gen` is
  the current one, what it has been given is nothing or of the current pipe. It needs that a
  thread alone in its context is the only one that writes its slot, hence `shared`, and a case
  per place in `ContextInit`.

`InstallerProofs` proves, for any numbers of runs, versions and files:

* `FilesAlwaysWhole`: a temporary file at the rename is the whole file of a verified archive,
  and no file that has been there goes away.
* `NothingLost` and `SuccessIsComplete`, under `~overlapped`: only one run is past its checks, the
  file it is about to rename over is in a backup unless it is absent (`Kept`), and every file
  of its version that is no longer in `todo` has its version's content (`Behind`). `BackUp` and
  `Rename` are where this has content.

`BridgeLifecycleProofs` proves, for any numbers of sessions and mishaps and any timeouts in
the order of the code's, over the invariant `LInv`:

* `Exclusive` and `InReadyPrefix`, from who has the lock (`Held`): a launcher past the lock
  holds it until it ends, its runner from the start of a program to its end, so all who hold it
  are of the session that took it last; a runner that makes the prefix is gone before the next
  launcher reads the marker (`Ready`).
* `CompanionStays`: the companion's launcher, alive or not, is a process id of a vrserver that runs.
* `LiveHelperKept`, from `Heard`: at any tick the datagram of a looping helper was received
  since the last one or waits to be, so the silence never grows beyond one tick.
* `PatienceSuffices`, from `Patience`: how long the present launcher has waited for a lock that
  has not changed hands is bounded by `stalled` while the holder starts and by `stalled + timer`
  in its loop, where a helper without a driver cannot take `timer` beyond `NativeTimeout`.
  Datagrams of the old driver that are still in the socket are the difficult case: they reset
  that clock, but are all read in the first round of the loop, when the launcher has waited no
  longer than `stalled`. So a launcher that gives up without having been overtaken has spent all of
  its patience but `NativeTimeout` and a tick on a start. No bound on starts is assumed.

`PhysicalMirrorProofs` proves, for any numbers of devices, losses, changes and refusals, over
`MInv`: `InjectedConnected`, `CallbacksAgree` and `GhostsLeave`. `CallbacksMatchTable` needs that
the provider has been told nothing before injection is enabled (`Silent`), so that the catch-up
covers it all. `NoGhosts` is not inductive: a pose that is still on its way makes the helper hold
a device to be connected, so `PosesFollowed` says the same of every pose in the socket, a
disconnection behind it if the device is gone.

`WindowCaptureProofs` proves, for any windows, sizes, buttons, changes and refused requests,
`PixmapTargets`. `Placed` adds that a capture past its first request has a target with a size,
and that one that looks for a target or names a pixmap has no pixmap and is free to use one;
that a redirection is given back only if it was made, which the type of `redirects` needs, is
`PixmapOfTarget` itself, so types and pixmap are proved together.

The proofs use the named assumptions on the constants in each component's module, which TLC
evaluates in each run.

Only model-checked: everything under fairness (`RegistrationRelayed`, `PosesConverge`,
`PropertiesConverge`, `DevicesAnnounced`, `PicturesKeepComing`, `PointerScaleCatchesUp`,
`StopsWhenTold`, `PictureFollowsTarget`, `SilentHelperNoticed`, `HelperFollowsDriver`,
`SessionServed`, `ContextsServed`): liveness and ENABLED are out of the prover's reach. Every
other property of a passing run is stated by a theorem, `NoOrphanUpdates` for the behaviours that
meet its theorem's hypotheses.

## 5. Not modelled, and the plan

1. `WireProtocol`: `ValidateHeader` as an operator against a reference definition.
2. PhysicalMirror with calls the DLL makes from inside its hook (`g_injecting_physical`),
   the events the driver sends and the helper queues, and the end of a frame's drain on a
   rejected datagram.

Of the launcher the choice of runner and paths is text and environment. Of the installer an
overlay directory named on the command line (which is installed unverified), the search for
Standable and SteamVR, and the edit of settings.json are left out.

Left out for good: settings and resource lookup (a map behind one mutex), input components
(constants), diagnostics, the dashboard's thumbnails and pixels, and the numerical content of poses.
