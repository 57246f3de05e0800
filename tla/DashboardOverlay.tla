-------------------------- MODULE DashboardOverlay --------------------------
(***************************************************************************)
(* How captured frames reach SteamVR's dashboard tab: the companion's main *)
(* loop (dashboard/dashboard_main.cpp, run_dashboard), the texture it      *)
(* uploads frames to (OpenGlTextureUploader) and the overlay it shows them *)
(* on (DashboardOverlay).  Frames go through one OpenGL texture or, while  *)
(* GLX is missing, as raw images: SteamVR reads a raw image from the       *)
(* companion's memory after SetOverlayRaw has returned, and says when it   *)
(* is done with an event, so one is submitted at a time and the newest     *)
(* frame waits behind it.                                                  *)
(*                                                                         *)
(* The companion has one thread; SteamVR completes raw images and posts    *)
(* events between any two of its steps.  A frame is its buffer and its     *)
(* size.  Where frames come from, and what pointer events do, is           *)
(* WindowCapture.                                                          *)
(***************************************************************************)
EXTENDS Naturals, Sequences

CONSTANTS
  Buffer,        \* memory of captured frames
  Size,          \* sizes of the captured window, positive
  MaxFailures,   \* bound: calls of SteamVR and OpenGL that fail
  MaxChanges     \* bound: resizes of the window, page switches, quit requests

NoSize == 0
Waiting == "waiting"   \* the buffer of the placeholder create() submits

ASSUME OverlayAssumption ==
  /\ Size \subseteq Nat \ {NoSize}
  /\ Waiting \notin Buffer
  /\ MaxFailures \in Nat
  /\ MaxChanges \in Nat

VARIABLES
  at,                  \* where run_dashboard is
  g_running, parent,   \* no quit request or signal yet; the launcher is alive
  transport_ready,     \* texture_transport_ready
  \* OpenGlTextureUploader
  gl_ready,
  gl_size,             \* width_ and height_
  storage,             \* external: the size the texture has in OpenGL
  \* DashboardOverlay
  opengl_mode, bounds_configured, raw_in_flight,
  waiting_frame,       \* the placeholder's memory is held
  raw_frame, pending_raw_frame,
  mouse_size,          \* mouse_width_ and mouse_height_
  \* SteamVR
  loading,             \* raw images it has accepted and not completed
  events,              \* events not yet polled
  flipped,             \* texture bounds: TRUE for the OpenGL ones
  scale,               \* mouse scale
  shown,               \* size of the picture on the tab
  upright,             \* turns over with every picture shown the right way up
  active,              \* the Standable page is open
  \* environment
  window,              \* size of the captured window
  failures, changes

loopVars == <<at, g_running, parent, transport_ready>>
glVars == <<gl_ready, gl_size, storage>>
frameVars == <<raw_in_flight, raw_frame, pending_raw_frame, mouse_size>>
modeVars == <<opengl_mode, bounds_configured, waiting_frame>>
steamVars == <<loading, events, flipped, scale, shown, upright>>
envVars == <<active, window, changes>>
vars == <<loopVars, glVars, frameVars, modeVars, steamVars, envVars, failures>>

-----------------------------------------------------------------------------
Frame == [buffer : Buffer, size : Size]
NoFrame == [buffer |-> Waiting, size |-> NoSize]
Completions == {"ImageLoaded", "ImageFailed"}
Image == Frame \cup {NoFrame}

TypeOK ==
  /\ at \in {"connect", "create", "head", "events", "retry", "frame", "exited"}
  /\ g_running \in BOOLEAN /\ parent \in BOOLEAN /\ transport_ready \in BOOLEAN
  /\ gl_ready \in BOOLEAN
  /\ gl_size \in Size \cup {NoSize} /\ storage \in Size \cup {NoSize}
  /\ opengl_mode \in BOOLEAN /\ bounds_configured \in BOOLEAN /\ raw_in_flight \in BOOLEAN
  /\ waiting_frame \in BOOLEAN
  /\ raw_frame \in Image /\ pending_raw_frame \in Image
  /\ mouse_size \in Size \cup {NoSize}
  /\ loading \in Seq(Image)
  /\ events \in Seq(Completions \cup {"Quit", "ProcessQuit"})
  /\ flipped \in BOOLEAN
  /\ scale \in Size \cup {NoSize} /\ shown \in Size \cup {NoSize}
  /\ upright \in BOOLEAN
  /\ active \in BOOLEAN /\ window \in Size
  /\ failures \in 0..MaxFailures /\ changes \in 0..MaxChanges

Init ==
  /\ at = "connect" /\ g_running = TRUE /\ parent = TRUE /\ transport_ready = FALSE
  /\ gl_ready = FALSE /\ gl_size = NoSize /\ storage = NoSize
  /\ opengl_mode = FALSE /\ bounds_configured = FALSE /\ raw_in_flight = FALSE
  /\ waiting_frame = FALSE
  /\ raw_frame = NoFrame /\ pending_raw_frame = NoFrame
  /\ mouse_size = NoSize
  /\ loading = <<>> /\ events = <<>>
  /\ flipped = FALSE /\ scale = NoSize /\ shown = NoSize /\ upright = FALSE
  /\ active = FALSE /\ window \in Size
  /\ failures = 0 /\ changes = 0

-----------------------------------------------------------------------------
(* SteamVR, the launcher and the window.                                   *)

\* A call of SteamVR or OpenGL succeeds, or fails.
Works == UNCHANGED failures
Fails == failures < MaxFailures /\ failures' = failures + 1

\* A picture comes on the tab, right side up when the bounds suit its kind.
Show(size, texture, bounds) ==
  /\ shown' = size
  /\ upright' = IF texture = bounds THEN ~ upright ELSE upright

\* SteamVR has read a raw image, or has given it up.
CompleteRaw ==
  /\ loading # <<>>
  /\ loading' = Tail(loading)
  /\ \/ Works /\ Show(Head(loading).size, FALSE, flipped)
        /\ events' = Append(events, "ImageLoaded")
     \/ Fails /\ UNCHANGED <<shown, upright>>
        /\ events' = Append(events, "ImageFailed")
  /\ UNCHANGED <<loopVars, glVars, frameVars, modeVars, flipped, scale, envVars>>

Changed ==
  /\ at # "exited"
  /\ changes < MaxChanges
  /\ changes' = changes + 1

ResizeWindow ==
  /\ Changed
  /\ window' \in Size \ {window}
  /\ UNCHANGED <<loopVars, glVars, frameVars, modeVars, steamVars, active, failures>>

SwitchPage ==
  /\ Changed
  /\ active' = ~ active
  /\ UNCHANGED <<loopVars, glVars, frameVars, modeVars, steamVars, window, failures>>

\* VREvent_Quit, or VREvent_ProcessQuit of some other SteamVR client.
PostQuit ==
  /\ Changed
  /\ at \notin {"connect", "create"}
  /\ \E quit \in {"Quit", "ProcessQuit"} : events' = Append(events, quit)
  /\ UNCHANGED <<loopVars, glVars, frameVars, modeVars, loading, flipped, scale, shown, upright,
                 active, window, failures>>

\* SIGINT or SIGTERM (handle_signal), or the launcher's end.
Signal ==
  /\ Changed
  /\ \/ g_running /\ g_running' = FALSE /\ UNCHANGED parent
     \/ parent /\ parent' = FALSE /\ UNCHANGED g_running
  /\ UNCHANGED <<at, transport_ready, glVars, frameVars, modeVars, steamVars, active, window,
                 failures>>

-----------------------------------------------------------------------------
(* OpenGlTextureUploader.                                                  *)

\* A ready uploader stays as it is; any other starts over, and may fail.
InitializeTexture ==
  /\ \/ gl_ready /\ UNCHANGED glVars
     \/ /\ ~ gl_ready
        /\ gl_ready' \in BOOLEAN
        /\ gl_size' = NoSize /\ storage' = NoSize
  /\ transport_ready' = gl_ready'

\* A frame of another size gives the texture new storage and its size is
\* recorded whether or not OpenGL had the memory; one of the recorded size is
\* copied into the storage, an error when that has another size.
UploadSucceeds(size) ==
  \/ size = gl_size /\ storage = size /\ UNCHANGED glVars
  \/ size # gl_size /\ gl_size' = size /\ storage' = size /\ UNCHANGED gl_ready

UploadFails(size) ==
  \/ Fails /\ UNCHANGED glVars                  \* no current context, or the copy fails
  \/ size # gl_size /\ Fails                    \* no storage
     /\ gl_size' = size /\ storage' = NoSize /\ UNCHANGED gl_ready
  \/ size = gl_size /\ storage # size /\ Works /\ UNCHANGED glVars

-----------------------------------------------------------------------------
(* DashboardOverlay.                                                       *)

\* mutant: the size is recorded before SteamVR has taken the scale
RecordThenScale(size, ok) ==
  /\ mouse_size' = size
  /\ \/ size = mouse_size /\ ok /\ Works /\ UNCHANGED scale
     \/ size # mouse_size /\ ok /\ Works /\ scale' = size
     \/ size # mouse_size /\ ~ ok /\ Fails /\ UNCHANGED scale

\* The outcome is ok unless SetOverlayMouseScale fails.
UpdateMouseScale(size, ok) ==
  \/ size = mouse_size /\ ok /\ Works /\ UNCHANGED <<mouse_size, scale>>
  \/ size # mouse_size /\ ok /\ Works /\ mouse_size' = size /\ scale' = size
  \/ size # mouse_size /\ ~ ok /\ Fails /\ UNCHANGED <<mouse_size, scale>>

\* SetOverlayTextureBounds, then SetOverlayTexture: the first texture shown ends
\* raw submissions and drops their buffers.  ok is what the function returns.
SubmitTexture(size, ok) ==
  \/ /\ ~ opengl_mode /\ ~ ok /\ Fails
     /\ UNCHANGED <<frameVars, modeVars, steamVars>>
  \/ /\ ~ ok /\ Fails
     /\ bounds_configured' = (bounds_configured \/ ~ opengl_mode)
     /\ flipped' = (flipped \/ ~ opengl_mode)
     /\ UNCHANGED <<frameVars, opengl_mode, waiting_frame, loading, events, scale, shown, upright>>
  \/ /\ opengl_mode' = TRUE
     /\ flipped' = (flipped \/ ~ opengl_mode)
     /\ bounds_configured' = (bounds_configured \/ ~ opengl_mode)
     /\ IF opengl_mode
        THEN UNCHANGED <<raw_in_flight, raw_frame, pending_raw_frame, waiting_frame>>
        ELSE /\ raw_in_flight' = FALSE
             /\ raw_frame' = NoFrame /\ pending_raw_frame' = NoFrame
             /\ waiting_frame' = FALSE
     /\ Show(size, TRUE, flipped')
     /\ UpdateMouseScale(size, ok)
     /\ UNCHANGED <<loading, events>>

\* mutant: a refused image still counts as in flight
RefusedStaysInFlight(frame) ==
  \/ /\ frame = NoFrame
     /\ raw_in_flight' = FALSE
     /\ UNCHANGED <<raw_frame, pending_raw_frame, mouse_size, loading, scale, failures>>
  \/ /\ frame # NoFrame
     /\ raw_in_flight' = TRUE
     /\ raw_frame' = frame /\ pending_raw_frame' = NoFrame
     /\ \/ Fails /\ UNCHANGED <<loading, mouse_size, scale>>
        \/ /\ loading' = Append(loading, frame)
           /\ \E ok \in BOOLEAN : UpdateMouseScale(frame.size, ok)

\* frame is the pending one: it moves to raw_frame_ and stays there while SteamVR
\* reads it.
SubmitPendingRaw(frame) ==
  \/ /\ frame = NoFrame
     /\ raw_in_flight' = FALSE
     /\ UNCHANGED <<raw_frame, pending_raw_frame, mouse_size, loading, scale, failures>>
  \/ /\ frame # NoFrame /\ Fails
     /\ raw_in_flight' = FALSE
     /\ raw_frame' = NoFrame /\ pending_raw_frame' = NoFrame
     /\ UNCHANGED <<mouse_size, loading, scale>>
  \/ /\ frame # NoFrame
     /\ raw_in_flight' = TRUE
     /\ raw_frame' = frame /\ pending_raw_frame' = NoFrame
     /\ loading' = Append(loading, frame)
     /\ \E ok \in BOOLEAN : UpdateMouseScale(frame.size, ok)

\* mutant: a new frame is submitted at once, on top of one still being read
SubmitRawAtOnce(frame) ==
  /\ ~ opengl_mode
  /\ bounds_configured' = FALSE
  /\ flipped' = FALSE
  /\ SubmitPendingRaw(frame)
  /\ UNCHANGED <<opengl_mode, waiting_frame, events, shown, upright>>

SubmitRaw(frame) ==
  \/ /\ opengl_mode
     /\ UNCHANGED <<frameVars, modeVars, steamVars, failures>>
  \/ /\ ~ opengl_mode /\ bounds_configured /\ Fails
     /\ UNCHANGED <<frameVars, modeVars, steamVars>>
  \/ /\ ~ opengl_mode
     /\ bounds_configured' = FALSE
     /\ flipped' = (flipped /\ ~ bounds_configured)
     /\ IF raw_in_flight
        THEN /\ pending_raw_frame' = frame
             /\ UNCHANGED <<raw_in_flight, raw_frame, mouse_size, loading, scale, failures>>
        ELSE SubmitPendingRaw(frame)
     /\ UNCHANGED <<opengl_mode, waiting_frame, events, shown, upright>>

\* mutant: the completed image is not cleared unless another one waits
CompleteOnlyForNext ==
  IF opengl_mode \/ ~ raw_in_flight \/ pending_raw_frame = NoFrame
  THEN UNCHANGED <<frameVars, loading, scale, failures>>
  ELSE SubmitPendingRaw(pending_raw_frame)

CompleteRawSubmission ==
  IF opengl_mode \/ ~ raw_in_flight
  THEN UNCHANGED <<frameVars, loading, scale, failures>>
  ELSE SubmitPendingRaw(pending_raw_frame)

-----------------------------------------------------------------------------
(* run_dashboard.                                                          *)

GoOn == g_running /\ parent

\* Leaving the function destroys the overlay first and frees the frames after it.
Exit ==
  /\ at' = "exited"
  /\ loading' = <<>> /\ events' = <<>>
  /\ raw_frame' = NoFrame /\ pending_raw_frame' = NoFrame /\ waiting_frame' = FALSE
  /\ gl_ready' = FALSE /\ gl_size' = NoSize /\ storage' = NoSize
  /\ UNCHANGED <<g_running, parent, transport_ready, raw_in_flight, mouse_size, opengl_mode,
                 bounds_configured, flipped, scale, shown, upright, envVars>>

\* OpenVrClient.initialize, every two seconds until SteamVR is there.
Connect ==
  /\ at = "connect"
  /\ \/ GoOn /\ at' = "create"
        /\ UNCHANGED <<g_running, parent, transport_ready, glVars, frameVars, modeVars,
                       steamVars, envVars>>
     \/ ~ GoOn /\ Exit
  /\ UNCHANGED failures

\* create() submits the placeholder; a failing call ends the companion.
Create ==
  /\ at = "create"
  /\ \/ /\ Works
        /\ at' = "head"
        /\ waiting_frame' = TRUE /\ raw_in_flight' = TRUE
        /\ loading' = Append(loading, NoFrame)
        /\ InitializeTexture
        /\ UNCHANGED <<g_running, parent, opengl_mode, bounds_configured, raw_frame,
                       pending_raw_frame, mouse_size, events, flipped, scale, shown, upright,
                       envVars>>
     \/ Fails /\ Exit

\* mutant: the loop watches g_running only
LoopHeadSignals ==
  /\ at = "head"
  /\ \/ g_running /\ at' = "events"
        /\ UNCHANGED <<g_running, parent, transport_ready, glVars, frameVars, modeVars,
                       steamVars, envVars>>
     \/ ~ g_running /\ Exit
  /\ UNCHANGED failures

LoopHead ==
  /\ at = "head"
  /\ \/ GoOn /\ at' = "events"
        /\ UNCHANGED <<g_running, parent, transport_ready, glVars, frameVars, modeVars,
                       steamVars, envVars>>
     \/ ~ GoOn /\ Exit
  /\ UNCHANGED failures

\* One round of process_events; it polls until nothing is left.
ProcessEvent ==
  /\ at = "events"
  /\ events # <<>>
  /\ events' = Tail(events)
  /\ \/ /\ Head(events) \in Completions
        /\ CompleteRawSubmission
        /\ UNCHANGED g_running
     \/ /\ Head(events) = "Quit"
        /\ g_running' = FALSE
        /\ UNCHANGED <<frameVars, loading, scale, failures>>
     \/ /\ Head(events) = "ProcessQuit"
        /\ UNCHANGED <<g_running, frameVars, loading, scale, failures>>
  /\ UNCHANGED <<at, parent, transport_ready, glVars, modeVars, flipped, shown, upright, envVars>>

EventsProcessed ==
  /\ at = "events"
  /\ events = <<>>
  /\ at' = "retry"
  /\ UNCHANGED <<g_running, parent, transport_ready, glVars, frameVars, modeVars, steamVars,
                 envVars, failures>>

\* next_texture_retry is five seconds after the previous attempt.
RetryTexture ==
  /\ at = "retry"
  /\ ~ transport_ready
  /\ at' = "frame"
  /\ InitializeTexture
  /\ UNCHANGED <<g_running, parent, frameVars, modeVars, steamVars, envVars, failures>>

NoRetry ==
  /\ at = "retry"
  /\ at' = "frame"
  /\ UNCHANGED <<g_running, parent, transport_ready, glVars, frameVars, modeVars, steamVars,
                 envVars, failures>>

\* mutant: frames use the placeholder's memory when SteamVR is done with it
FreePlaceholder == {Waiting} \ {loading[i].buffer : i \in DOMAIN loading}

\* Memory of no frame held by the companion or read by SteamVR.
Free == Buffer \ ({raw_frame.buffer, pending_raw_frame.buffer}
                    \cup {loading[i].buffer : i \in DOMAIN loading})

\* The page is open, a frame is due and the window gives one.
SubmitFrame ==
  /\ at = "frame"
  /\ active
  /\ Free # {}
  /\ at' = "head"
  /\ LET frame == [buffer |-> CHOOSE b \in Free : TRUE, size |-> window]
     IN  \/ /\ transport_ready
            /\ UploadSucceeds(frame.size)
            /\ \E ok \in BOOLEAN : SubmitTexture(frame.size, ok) /\ transport_ready' = ok
         \/ /\ transport_ready
            /\ UploadFails(frame.size)
            /\ transport_ready' = FALSE
            /\ UNCHANGED <<frameVars, modeVars, steamVars>>
         \/ /\ ~ transport_ready
            /\ SubmitRaw(frame)
            /\ UNCHANGED <<transport_ready, glVars>>
  /\ UNCHANGED <<g_running, parent, envVars>>

NoFrameDue ==
  /\ at = "frame"
  /\ at' = "head"
  /\ UNCHANGED <<g_running, parent, transport_ready, glVars, frameVars, modeVars, steamVars,
                 envVars, failures>>

LoopStep ==
  \/ Connect \/ Create \/ LoopHead \/ ProcessEvent \/ EventsProcessed
  \/ RetryTexture \/ NoRetry \/ SubmitFrame \/ NoFrameDue

EnvironmentStep == ResizeWindow \/ SwitchPage \/ PostQuit \/ Signal

Next == LoopStep \/ CompleteRaw \/ EnvironmentStep

Spec == Init /\ [][Next]_vars

\* The loop's thread runs, SteamVR completes every raw image, the two timers of
\* the loop run out again and again, and the window goes on giving frames.
FairSpec ==
  /\ Spec
  /\ WF_vars(LoopStep)
  /\ WF_vars(CompleteRaw)
  /\ SF_vars(RetryTexture)
  /\ SF_vars(SubmitFrame)

-----------------------------------------------------------------------------
(* Properties.                                                             *)

\* The memory of an image the companion has submitted: the placeholder's, or
\* that of raw_frame_.
Held(image) == IF image = NoFrame THEN waiting_frame ELSE raw_frame = image

\* As long as frames go as raw images, SteamVR never reads memory the companion
\* has freed or filled again: an image it has not completed is still held,
\* whatever frames came meanwhile (submit_raw, complete_raw_submission).
RawBuffersHeld ==
  ~ opengl_mode => \A i \in DOMAIN loading : Held(loading[i])

\* raw_in_flight_ tells exactly whether SteamVR still owes a completion: there
\* is one image it is reading or one completion not yet polled, never two of
\* them.  Too many would be two images at once, too few frames that wait for an
\* event that never comes.
CompletionAt(i) == i \in DOMAIN events /\ events[i] \in Completions
Polling == \E i \in DOMAIN events : CompletionAt(i)
Reading == loading # <<>>

OneRawInFlight ==
  at \notin {"connect", "create", "exited"} /\ ~ opengl_mode =>
    /\ raw_in_flight <=> (Reading \/ Polling)
    /\ ~ (Reading /\ Polling)
    /\ Len(loading) <= 1
    /\ \A i, j \in DOMAIN events : CompletionAt(i) /\ CompletionAt(j) => i = j

\* From some time on nothing stands in the way: the page is open, nobody ends
\* the companion, and the texture does not lack the storage recorded for it
\* (after a failed allocation nothing but a resize of the window helps: the
\* uploader stays ready, so no retry starts it over).
Undisturbed == at # "exited" /\ GoOn /\ active /\ storage = gl_size

\* However calls failed and transports changed before, new pictures go on
\* appearing right side up, by texture or as raw images.
PicturesKeepComing == <>[]Undisturbed => []<><<upright' # upright>>_vars

\* SteamVR scales pointer events by the size of the picture on the tab, again
\* and again, though the picture changes before the scale and setting the
\* scale may fail (update_mouse_scale).
PointerScaleCatchesUp == <>[]Undisturbed => []<>(scale = shown)

\* A quit event of SteamVR, a signal or the end of the launcher ends the
\* companion, whatever it is waiting for.
Told == ~ g_running \/ ~ parent \/ \E i \in DOMAIN events : events[i] = "Quit"

StopsWhenTold == Told ~> at = "exited"

=============================================================================
