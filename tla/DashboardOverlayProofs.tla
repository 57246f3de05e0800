----------------------- MODULE DashboardOverlayProofs -----------------------
(***************************************************************************)
(* Theorems about DashboardOverlay for any memory for frames, any window   *)
(* sizes and any number of failures, resizes and page switches.            *)
(***************************************************************************)
EXTENDS DashboardOverlay, TLAPS

-----------------------------------------------------------------------------
(* Type correctness.                                                       *)

LEMMA MouseScaleType ==
  ASSUME TypeOK, NEW s \in Size, NEW ok \in BOOLEAN, UpdateMouseScale(s, ok)
  PROVE  /\ mouse_size' \in Size \cup {NoSize}
         /\ scale' \in Size \cup {NoSize}
         /\ failures' \in 0..MaxFailures
  BY OverlayAssumption DEF UpdateMouseScale, TypeOK, Works, Fails

LEMMA SubmitTextureType ==
  ASSUME TypeOK, NEW s \in Size, NEW ok \in BOOLEAN, SubmitTexture(s, ok)
  PROVE  /\ opengl_mode' \in BOOLEAN /\ bounds_configured' \in BOOLEAN
         /\ raw_in_flight' \in BOOLEAN /\ waiting_frame' \in BOOLEAN
         /\ raw_frame' \in Image /\ pending_raw_frame' \in Image
         /\ mouse_size' \in Size \cup {NoSize} /\ scale' \in Size \cup {NoSize}
         /\ loading' = loading /\ events' = events
         /\ flipped' \in BOOLEAN /\ shown' \in Size \cup {NoSize} /\ upright' \in BOOLEAN
         /\ failures' \in 0..MaxFailures
<1>1. CASE ~ opengl_mode /\ ~ ok /\ Fails /\ UNCHANGED <<frameVars, modeVars, steamVars>>
  BY <1>1, OverlayAssumption DEF TypeOK, Fails, frameVars, modeVars, steamVars
<1>2. CASE /\ ~ ok /\ Fails
           /\ bounds_configured' = (bounds_configured \/ ~ opengl_mode)
           /\ flipped' = (flipped \/ ~ opengl_mode)
           /\ UNCHANGED <<frameVars, opengl_mode, waiting_frame, loading, events, scale, shown,
                          upright>>
  BY <1>2, OverlayAssumption DEF TypeOK, Fails, frameVars
<1>3. CASE /\ opengl_mode' = TRUE
           /\ flipped' = (flipped \/ ~ opengl_mode)
           /\ bounds_configured' = (bounds_configured \/ ~ opengl_mode)
           /\ IF opengl_mode
              THEN UNCHANGED <<raw_in_flight, raw_frame, pending_raw_frame, waiting_frame>>
              ELSE /\ raw_in_flight' = FALSE
                   /\ raw_frame' = NoFrame /\ pending_raw_frame' = NoFrame
                   /\ waiting_frame' = FALSE
           /\ Show(s, TRUE, flipped')
           /\ UpdateMouseScale(s, ok)
           /\ UNCHANGED <<loading, events>>
  BY <1>3, MouseScaleType DEF TypeOK, Show, Image
<1> QED
  BY <1>1, <1>2, <1>3 DEF SubmitTexture

LEMMA SubmitPendingType ==
  ASSUME TypeOK, NEW f \in Image, SubmitPendingRaw(f)
  PROVE  /\ raw_in_flight' \in BOOLEAN
         /\ raw_frame' \in Image /\ pending_raw_frame' \in Image
         /\ mouse_size' \in Size \cup {NoSize} /\ scale' \in Size \cup {NoSize}
         /\ loading' \in Seq(Image)
         /\ failures' \in 0..MaxFailures
<1>1. CASE f = NoFrame
  BY <1>1, OverlayAssumption DEF SubmitPendingRaw, TypeOK
<1>2. CASE /\ f # NoFrame /\ Fails
           /\ raw_in_flight' = FALSE
           /\ raw_frame' = NoFrame /\ pending_raw_frame' = NoFrame
           /\ UNCHANGED <<mouse_size, loading, scale>>
  <2>1. failures' \in 0..MaxFailures
    BY <1>2, OverlayAssumption DEF TypeOK, Fails
  <2> QED
    BY <1>2, <2>1 DEF TypeOK, Image
<1>3. CASE /\ f # NoFrame
           /\ raw_in_flight' = TRUE
           /\ raw_frame' = f /\ pending_raw_frame' = NoFrame
           /\ loading' = Append(loading, f)
           /\ \E ok \in BOOLEAN : UpdateMouseScale(f.size, ok)
  <2>1. f.size \in Size
    BY <1>3 DEF Image, Frame
  <2> QED
    BY <1>3, <2>1, MouseScaleType DEF TypeOK, Image
<1> QED
  BY <1>1, <1>2, <1>3 DEF SubmitPendingRaw

LEMMA CompleteType ==
  ASSUME TypeOK, CompleteRawSubmission
  PROVE  /\ raw_in_flight' \in BOOLEAN
         /\ raw_frame' \in Image /\ pending_raw_frame' \in Image
         /\ mouse_size' \in Size \cup {NoSize} /\ scale' \in Size \cup {NoSize}
         /\ loading' \in Seq(Image)
         /\ failures' \in 0..MaxFailures
<1>1. pending_raw_frame \in Image
  BY DEF TypeOK
<1> QED
  BY <1>1, SubmitPendingType DEF CompleteRawSubmission, TypeOK, frameVars

LEMMA SubmitRawType ==
  ASSUME TypeOK, NEW f \in Frame, SubmitRaw(f)
  PROVE  /\ opengl_mode' \in BOOLEAN /\ bounds_configured' \in BOOLEAN
         /\ raw_in_flight' \in BOOLEAN /\ waiting_frame' \in BOOLEAN
         /\ raw_frame' \in Image /\ pending_raw_frame' \in Image
         /\ mouse_size' \in Size \cup {NoSize} /\ scale' \in Size \cup {NoSize}
         /\ loading' \in Seq(Image) /\ events' = events
         /\ flipped' \in BOOLEAN /\ shown' = shown /\ upright' = upright
         /\ failures' \in 0..MaxFailures
<1>1. CASE opengl_mode /\ UNCHANGED <<frameVars, modeVars, steamVars, failures>>
  BY <1>1 DEF TypeOK, frameVars, modeVars, steamVars
<1>2. CASE Fails /\ UNCHANGED <<frameVars, modeVars, steamVars>>
  BY <1>2, OverlayAssumption DEF TypeOK, Fails, frameVars, modeVars, steamVars
<1>3. CASE /\ bounds_configured' = FALSE
           /\ flipped' = (flipped /\ ~ bounds_configured)
           /\ IF raw_in_flight
              THEN /\ pending_raw_frame' = f
                   /\ UNCHANGED <<raw_in_flight, raw_frame, mouse_size, loading, scale, failures>>
              ELSE SubmitPendingRaw(f)
           /\ UNCHANGED <<opengl_mode, waiting_frame, events, shown, upright>>
  <2>1. f \in Image
    BY DEF Image
  <2>2. CASE raw_in_flight
    BY <1>3, <2>1, <2>2 DEF TypeOK
  <2>3. CASE ~ raw_in_flight
    BY <1>3, <2>1, <2>3, SubmitPendingType DEF TypeOK
  <2> QED
    BY <2>2, <2>3
<1> QED
  BY <1>1, <1>2, <1>3 DEF SubmitRaw

LEMMA EmptyQueues ==
  <<>> \in Seq(Image) /\ <<>> \in Seq(Completions \cup {"Quit", "ProcessQuit"})
  OBVIOUS

THEOREM TypeInit == Init => TypeOK
<1> SUFFICES ASSUME Init PROVE TypeOK
  OBVIOUS
<1>1. loading \in Seq(Image) /\ events \in Seq(Completions \cup {"Quit", "ProcessQuit"})
  BY EmptyQueues DEF Init
<1>2. failures \in 0..MaxFailures /\ changes \in 0..MaxChanges
  BY OverlayAssumption DEF Init
<1>3. raw_frame \in Image /\ pending_raw_frame \in Image
  BY DEF Init, Image
<1> QED
  BY <1>1, <1>2, <1>3 DEF Init, TypeOK

\* One step per action: the type of everything it changes.
THEOREM TypeStep == TypeOK /\ [Next]_vars => TypeOK'
<1> SUFFICES ASSUME TypeOK, [Next]_vars PROVE TypeOK'
  OBVIOUS
<1> USE OverlayAssumption
<1>1. CASE CompleteRaw
  <2>1. PICK e \in Completions : events' = Append(events, e)
    BY <1>1 DEF CompleteRaw, Completions
  <2>2. events' \in Seq(Completions \cup {"Quit", "ProcessQuit"})
    BY <2>1 DEF TypeOK
  <2>3. loading' \in Seq(Image) /\ Head(loading).size \in Size \cup {NoSize}
    BY <1>1 DEF CompleteRaw, TypeOK, Image, Frame, NoFrame
  <2>4. shown' \in Size \cup {NoSize} /\ upright' \in BOOLEAN
    BY <1>1, <2>3 DEF CompleteRaw, TypeOK, Show
  <2>5. failures' \in 0..MaxFailures
    <3>1. failures' = failures \/ (failures < MaxFailures /\ failures' = failures + 1)
      BY <1>1 DEF CompleteRaw, Works, Fails
    <3> QED
      BY <3>1 DEF TypeOK
  <2> QED
    BY <1>1, <2>2, <2>3, <2>4, <2>5
       DEF CompleteRaw, TypeOK, loopVars, glVars, frameVars, modeVars, envVars
<1>2. CASE ResizeWindow
  BY <1>2 DEF ResizeWindow, Changed, TypeOK, loopVars, glVars, frameVars, modeVars, steamVars
<1>3. CASE SwitchPage
  BY <1>3 DEF SwitchPage, Changed, TypeOK, loopVars, glVars, frameVars, modeVars, steamVars
<1>4. CASE PostQuit
  BY <1>4 DEF PostQuit, Changed, TypeOK, loopVars, glVars, frameVars, modeVars
<1>5. CASE Signal
  <2>1. changes' \in 0..MaxChanges
    BY <1>5 DEF Signal, Changed, TypeOK
  <2>2. g_running' \in BOOLEAN /\ parent' \in BOOLEAN
    BY <1>5 DEF Signal, TypeOK
  <2> QED
    BY <1>5, <2>1, <2>2 DEF Signal, TypeOK, glVars, frameVars, modeVars, steamVars
<1>6. ASSUME Exit, failures' \in 0..MaxFailures PROVE TypeOK'
  <2>1. loading' \in Seq(Image) /\ events' \in Seq(Completions \cup {"Quit", "ProcessQuit"})
    BY <1>6, EmptyQueues DEF Exit
  <2>2. raw_frame' \in Image /\ pending_raw_frame' \in Image
    BY <1>6 DEF Exit, Image
  <2>3. at' = "exited" /\ waiting_frame' = FALSE
        /\ gl_ready' = FALSE /\ gl_size' = NoSize /\ storage' = NoSize
        /\ UNCHANGED <<g_running, parent, transport_ready, raw_in_flight, mouse_size, opengl_mode,
                       bounds_configured, flipped, scale, shown, upright, active, window, changes>>
    BY <1>6 DEF Exit, envVars
  <2>4. failures' \in 0..MaxFailures
    BY <1>6
  <2>5. gl_size' \in Size \cup {NoSize} /\ storage' \in Size \cup {NoSize}
    BY <2>3
  <2>6. at' \in {"connect", "create", "head", "events", "retry", "frame", "exited"}
    BY <2>3
  <2>7. waiting_frame' \in BOOLEAN /\ gl_ready' \in BOOLEAN
    BY <2>3
  <2>8. /\ g_running' \in BOOLEAN /\ parent' \in BOOLEAN /\ transport_ready' \in BOOLEAN
        /\ opengl_mode' \in BOOLEAN /\ bounds_configured' \in BOOLEAN
        /\ raw_in_flight' \in BOOLEAN /\ flipped' \in BOOLEAN /\ upright' \in BOOLEAN
        /\ active' \in BOOLEAN
    BY <2>3, Zenon DEF TypeOK
  <2>9. /\ mouse_size' \in Size \cup {NoSize} /\ scale' \in Size \cup {NoSize}
        /\ shown' \in Size \cup {NoSize} /\ window' \in Size
        /\ changes' \in 0..MaxChanges
    BY <2>3 DEF TypeOK
  <2> QED
    BY <2>1, <2>2, <2>4, <2>5, <2>6, <2>7, <2>8, <2>9 DEF TypeOK
<1>7. CASE Connect
  BY <1>6, <1>7 DEF Connect, TypeOK, glVars, frameVars, modeVars, steamVars, envVars
<1>8. CASE Create
  <2>1. CASE Fails /\ Exit
    BY <1>6, <2>1 DEF Fails, TypeOK
  <2>2. CASE ~ (Fails /\ Exit)
    <3>1. gl_ready' \in BOOLEAN /\ gl_size' \in Size \cup {NoSize}
          /\ storage' \in Size \cup {NoSize} /\ transport_ready' \in BOOLEAN
      BY <1>8, <2>2 DEF Create, InitializeTexture, TypeOK, glVars
    <3>2. loading' \in Seq(Image)
      BY SMTT(30), <1>8, <2>2 DEF Create, TypeOK, Image
    <3> QED
      BY <1>8, <2>2, <3>1, <3>2 DEF Create, TypeOK, Works, envVars
  <2> QED
    BY <2>1, <2>2
<1>9. CASE LoopHead
  BY <1>6, <1>9 DEF LoopHead, TypeOK, glVars, frameVars, modeVars, steamVars, envVars
<1>10. CASE ProcessEvent
  <2>1. /\ raw_in_flight' \in BOOLEAN
        /\ raw_frame' \in Image /\ pending_raw_frame' \in Image
        /\ mouse_size' \in Size \cup {NoSize} /\ scale' \in Size \cup {NoSize}
        /\ loading' \in Seq(Image)
        /\ failures' \in 0..MaxFailures
    BY <1>10, CompleteType DEF ProcessEvent, TypeOK, frameVars
  <2>2. events' \in Seq(Completions \cup {"Quit", "ProcessQuit"})
    BY <1>10 DEF ProcessEvent, TypeOK
  <2>3. g_running' \in BOOLEAN
    BY <1>10 DEF ProcessEvent, TypeOK
  <2> QED
    BY <1>10, <2>1, <2>2, <2>3 DEF ProcessEvent, TypeOK, glVars, modeVars, envVars
<1>11. CASE EventsProcessed \/ NoRetry \/ NoFrameDue
  BY <1>11 DEF EventsProcessed, NoRetry, NoFrameDue, TypeOK, glVars, frameVars, modeVars,
               steamVars, envVars
<1>12. CASE RetryTexture
  BY <1>12 DEF RetryTexture, InitializeTexture, TypeOK, glVars, frameVars, modeVars, steamVars,
               envVars
<1>13. CASE SubmitFrame
  <2> DEFINE frame == [buffer |-> CHOOSE b \in Free : TRUE, size |-> window]
  <2>1. frame \in Frame /\ window \in Size
    BY <1>13 DEF SubmitFrame, Free, Frame, TypeOK
  <2> HIDE DEF frame
  <2>2. frame.size = window
    BY DEF frame
  <2>3. CASE /\ UploadSucceeds(frame.size)
             /\ \E ok \in BOOLEAN : SubmitTexture(frame.size, ok) /\ transport_ready' = ok
    <3>1. PICK ok \in BOOLEAN : SubmitTexture(window, ok) /\ transport_ready' = ok
      BY <2>2, <2>3
    <3>2. gl_ready' \in BOOLEAN /\ gl_size' \in Size \cup {NoSize}
          /\ storage' \in Size \cup {NoSize}
      BY <2>1, <2>2, <2>3 DEF UploadSucceeds, glVars, TypeOK
    <3>3. /\ opengl_mode' \in BOOLEAN /\ bounds_configured' \in BOOLEAN
          /\ raw_in_flight' \in BOOLEAN /\ waiting_frame' \in BOOLEAN
          /\ raw_frame' \in Image /\ pending_raw_frame' \in Image
          /\ mouse_size' \in Size \cup {NoSize} /\ scale' \in Size \cup {NoSize}
          /\ loading' = loading /\ events' = events
          /\ flipped' \in BOOLEAN /\ shown' \in Size \cup {NoSize} /\ upright' \in BOOLEAN
          /\ failures' \in 0..MaxFailures
      BY <2>1, <3>1, SubmitTextureType
    <3> QED
      BY <1>13, <3>1, <3>2, <3>3 DEF SubmitFrame, TypeOK, envVars
  <2>4. CASE /\ UploadFails(frame.size)
             /\ transport_ready' = FALSE
             /\ UNCHANGED <<frameVars, modeVars, steamVars>>
    <3>1. /\ gl_ready' \in BOOLEAN /\ gl_size' \in Size \cup {NoSize}
          /\ storage' \in Size \cup {NoSize} /\ failures' \in 0..MaxFailures
      BY <2>1, <2>2, <2>4 DEF UploadFails, glVars, TypeOK, Works, Fails
    <3> QED
      <4>1. /\ TypeOK
            /\ UNCHANGED <<g_running, parent, envVars, frameVars, modeVars, steamVars>>
            /\ at' = "head"
        BY <1>13, <2>4 DEF SubmitFrame
      <4> QED
        BY ZenonT(40), <2>4, <3>1, <4>1 DEF TypeOK, frameVars, modeVars, steamVars, envVars
  <2>5. CASE SubmitRaw(frame) /\ UNCHANGED <<transport_ready, glVars>>
    <3>1. /\ opengl_mode' \in BOOLEAN /\ bounds_configured' \in BOOLEAN
          /\ raw_in_flight' \in BOOLEAN /\ waiting_frame' \in BOOLEAN
          /\ raw_frame' \in Image /\ pending_raw_frame' \in Image
          /\ mouse_size' \in Size \cup {NoSize} /\ scale' \in Size \cup {NoSize}
          /\ loading' \in Seq(Image) /\ events' = events
          /\ flipped' \in BOOLEAN /\ shown' = shown /\ upright' = upright
          /\ failures' \in 0..MaxFailures
      BY <2>1, <2>5, SubmitRawType
    <3> QED
      BY <1>13, <2>5, <3>1 DEF SubmitFrame, TypeOK, glVars, envVars
  <2> QED
    BY <1>13, <2>3, <2>4, <2>5 DEF SubmitFrame, frame
<1>14. CASE UNCHANGED vars
  BY <1>14 DEF vars, TypeOK, loopVars, glVars, frameVars, modeVars, steamVars, envVars
<1> QED
  BY <1>1, <1>2, <1>3, <1>4, <1>5, <1>7, <1>8, <1>9, <1>10, <1>11, <1>12, <1>13, <1>14
     DEF Next, LoopStep, EnvironmentStep

\* Every reachable state is well typed.
THEOREM TypeCorrect == Spec => []TypeOK
<1> QED
  BY TypeInit, TypeStep, PTL DEF Spec

-----------------------------------------------------------------------------
(* Raw images: one at a time, and their memory held.                       *)

Accounted ==
  /\ raw_in_flight <=> (Reading \/ Polling)
  /\ ~ (Reading /\ Polling)
  /\ Len(loading) <= 1
  /\ \A i, j \in DOMAIN events : CompletionAt(i) /\ CompletionAt(j) => i = j

AllHeld == \A i \in DOMAIN loading : Held(loading[i])

\* SteamVR has nothing of the companion before the overlay is there and after it
\* is destroyed.
Nothing ==
  /\ at \in {"connect", "create"} => loading = <<>> /\ events = <<>>
  /\ at = "exited" => loading = <<>>

IInv == TypeOK /\ OneRawInFlight /\ RawBuffersHeld /\ Nothing

LEMMA InvParts ==
  ASSUME IInv
  PROVE  /\ Nothing
         /\ ~ opengl_mode => AllHeld
         /\ ~ opengl_mode /\ at \notin {"connect", "create", "exited"} => Accounted
  BY DEF IInv, OneRawInFlight, RawBuffersHeld, Accounted, AllHeld

\* With no image read and no completion to poll, the pending frame is the only
\* image of SteamVR afterwards, and raw_frame_ holds it.
LEMMA SubmitPendingHeld ==
  ASSUME NEW f \in Image, SubmitPendingRaw(f), loading = <<>>, ~ Polling'
  PROVE  Accounted' /\ AllHeld'
<1>1. CASE loading' = <<>> /\ raw_in_flight' = FALSE
  BY <1>1 DEF Accounted, AllHeld, Reading, Polling
<1>2. CASE f # NoFrame /\ loading' = Append(loading, f) /\ raw_in_flight' = TRUE /\ raw_frame' = f
  <2>1. loading' = <<f>>
    BY <1>2
  <2>2. Len(loading') = 1 /\ loading' # <<>> /\ DOMAIN loading' = {1} /\ loading'[1] = f
    BY <2>1
  <2>3. AllHeld'
    BY <1>2, <2>2 DEF AllHeld, Held
  <2>4. Accounted'
    BY <1>2, <2>2 DEF Accounted, Reading, Polling
  <2> QED
    BY <2>3, <2>4
<1> QED
  BY <1>1, <1>2 DEF SubmitPendingRaw

\* Nothing that SteamVR has, or that tells what it has, changes.
LEMMA Untouched ==
  ASSUME IInv, UNCHANGED <<loading, events, raw_in_flight, opengl_mode, waiting_frame, raw_frame>>,
         \/ at' = at
         \/ /\ at \notin {"connect", "create", "exited"}
            /\ at' \notin {"connect", "create", "exited"}
         \/ at = "connect" /\ at' = "create"
  PROVE  (OneRawInFlight /\ RawBuffersHeld /\ Nothing)'
  BY DEF IInv, OneRawInFlight, RawBuffersHeld, Nothing, Held, Reading, Polling, CompletionAt

LEMMA ExitHeld ==
  ASSUME Exit
  PROVE  (OneRawInFlight /\ RawBuffersHeld /\ Nothing)'
  BY DEF Exit, OneRawInFlight, RawBuffersHeld, Nothing

\* SteamVR completes the only image: the event takes its place.
LEMMA CompleteRawHeld ==
  ASSUME IInv, CompleteRaw
  PROVE  (OneRawInFlight /\ RawBuffersHeld /\ Nothing)'
<1>1. /\ loading # <<>> /\ loading' = Tail(loading)
      /\ at \notin {"connect", "create", "exited"} /\ at' = at
      /\ UNCHANGED <<opengl_mode, raw_in_flight, waiting_frame, raw_frame>>
  BY DEF CompleteRaw, IInv, Nothing, loopVars, modeVars, frameVars
<1>2. PICK e \in Completions : events' = Append(events, e)
  BY DEF CompleteRaw, Completions
<1>3. CASE opengl_mode
  BY <1>1, <1>3 DEF OneRawInFlight, RawBuffersHeld, Nothing
<1>4. CASE ~ opengl_mode
  <2>1. Accounted /\ Reading /\ ~ Polling /\ raw_in_flight
    BY <1>1, <1>4, InvParts DEF Accounted, Reading
  <2>2. loading' = <<>>
    BY <1>1, <2>1 DEF Accounted, IInv, TypeOK
  <2>3. events \in Seq(Completions \cup {"Quit", "ProcessQuit"})
    BY DEF IInv, TypeOK
  <2>4. \A i \in DOMAIN events : events[i] \notin Completions
    BY <2>1 DEF Polling, CompletionAt
  <2>5. /\ DOMAIN events' = 1..(Len(events) + 1)
        /\ events'[Len(events) + 1] \in Completions
        /\ \A i \in 1..Len(events) : events'[i] \notin Completions
    BY <1>2, <2>3, <2>4
  <2>6. Polling' /\ \A i, j \in DOMAIN events' : CompletionAt(i)' /\ CompletionAt(j)' => i = j
    BY <2>3, <2>5 DEF Polling, CompletionAt
  <2>7. Accounted'
    BY <1>1, <2>1, <2>2, <2>6 DEF Accounted, Reading
  <2> QED
    BY <1>1, <2>2, <2>7 DEF OneRawInFlight, Accounted, RawBuffersHeld, Nothing
<1> QED
  BY <1>3, <1>4

\* Events that are no completions come and go beside the one that is.
LEMMA PostQuitHeld ==
  ASSUME IInv, PostQuit
  PROVE  (OneRawInFlight /\ RawBuffersHeld /\ Nothing)'
<1>1. PICK q \in {"Quit", "ProcessQuit"} : events' = Append(events, q)
  BY DEF PostQuit
<1>2. events \in Seq(Completions \cup {"Quit", "ProcessQuit"}) /\ q \notin Completions
  BY DEF IInv, TypeOK, Completions
<1>3. \A i : (i \in DOMAIN events' /\ events'[i] \in Completions) <=> CompletionAt(i)
  BY <1>1, <1>2 DEF CompletionAt
<1>4. /\ UNCHANGED <<at, loading, raw_in_flight, opengl_mode, waiting_frame, raw_frame>>
      /\ at \notin {"connect", "create", "exited"}
  BY DEF PostQuit, Changed, loopVars, frameVars, modeVars
<1> QED
  BY <1>3, <1>4
     DEF IInv, OneRawInFlight, RawBuffersHeld, Nothing, Held, Reading, Polling, CompletionAt

LEMMA CreateHeld ==
  ASSUME IInv, Create
  PROVE  (OneRawInFlight /\ RawBuffersHeld /\ Nothing)'
<1>1. CASE Exit
  BY <1>1, ExitHeld
<1>2. CASE ~ Exit
  <2>1. /\ loading = <<>> /\ events = <<>> /\ at' = "head"
        /\ waiting_frame' = TRUE /\ raw_in_flight' = TRUE
        /\ loading' = Append(loading, NoFrame) /\ events' = events
    BY <1>2 DEF Create, IInv, Nothing
  <2>2. loading' = <<NoFrame>>
    BY <2>1
  <2>3. Len(loading') = 1 /\ loading' # <<>> /\ DOMAIN loading' = {1} /\ loading'[1] = NoFrame
    BY <2>2
  <2>4. ~ Polling' /\ DOMAIN events' = {}
    BY <2>1 DEF Polling
  <2>5. OneRawInFlight'
    BY <2>1, <2>3, <2>4 DEF OneRawInFlight, Reading
  <2>6. RawBuffersHeld'
    BY <2>1, <2>3 DEF RawBuffersHeld, Held
  <2> QED
    BY <2>1, <2>5, <2>6 DEF Nothing
<1> QED
  BY <1>1, <1>2

\* A polled completion leaves none, so the pending frame may follow; any other
\* event is polled beside it.
LEMMA ProcessEventHeld ==
  ASSUME IInv, ProcessEvent
  PROVE  (OneRawInFlight /\ RawBuffersHeld /\ Nothing)'
<1>1. /\ at = "events" /\ at' = at
      /\ UNCHANGED <<opengl_mode, waiting_frame>>
      /\ events # <<>> /\ events' = Tail(events)
      /\ events \in Seq(Completions \cup {"Quit", "ProcessQuit"})
      /\ pending_raw_frame \in Image
  BY DEF ProcessEvent, modeVars, IInv, TypeOK
<1>2. \A i : i \in DOMAIN events' <=> i \in Nat \ {0} /\ i + 1 \in DOMAIN events
  BY <1>1
<1>3. \A i \in DOMAIN events' : events'[i] = events[i + 1]
  BY <1>1
<1>4. 1 \in DOMAIN events /\ events[1] = Head(events)
  BY <1>1
<1>5. CASE opengl_mode
  BY <1>1, <1>5 DEF OneRawInFlight, RawBuffersHeld, Nothing
<1>6. CASE ~ opengl_mode /\ Head(events) \in Completions
  <2>1. Accounted /\ AllHeld
    BY <1>1, <1>6, InvParts
  <2>2. Polling /\ ~ Reading /\ raw_in_flight
    BY <1>4, <1>6, <2>1 DEF Accounted, Polling, CompletionAt
  <2>3. ~ Polling'
    <3>1. SUFFICES ASSUME NEW i \in DOMAIN events', events'[i] \in Completions PROVE FALSE
      BY DEF Polling, CompletionAt
    <3>2. CompletionAt(i + 1) /\ CompletionAt(1) /\ i + 1 # 1
      BY <1>2, <1>3, <1>4, <1>6, <3>1 DEF CompletionAt
    <3> QED
      BY <2>1, <3>2 DEF Accounted, CompletionAt
  <2>4. SubmitPendingRaw(pending_raw_frame)
    BY <1>6, <2>2 DEF ProcessEvent, CompleteRawSubmission, Completions
  <2>5. Accounted' /\ AllHeld'
    BY <1>1, <2>2, <2>3, <2>4, SubmitPendingHeld DEF Reading
  <2> QED
    BY <1>1, <2>5 DEF OneRawInFlight, Accounted, RawBuffersHeld, AllHeld, Nothing
<1>7. CASE ~ opengl_mode /\ Head(events) \notin Completions
  <2>1. Accounted /\ AllHeld
    BY <1>1, <1>7, InvParts
  <2>2. UNCHANGED <<loading, raw_in_flight, raw_frame>>
    BY <1>7 DEF ProcessEvent, frameVars
  <2>3. \A i : CompletionAt(i)' => CompletionAt(i + 1)
    BY <1>2, <1>3 DEF CompletionAt
  <2>4. Polling => Polling'
    <3>1. SUFFICES ASSUME NEW i \in DOMAIN events, events[i] \in Completions PROVE Polling'
      BY DEF Polling, CompletionAt
    <3>2. i \in Nat /\ i > 1
      BY <1>1, <1>4, <1>7, <3>1
    <3>3. i - 1 \in DOMAIN events' /\ events'[i - 1] = events[i]
      BY <1>1, <1>2, <1>3, <3>1, <3>2
    <3> QED
      BY <3>1, <3>3 DEF Polling, CompletionAt
  <2>5. Polling' => Polling
    BY <2>3 DEF Polling, CompletionAt
  <2>6. \A i, j \in DOMAIN events' : CompletionAt(i)' /\ CompletionAt(j)' => i = j
    <3>1. SUFFICES ASSUME NEW i \in DOMAIN events', NEW j \in DOMAIN events',
                          CompletionAt(i)', CompletionAt(j)'
                   PROVE  i = j
      OBVIOUS
    <3>2. CompletionAt(i + 1) /\ CompletionAt(j + 1) /\ i \in Nat /\ j \in Nat
      BY <1>2, <2>3, <3>1
    <3>3. i + 1 = j + 1
      BY <2>1, <3>2 DEF Accounted, CompletionAt
    <3> QED
      BY <3>2, <3>3
  <2>7. Accounted' /\ AllHeld'
    BY <1>1, <2>1, <2>2, <2>4, <2>5, <2>6 DEF Accounted, AllHeld, Held, Reading
  <2> QED
    BY <1>1, <2>7 DEF OneRawInFlight, Accounted, RawBuffersHeld, AllHeld, Nothing
<1> QED
  BY <1>5, <1>6, <1>7

\* A frame goes to the texture, waits behind the image in flight, or becomes the
\* only one.
LEMMA SubmitFrameHeld ==
  ASSUME IInv, SubmitFrame
  PROVE  (OneRawInFlight /\ RawBuffersHeld /\ Nothing)'
<1> DEFINE frame == [buffer |-> CHOOSE b \in Free : TRUE, size |-> window]
<1>1. frame \in Image /\ at = "frame" /\ at' = "head"
  BY DEF SubmitFrame, Free, Frame, IInv, TypeOK, Image
<1> HIDE DEF frame
<1>2. CASE \E ok \in BOOLEAN : SubmitTexture(frame.size, ok)
  <2>1. \/ opengl_mode'
        \/ UNCHANGED <<loading, events, raw_in_flight, opengl_mode, waiting_frame, raw_frame>>
    BY <1>2 DEF SubmitTexture, frameVars, modeVars, steamVars
  <2> QED
    BY <1>1, <2>1, Untouched DEF OneRawInFlight, RawBuffersHeld, Nothing
<1>3. CASE UNCHANGED <<frameVars, modeVars, steamVars>>
  BY <1>1, <1>3, Untouched DEF frameVars, modeVars, steamVars
<1>4. CASE SubmitRaw(frame)
  <2>1. CASE UNCHANGED <<frameVars, modeVars, steamVars>>
    BY <1>3, <2>1
  <2>2. CASE ~ opengl_mode /\ ~ UNCHANGED <<frameVars, modeVars, steamVars>>
    <3>1. /\ UNCHANGED <<opengl_mode, waiting_frame, events>>
          /\ IF raw_in_flight
             THEN UNCHANGED <<raw_in_flight, raw_frame, loading>>
             ELSE SubmitPendingRaw(frame)
      BY <1>4, <2>2 DEF SubmitRaw
    <3>2. Accounted
      BY <1>1, <2>2, InvParts
    <3>3. CASE raw_in_flight
      BY <1>1, <3>1, <3>3, Untouched
    <3>4. CASE ~ raw_in_flight
      <4>1. loading = <<>> /\ ~ Polling'
        BY <3>1, <3>2, <3>4 DEF Accounted, Reading, Polling, CompletionAt
      <4>2. Accounted' /\ AllHeld'
        BY <1>1, <3>1, <3>4, <4>1, SubmitPendingHeld
      <4> QED
        BY <1>1, <4>2 DEF OneRawInFlight, Accounted, RawBuffersHeld, AllHeld, Nothing
    <3> QED
      BY <3>3, <3>4
  <2> QED
    BY <1>4, <2>1, <2>2 DEF SubmitRaw
<1> QED
  BY <1>2, <1>3, <1>4 DEF SubmitFrame, frame

THEOREM HeldInit == Init => IInv
  BY TypeInit
     DEF Init, IInv, OneRawInFlight, RawBuffersHeld, Nothing

THEOREM HeldStep == IInv /\ [Next]_vars => IInv'
<1> SUFFICES ASSUME IInv, [Next]_vars PROVE IInv'
  OBVIOUS
<1>1. TypeOK'
  BY TypeStep DEF IInv
<1>2. CASE CompleteRaw
  BY <1>1, <1>2, CompleteRawHeld DEF IInv
<1>3. CASE ResizeWindow \/ SwitchPage \/ Signal
  BY <1>1, <1>3, Untouched
     DEF IInv, ResizeWindow, SwitchPage, Signal, loopVars, frameVars, modeVars, steamVars
<1>4. CASE PostQuit
  BY <1>1, <1>4, PostQuitHeld DEF IInv
<1>5. CASE Connect \/ LoopHead
  <2>1. CASE Exit
    BY <1>1, <2>1, ExitHeld DEF IInv
  <2>2. CASE ~ Exit
    BY <1>1, <1>5, <2>2, Untouched DEF IInv, Connect, LoopHead, frameVars, modeVars, steamVars
  <2> QED
    BY <2>1, <2>2
<1>6. CASE Create
  BY <1>1, <1>6, CreateHeld DEF IInv
<1>7. CASE ProcessEvent
  BY <1>1, <1>7, ProcessEventHeld DEF IInv
<1>8. CASE EventsProcessed \/ RetryTexture \/ NoRetry \/ NoFrameDue
  BY <1>1, <1>8, Untouched
     DEF IInv, EventsProcessed, RetryTexture, NoRetry, NoFrameDue, frameVars, modeVars, steamVars
<1>9. CASE SubmitFrame
  BY <1>1, <1>9, SubmitFrameHeld DEF IInv
<1>10. CASE UNCHANGED vars
  BY <1>1, <1>10, Untouched DEF IInv, vars, loopVars, frameVars, modeVars, steamVars
<1> QED
  BY <1>2, <1>3, <1>4, <1>5, <1>6, <1>7, <1>8, <1>9, <1>10 DEF Next, LoopStep, EnvironmentStep

\* While frames go as raw images, SteamVR only reads memory the companion holds
\* for it, whatever frames, failures and events come in between.
THEOREM BuffersHeld == Spec => []RawBuffersHeld
<1>1. IInv => RawBuffersHeld
  BY DEF IInv
<1> QED
  BY <1>1, HeldInit, HeldStep, PTL DEF Spec

\* raw_in_flight_ never forgets an image SteamVR reads and never waits for a
\* completion that is not to come.
THEOREM OneInFlight == Spec => []OneRawInFlight
<1>1. IInv => OneRawInFlight
  BY DEF IInv
<1> QED
  BY <1>1, HeldInit, HeldStep, PTL DEF Spec

=============================================================================
