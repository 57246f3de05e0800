---------------------------- MODULE WindowCapture ----------------------------
(***************************************************************************)
(* How the dashboard companion finds Standable's X11 window, captures it   *)
(* and hands it the pointer (dashboard/dashboard_main.cpp,                 *)
(* X11WindowCapture, and the pointer events of                             *)
(* DashboardOverlay::process_events).  A window is captured through the    *)
(* pixmap XComposite names for it, else directly; a black one is searched  *)
(* for a child surface that shows something, which then is the target.     *)
(*                                                                         *)
(* The companion has one thread, but windows come, go, change size and     *)
(* contents between any two requests to the X server whose answers it      *)
(* uses: a size is read, a pixmap named and a picture taken in three steps.*)
(* What becomes of the frames is DashboardOverlay.                         *)
(***************************************************************************)
EXTENDS Naturals, FiniteSets

CONSTANTS
  Top,            \* windows find_standable_window accepts
  Child,          \* surfaces inside them, without a title
  Parent,         \* the window of each child
  Button,         \* buttons of the controller
  Wheel,          \* the button a scroll event presses and releases
  Largest,        \* sizes are 1..Largest
  MinSurface,     \* in a window of each size, the smallest child searched
  MaxSurfaces,    \* the number of children searched, the largest ones
  ProbeEvery,     \* black frames from one search for a child to the next
  MaxChanges,     \* bound: changes of windows
  MaxFailures     \* bound: requests the X server refuses

Window == Top \cup Child
NoWindow == "none"
NoPixmap == [window |-> NoWindow, size |-> 0]

ASSUME CaptureAssumption ==
  /\ Top \cap Child = {}
  /\ NoWindow \notin Window
  /\ Parent \in [Child -> Top]
  /\ Wheel \notin Button
  /\ Largest \in Nat \ {0}
  /\ MinSurface \in [1..Largest -> 1..Largest]
  /\ MaxSurfaces \in Nat \ {0}
  /\ ProbeEvery \in Nat \ {0, 1}
  /\ MaxChanges \in Nat
  /\ MaxFailures \in Nat

VARIABLES
  at,                  \* where the companion's thread is
  back,                \* where it goes on with a target that has been found or set up
  \* X server
  viewable,
  size,
  visible,             \* the ways of capture that show more than black
  redirects,           \* redirections of the window by the companion
  stale,               \* the window has other memory since its pixmap was named
  down,                \* buttons XTEST has pressed and not released
  changes, failures,
  \* X11WindowCapture
  composite_available,
  target, source,      \* target_; source_width_ and source_height_
  pixmap, redirected, force_direct_capture,
  blank_frame_count,
  unseen, candidates,  \* children the search has to look at; those it may capture
  pointer,             \* xtest_available_ and input_target_prepared_
  picture,             \* the last frame capture() gave, live unless from a stale pixmap
  \* DashboardOverlay
  x_button_state

serverVars == <<viewable, size, visible, changes>>
targetVars == <<target, source, pixmap, redirected, force_direct_capture, redirects>>
captureVars == <<targetVars, stale>>
frameVars == <<blank_frame_count, picture>>
searchVars == <<unseen, candidates>>
pointerVars == <<pointer, down, x_button_state>>
vars == <<at, back, serverVars, captureVars, frameVars, searchVars, pointerVars,
          composite_available, failures>>

-----------------------------------------------------------------------------
Ways(w) == IF w \in Child THEN {"direct"} ELSE {"pixmap", "direct"}   \* a child has no pixmap
Image == [window : Window, size : 1..Largest]
NoPicture == [window |-> NoWindow, size |-> 0, live |-> FALSE]
Picture == [window : Window, size : 1..Largest, live : BOOLEAN] \cup {NoPicture}
Places == {"start", "loop", "find", "name", "attributes", "image", "unread", "black", "blank",
           "probe"}
Surface == [window : Child, size : 1..Largest]

\* The counter's values that capture() tells apart: the first black frame, and
\* from then on every ProbeEvery-th.
Count == 0 .. 2 * ProbeEvery
After(count) == IF count = 2 * ProbeEvery THEN ProbeEvery + 1 ELSE count + 1
\* mutant: only the first black frame starts a search
ProbesOnce(count) == count = 1

Probes(count) == count = 1 \/ count % ProbeEvery = 0

TypeOK ==
  /\ at \in Places /\ back \in {"loop", "attributes", "image"}
  /\ viewable \in [Window -> BOOLEAN]
  /\ size \in [Window -> 1..Largest]
  /\ visible \in [Window -> SUBSET {"pixmap", "direct"}]
  /\ redirects \in [Window -> Nat]
  /\ stale \in BOOLEAN
  /\ down \subseteq Button \cup {Wheel}
  /\ changes \in 0..MaxChanges /\ failures \in 0..MaxFailures
  /\ composite_available \in BOOLEAN
  /\ target \in Window \cup {NoWindow} /\ source \in 0..Largest
  /\ pixmap \in Image \cup {NoPixmap}
  /\ redirected \in BOOLEAN /\ force_direct_capture \in BOOLEAN
  /\ blank_frame_count \in Count
  /\ unseen \subseteq Child /\ candidates \subseteq Surface
  /\ pointer \in [xtest_available : BOOLEAN, prepared : BOOLEAN]
  /\ picture \in Picture
  /\ x_button_state \subseteq Button

Init ==
  /\ at = "start" /\ back = "loop"
  /\ viewable \in [Window -> BOOLEAN]
  /\ \A c \in Child : viewable[c] => viewable[Parent[c]]
  /\ size \in [Window -> 1..Largest]
  /\ visible \in [Window -> SUBSET {"pixmap", "direct"}]
  /\ \A w \in Window : visible[w] \subseteq Ways(w)
  /\ \A w \in Window : ~ viewable[w] => size[w] = 1 /\ visible[w] = {}
  /\ redirects = [w \in Window |-> 0]
  /\ stale = FALSE
  /\ down = {}
  /\ changes = 0 /\ failures = 0
  /\ composite_available = FALSE
  /\ target = NoWindow /\ source = 0
  /\ pixmap = NoPixmap /\ redirected = FALSE /\ force_direct_capture = FALSE
  /\ blank_frame_count = 0
  /\ unseen = {} /\ candidates = {}
  /\ pointer = [xtest_available |-> FALSE, prepared |-> FALSE]
  /\ picture = NoPicture
  /\ x_button_state = {}

-----------------------------------------------------------------------------
(* The X server.                                                           *)

Changed ==
  /\ changes < MaxChanges
  /\ changes' = changes + 1
  /\ UNCHANGED <<at, back, targetVars, frameVars, searchVars, pointerVars, composite_available,
                 failures>>

\* The X server gives a window new memory whenever it is mapped or resized: the
\* pixmap named before keeps the old contents.
Renewed(w) == stale' = (stale \/ w = pixmap.window)

\* A child is viewable only inside a viewable window.
Appear(w) ==
  /\ Changed
  /\ ~ viewable[w]
  /\ w \in Child => viewable[Parent[w]]
  /\ viewable' = [viewable EXCEPT ![w] = TRUE]
  /\ \E s \in 1..Largest : size' = [size EXCEPT ![w] = s]
  /\ \E ways \in SUBSET Ways(w) : visible' = [visible EXCEPT ![w] = ways]
  /\ Renewed(w)

\* A window is unmapped or destroyed, and what it contains with it.  An unmapped one keeps its
\* size.
Vanish(w) ==
  LET Gone(v) == v = w \/ (v \in Child /\ Parent[v] = w) IN
  /\ Changed
  /\ viewable[w]
  /\ viewable' = [v \in Window |-> viewable[v] /\ ~ Gone(v)]
  /\ visible' = [v \in Window |-> IF Gone(v) THEN {} ELSE visible[v]]
  /\ stale' = (stale \/ Gone(pixmap.window))
  /\ UNCHANGED size

Resize(w) ==
  /\ Changed
  /\ viewable[w]
  /\ \E s \in (1..Largest) \ {size[w]} : size' = [size EXCEPT ![w] = s]
  /\ Renewed(w)
  /\ UNCHANGED <<viewable, visible>>

Repaint(w) ==
  /\ Changed
  /\ viewable[w]
  /\ \E ways \in (SUBSET Ways(w)) \ {visible[w]} : visible' = [visible EXCEPT ![w] = ways]
  /\ UNCHANGED <<viewable, size, stale>>

Works == UNCHANGED failures
Fails == failures < MaxFailures /\ failures' = failures + 1

-----------------------------------------------------------------------------
(* Target and pixmap.                                                      *)

\* mutant: a redirection is given back whether or not there is one
UnredirectedAlways ==
  IF target # NoWindow THEN [redirects EXCEPT ![target] = @ - 1] ELSE redirects

\* release_pixmap(): what is left of a window's redirections.
Unredirected ==
  IF redirected THEN [redirects EXCEPT ![target] = @ - 1] ELSE redirects

ReleasePixmap ==
  /\ pixmap' = NoPixmap
  /\ redirected' = FALSE
  /\ redirects' = Unredirected
  /\ stale' = FALSE

ReleaseTarget ==
  /\ ReleasePixmap
  /\ target' = NoWindow /\ source' = 0
  /\ force_direct_capture' = FALSE
  /\ pointer' = [pointer EXCEPT !.prepared = FALSE]

\* mutant: a resize goes back to the pixmap though it has been found useless
SetupPixmapAgain(direct, next) ==
  IF composite_available
  THEN at' = "name" /\ back' = next
  ELSE at' = next /\ back' = "loop"

\* setup_composite_pixmap() after the old pixmap is released.
SetupPixmap(direct, next) ==
  IF composite_available /\ ~ direct
  THEN at' = "name" /\ back' = next
  ELSE at' = next /\ back' = "loop"

\* The target is redirected, which gives no answer and stays when no pixmap can be named.  The
\* pixmap has the size of the window now, whatever size has been read of it before.
NamePixmap ==
  /\ at = "name"
  /\ at' = back /\ back' = "loop"
  /\ redirects' = [redirects EXCEPT ![target] = @ + 1]
  /\ \/ /\ viewable[target] /\ Works
        /\ pixmap' = [window |-> target, size |-> size[target]] /\ redirected' = TRUE
     \/ /\ (~ viewable[target] /\ Works) \/ Fails
        /\ UNCHANGED <<pixmap, redirected>>
  /\ UNCHANGED <<serverVars, target, source, force_direct_capture, stale, frameVars, searchVars,
                 pointerVars, composite_available>>

TargetViewable == target # NoWindow /\ viewable[target]

\* The first request of refresh_target(), on behalf of what goes on at next.
RefreshTarget(next) ==
  /\ IF TargetViewable
     THEN at' = next /\ UNCHANGED <<back, captureVars, pointer>>
     ELSE at' = "find" /\ back' = next /\ ReleaseTarget
  /\ UNCHANGED <<serverVars, frameVars, searchVars, down, x_button_state, composite_available,
                 failures>>

\* The rest of it: the best candidate, if any, with the size it had when it was looked at.
FindTarget ==
  /\ at = "find"
  /\ \/ /\ \A w \in Top : ~ viewable[w]
        /\ at' = "loop" /\ back' = "loop"
        /\ UNCHANGED <<target, source>>
     \/ \E w \in Top :
          /\ viewable[w]
          /\ target' = w /\ source' = size[w]
          /\ SetupPixmap(FALSE, back)
  /\ UNCHANGED <<serverVars, pixmap, redirected, force_direct_capture, redirects, stale, frameVars,
                 searchVars, pointerVars, composite_available, failures>>

-----------------------------------------------------------------------------
(* Capture.                                                                *)

\* initialize(), repeated until there is a display.
Initialize ==
  /\ at = "start"
  /\ at' = "loop"
  /\ composite_available' \in BOOLEAN
  /\ \E xtest \in BOOLEAN : pointer' = [pointer EXCEPT !.xtest_available = xtest]
  /\ UNCHANGED <<back, serverVars, captureVars, frameVars, searchVars, down, x_button_state,
                 failures>>

\* Every second, whether or not the page is open.
Search == at = "loop" /\ RefreshTarget("loop")

BeginCapture == at = "loop" /\ RefreshTarget("attributes")

\* A window that has been destroyed has no attributes, an unmapped one has.
GetAttributes ==
  /\ at = "attributes"
  /\ \/ /\ ~ viewable[target]
        /\ ReleaseTarget
        /\ at' = "loop" /\ back' = "loop"
     \/ /\ size[target] = source
        /\ at' = "image" /\ back' = "loop"
        /\ UNCHANGED <<captureVars, pointer>>
     \/ /\ size[target] # source
        /\ source' = size[target]
        /\ ReleasePixmap
        /\ SetupPixmap(force_direct_capture, "image")
        /\ UNCHANGED <<target, force_direct_capture, pointer>>
  /\ UNCHANGED <<serverVars, frameVars, searchVars, down, x_button_state, composite_available,
                 failures>>

\* Reading outside a drawable fails; a stale pixmap holds whatever the window
\* showed before.
PixmapOutcomes ==
  IF source > pixmap.size THEN {"failed"}
  ELSE IF stale THEN {"seen", "black"}
  ELSE {IF "pixmap" \in visible[target] THEN "seen" ELSE "black"}

DirectOutcome(w, s) ==
  CASE ~ viewable[w] \/ s > size[w] -> "failed"
    [] viewable[w] /\ s <= size[w] /\ "direct" \in visible[w] -> "seen"
    [] OTHER -> "black"

\* capture() returns a frame.
Give(w, s, live) ==
  /\ picture' = [window |-> w, size |-> s, live |-> live]
  /\ blank_frame_count' = 0
  /\ at' = "loop"

\* capture() goes on after an outcome; unread when there was no pixmap to begin
\* with or direct capture has failed too.
ReadPixmap ==
  /\ at = "image"
  /\ pixmap # NoPixmap
  /\ \E outcome \in PixmapOutcomes :
       IF outcome = "seen"
       THEN /\ Give(target, source, ~ stale)
            /\ UNCHANGED captureVars
       ELSE /\ at' = IF outcome = "failed" THEN "unread" ELSE "black"
            /\ ReleasePixmap
            /\ force_direct_capture' = TRUE
            /\ UNCHANGED <<target, source, frameVars>>
  /\ UNCHANGED <<back, serverVars, searchVars, pointerVars, composite_available, failures>>

\* Direct capture: the first attempt, or the second one after the pixmap could
\* not be read or was black.
ReadDirect ==
  /\ \/ at = "image" /\ pixmap = NoPixmap
     \/ at \in {"unread", "black"}
  /\ LET outcome == DirectOutcome(target, source)
     IN  \/ outcome = "seen" /\ Give(target, source, TRUE)
         \/ /\ outcome = "black" \/ (outcome = "failed" /\ at = "black")
            /\ at' = "blank" /\ UNCHANGED frameVars
         \/ /\ outcome = "failed" /\ at # "black"
            /\ at' = "loop" /\ UNCHANGED frameVars
  /\ UNCHANGED <<back, serverVars, captureVars, searchVars, pointerVars, composite_available,
                 failures>>

\* Most black frames are dropped; some start probe_child_render_surface().
DiscardBlank ==
  /\ at = "blank"
  /\ blank_frame_count' = After(blank_frame_count)
  /\ IF Probes(After(blank_frame_count))
     THEN at' = "probe" /\ unseen' = {c \in Child : Parent[c] = target}
     ELSE at' = "loop" /\ UNCHANGED unseen
  /\ UNCHANGED <<back, serverVars, captureVars, candidates, picture, pointerVars,
                 composite_available, failures>>

\* The cut of the candidates found: the MaxSurfaces largest, some of those of one size.
Kept(found) ==
  {best \in SUBSET found :
     /\ Cardinality(best) <= MaxSurfaces
     /\ best = found \/ Cardinality(best) = MaxSurfaces
     /\ \A d \in best : \A e \in found \ best : d.size >= e.size}

\* A child's attributes are read long before it is captured.
LookAtChild ==
  /\ at = "probe"
  /\ \E c \in unseen :
       LET found == IF viewable[c] /\ size[c] >= MinSurface[source]
                    THEN candidates \cup {[window |-> c, size |-> size[c]]} ELSE candidates
       IN  /\ unseen' = unseen \ {c}
           /\ candidates' \in (IF unseen = {c} THEN Kept(found) ELSE {found})
  /\ UNCHANGED <<at, back, serverVars, captureVars, frameVars, pointerVars, composite_available,
                 failures>>

\* The candidates are captured from the largest down until one shows something.
TrySurface ==
  /\ at = "probe" /\ unseen = {}
  /\ \/ /\ candidates = {}
        /\ at' = "loop"
        /\ UNCHANGED <<captureVars, frameVars, candidates, pointer>>
     \/ \E c \in candidates :
          /\ \A d \in candidates : d.size <= c.size
          /\ \/ /\ DirectOutcome(c.window, c.size) = "seen"
                /\ Give(c.window, c.size, TRUE)
                /\ target' = c.window /\ source' = c.size
                /\ ReleasePixmap
                /\ force_direct_capture' = TRUE
                /\ pointer' = [pointer EXCEPT !.prepared = FALSE]
                /\ candidates' = {}
             \/ /\ DirectOutcome(c.window, c.size) # "seen"
                /\ candidates' = candidates \ {c}
                /\ UNCHANGED <<at, captureVars, frameVars, pointer>>
  /\ UNCHANGED <<back, serverVars, unseen, down, x_button_state, composite_available, failures>>

-----------------------------------------------------------------------------
(* The pointer.  A request of XTEST fails, or ok says it does not.         *)

Attempt(ok) ==
  IF ok THEN Works ELSE target # NoWindow /\ pointer.xtest_available /\ Fails

\* prepare_target_for_input(): a window that is not viewable cannot be focused.
PrepareTarget == viewable[target]

\* The pointer state after send_mouse_move.
Moved(p, ok) ==
  IF target = NoWindow \/ ~ p.xtest_available THEN p
  ELSE [xtest_available |-> ok, prepared |-> p.prepared \/ PrepareTarget]

\* The pointer state after send_mouse_button.
Clicked(p, pressed, ok) ==
  IF target = NoWindow \/ ~ p.xtest_available THEN p
  ELSE [xtest_available |-> ok,
        prepared |-> IF pressed \/ ~ p.prepared THEN PrepareTarget ELSE TRUE]

\* The buttons the X server holds down after it: without XTEST the window gets
\* a synthetic event that the server itself does not see.
Press(b, injected) == IF injected THEN down \cup {b} ELSE down
Release(b, injected) == IF injected THEN down \ {b} ELSE down
Injects(p, ok) == target # NoWindow /\ p.xtest_available /\ ok

MouseMove ==
  /\ at = "loop"
  /\ \E ok \in BOOLEAN : Attempt(ok) /\ pointer' = Moved(pointer, ok)
  /\ UNCHANGED <<at, back, serverVars, captureVars, frameVars, searchVars, down, x_button_state,
                 composite_available>>

MouseButtonDown(b) ==
  /\ at = "loop"
  /\ b \notin x_button_state
  /\ \E ok \in BOOLEAN :
       LET moved == Moved(pointer, TRUE) IN
       /\ Attempt(ok)
       /\ pointer' = Clicked(moved, TRUE, ok)
       /\ down' = Press(b, Injects(moved, ok))
  /\ x_button_state' = x_button_state \cup {b}
  /\ UNCHANGED <<at, back, serverVars, captureVars, frameVars, searchVars, composite_available>>

MouseButtonUp(b) ==
  /\ at = "loop"
  /\ b \in x_button_state
  /\ \E ok \in BOOLEAN :
       LET moved == Moved(pointer, TRUE) IN
       /\ Attempt(ok)
       /\ pointer' = Clicked(moved, FALSE, ok)
       /\ down' = Release(b, Injects(moved, ok))
  /\ x_button_state' = x_button_state \ {b}
  /\ UNCHANGED <<at, back, serverVars, captureVars, frameVars, searchVars, composite_available>>

\* send_scroll(): the wheel's button is pressed, then released.
Scroll ==
  /\ at = "loop"
  /\ \E pressed, released \in BOOLEAN :
       LET after == Clicked(pointer, TRUE, pressed) IN
       /\ Attempt(pressed /\ released)
       /\ ~ pressed => released
       /\ pointer' = Clicked(after, FALSE, released)
       /\ down' = IF Injects(pointer, pressed) /\ ~ released THEN down \cup {Wheel} ELSE down
  /\ UNCHANGED <<at, back, serverVars, captureVars, frameVars, searchVars, x_button_state,
                 composite_available>>

PointerStep ==
  \/ MouseMove \/ Scroll
  \/ \E b \in Button : MouseButtonDown(b) \/ MouseButtonUp(b)

CaptureStep ==
  \/ FindTarget \/ NamePixmap
  \/ GetAttributes \/ ReadPixmap \/ ReadDirect \/ DiscardBlank
  \/ LookAtChild \/ TrySurface

ServerStep == \E w \in Window : Appear(w) \/ Vanish(w) \/ Resize(w) \/ Repaint(w)

Next == Initialize \/ Search \/ BeginCapture \/ CaptureStep \/ PointerStep \/ ServerStep

Spec == Init /\ [][Next]_vars

\* The display comes up, a capture that has begun goes on, and the page is open
\* often enough for another to begin.
FairSpec ==
  /\ Spec
  /\ WF_vars(Initialize)
  /\ WF_vars(CaptureStep)
  /\ SF_vars(BeginCapture)

-----------------------------------------------------------------------------
(* Properties.                                                             *)

\* The pixmap the companion reads belongs to the window it sends the pointer
\* to, and that window is still redirected: no order of lost windows, resizes,
\* fallbacks and retargeting leaves the pixmap of an earlier target in use, or
\* gives back a redirection that is still needed or was not made.
PixmapOfTarget ==
  /\ redirected <=> pixmap # NoPixmap
  /\ redirected => /\ pixmap.window = target
                   /\ redirects[target] > 0
                   /\ ~ force_direct_capture

\* From some time on there is a window to show: each one that could be the
\* target shows something to direct capture, itself or by a child that is large
\* enough to be among those searched; a child that is the target does so itself;
\* and no pixmap in use is stale (after a resize forth and back, or an unmap and a
\* map, between two captures the companion sees the size it knows and goes on
\* reading the old contents).
Lit(w) == viewable[w] /\ "direct" \in visible[w]
Rivals(c) == {d \in Child : Parent[d] = Parent[c] /\ viewable[d] /\ size[d] >= size[c]}
Searched(c) == size[c] >= MinSurface[size[Parent[c]]] /\ Cardinality(Rivals(c)) <= MaxSurfaces

Showing ==
  /\ \E w \in Top : viewable[w]
  /\ \A w \in Top : viewable[w] => Lit(w) \/ \E c \in Child : Parent[c] = w /\ Lit(c) /\ Searched(c)
  /\ target \in Child => Lit(target)
  /\ ~ stale

\* Then the last frame captured is, for good, the target's own, of its present
\* size and contents, so the pointer is mapped to the surface the tab shows;
\* the way there may go through vanished windows, a window resized between its
\* attributes and its pixmap, failed and black pixmaps, black frames counted for
\* other windows and a search among children that change meanwhile.
PictureFollowsTarget ==
  <>[]Showing =>
    <>[](/\ target # NoWindow
         /\ picture = [window |-> target, size |-> size[target], live |-> TRUE])

\* The X server holds no button down that the controller has released: "SteamVR
\* mouse and scroll events are mapped to the captured surface, then injected
\* through XTEST as genuine X11 pointer events" (docs/ARCHITECTURE.md:17).
ReleasesForwarded == down \subseteq x_button_state

=============================================================================
