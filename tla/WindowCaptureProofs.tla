------------------------ MODULE WindowCaptureProofs ------------------------
(***************************************************************************)
(* PixmapOfTarget holds of WindowCapture for any windows, sizes, buttons,  *)
(* probing interval and limits of the search among children, and any       *)
(* number of changes and refused requests.                                 *)
(***************************************************************************)
EXTENDS WindowCapture, TLAPS

-----------------------------------------------------------------------------
(* The inductive invariant.                                                *)

\* A target has a size; every place but the loop and the search for a window has a target; and a
\* window that has been found, or has changed its size, waits without a pixmap for its new one.
Placed ==
  /\ target # NoWindow => source \in 1..Largest
  /\ at \notin {"start", "loop", "find"} => target # NoWindow
  /\ at \in {"find", "name"} => pixmap = NoPixmap /\ ~ force_direct_capture

CInv == TypeOK /\ Placed /\ PixmapOfTarget

-----------------------------------------------------------------------------
(* What the operators of the model change.                                 *)

LEMMA TargetIsWindow ==
  ASSUME TypeOK, target # NoWindow
  PROVE  target \in Window
  BY DEF TypeOK

LEMMA NoPixmapFacts ==
  /\ NoPixmap.window = NoWindow
  /\ \A w \in Window : \A s : [window |-> w, size |-> s] # NoPixmap
  BY CaptureAssumption DEF NoPixmap

\* A redirection that is given back was made.
LEMMA UnredirectedType ==
  ASSUME CInv
  PROVE  Unredirected \in [Window -> Nat]
<1>1. CASE redirected
  <2>1. target \in Window
    BY <1>1, NoPixmapFacts DEF CInv, PixmapOfTarget, TypeOK, Image
  <2>2. redirects[target] - 1 \in Nat
    BY <1>1, <2>1 DEF CInv, PixmapOfTarget, TypeOK
  <2> QED
    BY <1>1, <2>1, <2>2 DEF Unredirected, CInv, TypeOK
<1>2. CASE ~ redirected
  BY <1>2 DEF Unredirected, CInv, TypeOK
<1> QED
  BY <1>1, <1>2

\* Without a pixmap there is nothing to say of redirections.
LEMMA ReleasePixmapEffect ==
  ASSUME CInv, ReleasePixmap
  PROVE  /\ pixmap' = NoPixmap /\ redirected' = FALSE /\ stale' = FALSE
         /\ redirects' \in [Window -> Nat]
         /\ PixmapOfTarget'
  BY UnredirectedType DEF ReleasePixmap, PixmapOfTarget

\* setup_composite_pixmap() goes on to name a pixmap only when direct capture is not forced.
LEMMA SetupPixmapEffect ==
  ASSUME NEW direct \in BOOLEAN, NEW next \in {"loop", "attributes", "image"},
         SetupPixmap(direct, next)
  PROVE  /\ at' \in {"name", next} /\ back' \in {"loop", "attributes", "image"}
         /\ at' = "name" => ~ direct
  BY DEF SetupPixmap

\* What release_target() and the first request of refresh_target() leave.
Targeted ==
  /\ target' \in Window \cup {NoWindow}
  /\ source' \in 0..Largest /\ (target' # NoWindow => source' \in 1..Largest)
  /\ pixmap' \in Image \cup {NoPixmap} /\ redirected' \in BOOLEAN
  /\ redirects' \in [Window -> Nat]
  /\ stale' \in BOOLEAN /\ force_direct_capture' \in BOOLEAN
  /\ pointer' \in [xtest_available : BOOLEAN, prepared : BOOLEAN]
  /\ PixmapOfTarget'

LEMMA ReleaseTargetEffect ==
  ASSUME CInv, ReleaseTarget
  PROVE  Targeted /\ pixmap' = NoPixmap /\ ~ force_direct_capture'
<1>1. ReleasePixmap
  BY DEF ReleaseTarget
<1>2. pointer' \in [xtest_available : BOOLEAN, prepared : BOOLEAN]
  BY DEF ReleaseTarget, CInv, TypeOK
<1>3. 0 \in 0..Largest
  BY CaptureAssumption
<1> QED
  BY <1>1, <1>2, <1>3, ReleasePixmapEffect DEF ReleaseTarget, Targeted

LEMMA StayTargeted ==
  ASSUME CInv, UNCHANGED <<captureVars, pointer>>
  PROVE  Targeted
  BY DEF Targeted, CInv, TypeOK, Placed, PixmapOfTarget, captureVars, targetVars

-----------------------------------------------------------------------------
(* The invariant, action by action.                                        *)

LEMMA AfterType ==
  ASSUME NEW n \in Count
  PROVE  After(n) \in Count
  BY CaptureAssumption DEF After, Count

LEMMA CInvInit == Init => CInv
<1> SUFFICES ASSUME Init PROVE CInv
  OBVIOUS
<1>1. 0 \in 0..MaxChanges /\ 0 \in 0..MaxFailures /\ 0 \in 0..Largest /\ 0 \in Count
  BY CaptureAssumption DEF Count
<1>2. /\ pixmap \in Image \cup {NoPixmap} /\ picture \in Picture
      /\ pointer \in [xtest_available : BOOLEAN, prepared : BOOLEAN]
  BY DEF Init, Picture
<1>3. redirects \in [Window -> Nat] /\ at \in Places /\ target = NoWindow
      /\ back \in {"loop", "attributes", "image"}
      /\ unseen \subseteq Child /\ candidates \subseteq Surface
  BY DEF Init, Places
<1>4. viewable \in [Window -> BOOLEAN] /\ size \in [Window -> 1..Largest]
      /\ visible \in [Window -> SUBSET {"pixmap", "direct"}]
  BY DEF Init
<1>5. TypeOK
  BY <1>1, <1>2, <1>3, <1>4 DEF Init, TypeOK
<1>6. Placed /\ PixmapOfTarget
  BY DEF Init, Placed, PixmapOfTarget
<1> QED
  BY <1>5, <1>6 DEF CInv

\* Windows change what the X server shows of them, and make a pixmap stale.
LEMMA ServerKeeps ==
  ASSUME CInv, ServerStep
  PROVE  CInv'
<1>1. PICK w \in Window : Appear(w) \/ Vanish(w) \/ Resize(w) \/ Repaint(w)
  BY DEF ServerStep
<1>2. Ways(w) \subseteq {"pixmap", "direct"}
  BY DEF Ways
<1>3. Changed
  BY <1>1 DEF Appear, Vanish, Resize, Repaint
<1>4. changes' \in 0..MaxChanges
  BY <1>3, CaptureAssumption DEF Changed, CInv, TypeOK
<1>5. /\ viewable' \in [Window -> BOOLEAN]
      /\ size' \in [Window -> 1..Largest]
      /\ visible' \in [Window -> SUBSET {"pixmap", "direct"}]
      /\ stale' \in BOOLEAN
  <2>0. /\ viewable \in [Window -> BOOLEAN] /\ size \in [Window -> 1..Largest]
        /\ visible \in [Window -> SUBSET {"pixmap", "direct"}] /\ stale \in BOOLEAN
    BY DEF CInv, TypeOK
  <2>1. CASE Appear(w)
    BY <1>2, <2>0, <2>1 DEF Appear, Renewed
  <2>2. CASE Vanish(w)
    BY <2>0, <2>2 DEF Vanish
  <2>3. CASE Resize(w)
    BY <2>0, <2>3 DEF Resize, Renewed
  <2>4. CASE Repaint(w)
    BY <1>2, <2>0, <2>4 DEF Repaint
  <2> QED
    BY <1>1, <2>1, <2>2, <2>3, <2>4
<1>6. TypeOK'
  BY <1>3, <1>4, <1>5 DEF Changed, CInv, TypeOK, targetVars, frameVars, searchVars, pointerVars
<1>7. Placed' /\ PixmapOfTarget'
  BY <1>3 DEF Changed, CInv, Placed, PixmapOfTarget, targetVars
<1> QED
  BY <1>6, <1>7 DEF CInv

LEMMA RefreshKeeps ==
  ASSUME CInv, NEW next \in {"loop", "attributes"}, RefreshTarget(next), at = "loop"
  PROVE  CInv'
<1>1. UNCHANGED <<serverVars, frameVars, searchVars, down, x_button_state, composite_available,
                  failures>>
  BY DEF RefreshTarget
<1>2. CASE at' = next /\ UNCHANGED <<back, captureVars, pointer>> /\ TargetViewable
  <2>1. Targeted /\ target' # NoWindow
    BY <1>2, StayTargeted DEF TargetViewable, captureVars, targetVars
  <2>2. TypeOK'
    BY <1>1, <1>2, <2>1
       DEF Targeted, CInv, TypeOK, Places, serverVars, frameVars, searchVars
  <2> QED
    BY <1>2, <2>1, <2>2 DEF Targeted, CInv, Placed
<1>3. CASE at' = "find" /\ back' = next /\ ReleaseTarget
  <2>1. Targeted /\ pixmap' = NoPixmap /\ ~ force_direct_capture'
    BY <1>3, ReleaseTargetEffect
  <2>2. TypeOK'
    BY <1>1, <1>3, <2>1
       DEF Targeted, CInv, TypeOK, Places, serverVars, frameVars, searchVars
  <2> QED
    BY <1>3, <2>1, <2>2 DEF Targeted, CInv, Placed
<1> QED
  BY <1>2, <1>3 DEF RefreshTarget

\* A window found has no pixmap yet, and direct capture is not forced on it.
LEMMA FindKeeps ==
  ASSUME CInv, FindTarget
  PROVE  CInv'
<1>1. UNCHANGED <<serverVars, pixmap, redirected, force_direct_capture, redirects, stale,
                  frameVars, searchVars, pointerVars, composite_available, failures>>
  BY DEF FindTarget
<1>2. pixmap = NoPixmap /\ ~ force_direct_capture /\ ~ redirected
  BY DEF FindTarget, CInv, Placed, PixmapOfTarget
<1>3. PixmapOfTarget'
  BY <1>1, <1>2 DEF PixmapOfTarget
<1>4. back \in {"loop", "attributes", "image"}
  BY DEF CInv, TypeOK
<1>5. CASE at' = "loop" /\ back' = "loop" /\ UNCHANGED <<target, source>>
  <2>1. TypeOK'
    BY <1>1, <1>5
       DEF CInv, TypeOK, Places, serverVars, frameVars, searchVars, pointerVars
  <2> QED
    BY <1>3, <1>5, <2>1 DEF CInv, Placed
<1>6. ASSUME NEW w \in Top, target' = w, source' = size[w], SetupPixmap(FALSE, back)
      PROVE  CInv'
  <2>1. w \in Window /\ w # NoWindow /\ size[w] \in 1..Largest /\ size[w] \in 0..Largest
    <3>1. w \in Window /\ w # NoWindow
      BY CaptureAssumption DEF Window
    <3>2. size \in [Window -> 1..Largest]
      BY DEF CInv, TypeOK
    <3>3. size[w] \in 1..Largest
      BY <3>1, <3>2
    <3> QED
      BY <3>1, <3>3
  <2>2. at' \in {"name", back} /\ back' \in {"loop", "attributes", "image"}
    BY <1>4, <1>6, SetupPixmapEffect
  <2>3. TypeOK'
    BY <1>1, <1>4, <1>6, <2>1, <2>2
       DEF CInv, TypeOK, Places, serverVars, frameVars, searchVars, pointerVars
  <2> QED
    BY <1>1, <1>2, <1>3, <1>6, <2>1, <2>3 DEF CInv, Placed
<1> QED
  BY <1>5, <1>6 DEF FindTarget

\* The window that gets a pixmap is the one just redirected.
LEMMA NameKeeps ==
  ASSUME CInv, NamePixmap
  PROVE  CInv'
<1>1. UNCHANGED <<serverVars, target, source, force_direct_capture, stale, frameVars, searchVars,
                  pointerVars, composite_available>>
  BY DEF NamePixmap
<1>2. target \in Window /\ target # NoWindow /\ size[target] \in 1..Largest
  BY TargetIsWindow DEF NamePixmap, CInv, Placed, TypeOK
<1>3. pixmap = NoPixmap /\ ~ force_direct_capture /\ redirected = FALSE
  BY DEF NamePixmap, CInv, TypeOK, Placed, PixmapOfTarget
<1>4. redirects' \in [Window -> Nat] /\ redirects'[target] > 0
  BY <1>2 DEF NamePixmap, CInv, TypeOK
<1>5. failures' \in 0..MaxFailures
  BY CaptureAssumption DEF NamePixmap, Works, Fails, CInv, TypeOK
<1>6. at' \in {"loop", "attributes", "image"} /\ back' = "loop"
  BY DEF NamePixmap, CInv, TypeOK
<1>7. pixmap' \in Image \cup {NoPixmap} /\ redirected' \in BOOLEAN /\ PixmapOfTarget'
  <2>1. CASE pixmap' = [window |-> target, size |-> size[target]] /\ redirected' = TRUE
    <3>1. pixmap' \in Image /\ pixmap' # NoPixmap /\ pixmap'.window = target
      BY <1>2, <2>1, NoPixmapFacts DEF Image
    <3>2. target' = target /\ ~ force_direct_capture'
      BY <1>1, <1>3
    <3>3. pixmap'.window = target' /\ redirects'[target'] > 0
      BY <1>4, <3>1, <3>2
    <3> QED
      BY <2>1, <3>1, <3>2, <3>3 DEF PixmapOfTarget
  <2>2. CASE UNCHANGED <<pixmap, redirected>>
    BY <1>1, <1>3, <2>2 DEF PixmapOfTarget
  <2> QED
    BY <2>1, <2>2 DEF NamePixmap
<1>8. TypeOK'
  BY <1>1, <1>4, <1>5, <1>6, <1>7
     DEF CInv, TypeOK, Places, serverVars, frameVars, searchVars, pointerVars
<1> QED
  BY <1>1, <1>2, <1>6, <1>7, <1>8 DEF CInv, Placed

LEMMA AttributesKeep ==
  ASSUME CInv, GetAttributes
  PROVE  CInv'
<1>1. target \in Window /\ target # NoWindow
      /\ size[target] \in 1..Largest /\ size[target] \in 0..Largest
  BY TargetIsWindow, CaptureAssumption DEF GetAttributes, CInv, Placed, TypeOK
<1>2. UNCHANGED <<serverVars, frameVars, searchVars, down, x_button_state, composite_available,
                  failures>>
  BY DEF GetAttributes
<1>3. CASE ReleaseTarget /\ at' = "loop" /\ back' = "loop"
  <2>1. Targeted
    BY <1>3, ReleaseTargetEffect
  <2>2. TypeOK'
    BY <1>2, <1>3, <2>1 DEF Targeted, CInv, TypeOK, Places, serverVars, frameVars, searchVars
  <2> QED
    BY <1>3, <2>1, <2>2 DEF Targeted, CInv, Placed
<1>4. CASE at' = "image" /\ back' = "loop" /\ UNCHANGED <<captureVars, pointer>>
  <2>1. Targeted /\ target' # NoWindow
    BY <1>1, <1>4, StayTargeted DEF captureVars, targetVars
  <2>2. TypeOK'
    BY <1>2, <1>4, <2>1 DEF Targeted, CInv, TypeOK, Places, serverVars, frameVars, searchVars
  <2> QED
    BY <1>4, <2>1, <2>2 DEF Targeted, CInv, Placed
<1>5. CASE /\ source' = size[target] /\ ReleasePixmap
           /\ SetupPixmap(force_direct_capture, "image")
           /\ UNCHANGED <<target, force_direct_capture, pointer>>
  <2>1. /\ pixmap' = NoPixmap /\ redirected' = FALSE /\ stale' = FALSE
        /\ redirects' \in [Window -> Nat] /\ PixmapOfTarget'
    BY <1>5, ReleasePixmapEffect
  <2>2. force_direct_capture \in BOOLEAN
    BY DEF CInv, TypeOK
  <2>3. /\ at' \in {"name", "image"} /\ back' \in {"loop", "attributes", "image"}
        /\ at' = "name" => ~ force_direct_capture
    BY <1>5, <2>2, SetupPixmapEffect
  <2>4. TypeOK'
    BY <1>1, <1>2, <1>5, <2>1, <2>3 DEF CInv, TypeOK, Places, serverVars, frameVars, searchVars
  <2> QED
    BY <1>1, <1>5, <2>1, <2>3, <2>4 DEF CInv, Placed
<1> QED
  BY <1>3, <1>4, <1>5 DEF GetAttributes

LEMMA GiveEffect ==
  ASSUME NEW w \in Window, NEW s \in 1..Largest, NEW live \in BOOLEAN, Give(w, s, live)
  PROVE  picture' \in Picture /\ blank_frame_count' \in Count /\ at' = "loop"
  BY CaptureAssumption DEF Give, Picture, Count

LEMMA PixmapKeeps ==
  ASSUME CInv, ReadPixmap
  PROVE  CInv'
<1>1. target \in Window /\ source \in 1..Largest /\ target # NoWindow
  BY TargetIsWindow DEF ReadPixmap, CInv, Placed
<1>2. UNCHANGED <<back, serverVars, searchVars, pointerVars, composite_available, failures>>
  BY DEF ReadPixmap
<1>3. CASE Give(target, source, ~ stale) /\ UNCHANGED captureVars
  <2>1. picture' \in Picture /\ blank_frame_count' \in Count /\ at' = "loop"
    BY <1>1, <1>3, GiveEffect
  <2>2. TypeOK'
    BY <1>2, <1>3, <2>1
       DEF CInv, TypeOK, Places, serverVars, searchVars, pointerVars, captureVars, targetVars
  <2> QED
    BY <1>3, <2>1, <2>2 DEF CInv, Placed, PixmapOfTarget, captureVars, targetVars
<1>4. CASE /\ at' \in {"unread", "black"} /\ ReleasePixmap /\ force_direct_capture' = TRUE
           /\ UNCHANGED <<target, source, frameVars>>
  <2>1. /\ pixmap' = NoPixmap /\ redirected' = FALSE /\ stale' = FALSE
        /\ redirects' \in [Window -> Nat] /\ PixmapOfTarget'
    BY <1>4, ReleasePixmapEffect
  <2>2. TypeOK'
    BY <1>2, <1>4, <2>1
       DEF CInv, TypeOK, Places, serverVars, searchVars, pointerVars, frameVars
  <2> QED
    BY <1>1, <1>4, <2>1, <2>2 DEF CInv, Placed
<1> QED
  BY <1>3, <1>4 DEF ReadPixmap

LEMMA DirectKeeps ==
  ASSUME CInv, ReadDirect
  PROVE  CInv'
<1>1. target \in Window /\ source \in 1..Largest /\ target # NoWindow
  BY TargetIsWindow DEF ReadDirect, CInv, Placed
<1>2. UNCHANGED <<back, serverVars, captureVars, searchVars, pointerVars, composite_available,
                  failures>>
  BY DEF ReadDirect
<1>3. picture' \in Picture /\ blank_frame_count' \in Count /\ at' \in {"loop", "blank"}
  <2>1. CASE Give(target, source, TRUE)
    BY <1>1, <2>1, GiveEffect
  <2>2. CASE at' \in {"blank", "loop"} /\ UNCHANGED frameVars
    BY <2>2 DEF CInv, TypeOK, frameVars
  <2> QED
    BY <2>1, <2>2 DEF ReadDirect
<1>4. TypeOK'
  BY <1>2, <1>3
     DEF CInv, TypeOK, Places, serverVars, searchVars, pointerVars, captureVars, targetVars
<1> QED
  BY <1>1, <1>2, <1>3, <1>4 DEF CInv, Placed, PixmapOfTarget, captureVars, targetVars

LEMMA BlankKeeps ==
  ASSUME CInv, DiscardBlank
  PROVE  CInv'
<1>1. UNCHANGED <<back, serverVars, captureVars, candidates, picture, pointerVars,
                  composite_available, failures>>
  BY DEF DiscardBlank
<1>2. blank_frame_count' \in Count
  BY AfterType DEF DiscardBlank, CInv, TypeOK
<1>3. unseen' \subseteq Child /\ at' \in {"probe", "loop"}
  BY DEF DiscardBlank, CInv, TypeOK
<1>4. target' # NoWindow
  BY <1>1 DEF DiscardBlank, CInv, Placed, captureVars, targetVars
<1>5. TypeOK'
  BY <1>1, <1>2, <1>3
     DEF CInv, TypeOK, Places, serverVars, captureVars, targetVars, pointerVars
<1> QED
  BY <1>1, <1>3, <1>4, <1>5 DEF CInv, Placed, PixmapOfTarget, captureVars, targetVars

LEMMA LookKeeps ==
  ASSUME CInv, LookAtChild
  PROVE  CInv'
<1>1. UNCHANGED <<at, back, serverVars, captureVars, frameVars, pointerVars, composite_available,
                  failures>>
  BY DEF LookAtChild
<1>2. PICK c \in unseen :
        LET found == IF viewable[c] /\ size[c] >= MinSurface[source]
                     THEN candidates \cup {[window |-> c, size |-> size[c]]} ELSE candidates
        IN  /\ unseen' = unseen \ {c}
            /\ candidates' \in (IF unseen = {c} THEN Kept(found) ELSE {found})
  BY DEF LookAtChild
<1>3. c \in Child /\ size[c] \in 1..Largest
  BY DEF CInv, TypeOK, Window
<1>4. [window |-> c, size |-> size[c]] \in Surface
  BY <1>3 DEF Surface
<1>5. unseen' \subseteq Child /\ candidates' \subseteq Surface
  BY <1>2, <1>4 DEF Kept, CInv, TypeOK
<1>6. TypeOK'
  BY <1>1, <1>5 DEF CInv, TypeOK, serverVars, captureVars, targetVars, frameVars, pointerVars
<1> QED
  BY <1>1, <1>6 DEF CInv, Placed, PixmapOfTarget, captureVars, targetVars

\* A child that shows something becomes the target, and is captured directly.
LEMMA TryKeeps ==
  ASSUME CInv, TrySurface
  PROVE  CInv'
<1>1. UNCHANGED <<back, serverVars, unseen, down, x_button_state, composite_available, failures>>
  BY DEF TrySurface
<1>2. CASE /\ at' \in {at, "loop"} /\ candidates' \subseteq candidates
           /\ UNCHANGED <<captureVars, frameVars, pointer>>
  <2>1. TypeOK'
    BY <1>1, <1>2
       DEF CInv, TypeOK, Places, serverVars, captureVars, targetVars, frameVars
  <2> QED
    BY <1>2, <2>1 DEF CInv, Placed, PixmapOfTarget, captureVars, targetVars
<1>3. ASSUME NEW c \in candidates,
             Give(c.window, c.size, TRUE), target' = c.window, source' = c.size,
             ReleasePixmap, force_direct_capture' = TRUE,
             pointer' = [pointer EXCEPT !.prepared = FALSE], candidates' = {}
      PROVE  CInv'
  <2>0. c \in Surface
    BY DEF CInv, TypeOK
  <2>1. /\ c.window \in Window /\ c.window # NoWindow
        /\ c.size \in 1..Largest /\ c.size \in 0..Largest
    BY <2>0, CaptureAssumption DEF Surface, Window
  <2>2. picture' \in Picture /\ blank_frame_count' \in Count /\ at' = "loop"
    BY <1>3, <2>1, GiveEffect
  <2>3. pointer' \in [xtest_available : BOOLEAN, prepared : BOOLEAN]
    BY <1>3 DEF CInv, TypeOK
  <2>4. /\ pixmap' = NoPixmap /\ redirected' = FALSE /\ stale' = FALSE
        /\ redirects' \in [Window -> Nat] /\ PixmapOfTarget'
    BY <1>3, ReleasePixmapEffect
  <2>5. TypeOK'
    BY <1>1, <1>3, <2>1, <2>2, <2>3, <2>4 DEF CInv, TypeOK, Places, serverVars
  <2> QED
    BY <1>3, <2>1, <2>2, <2>4, <2>5 DEF CInv, Placed
<1>4. ASSUME NEW c \in candidates,
             \/ /\ Give(c.window, c.size, TRUE)
                /\ target' = c.window /\ source' = c.size
                /\ ReleasePixmap
                /\ force_direct_capture' = TRUE
                /\ pointer' = [pointer EXCEPT !.prepared = FALSE]
                /\ candidates' = {}
             \/ /\ candidates' = candidates \ {c}
                /\ UNCHANGED <<at, captureVars, frameVars, pointer>>
      PROVE  CInv'
  BY <1>2, <1>3, <1>4
<1>5. CASE candidates = {} /\ at' = "loop" /\ UNCHANGED <<captureVars, frameVars, candidates, pointer>>
  BY <1>2, <1>5
<1> QED
  BY <1>4, <1>5 DEF TrySurface

\* The pointer's state stays typed although prepare_target_for_input() looks at the target: it is
\* only called when there is one.
LEMMA PointerTypes ==
  ASSUME CInv, NEW p \in [xtest_available : BOOLEAN, prepared : BOOLEAN], NEW ok \in BOOLEAN,
         NEW pressed \in BOOLEAN
  PROVE  /\ Moved(p, ok) \in [xtest_available : BOOLEAN, prepared : BOOLEAN]
         /\ Clicked(p, pressed, ok) \in [xtest_available : BOOLEAN, prepared : BOOLEAN]
<1>1. target # NoWindow => PrepareTarget \in BOOLEAN
  BY TargetIsWindow DEF CInv, TypeOK, PrepareTarget
<1>2. p.prepared \in BOOLEAN
  OBVIOUS
<1>3. target # NoWindow => (p.prepared \/ PrepareTarget) \in BOOLEAN
  BY <1>1, <1>2
<1>4. target # NoWindow => (IF pressed \/ ~ p.prepared THEN PrepareTarget ELSE TRUE) \in BOOLEAN
  BY <1>1
<1> QED
  BY <1>3, <1>4 DEF Moved, Clicked

LEMMA PointerKeeps ==
  ASSUME CInv, PointerStep
  PROVE  CInv'
<1> DEFINE Pointer == [xtest_available : BOOLEAN, prepared : BOOLEAN]
<1>1. UNCHANGED <<at, back, serverVars, captureVars, frameVars, searchVars, composite_available>>
  BY DEF PointerStep, MouseMove, Scroll, MouseButtonDown, MouseButtonUp
<1>2. ASSUME NEW ok \in BOOLEAN, Attempt(ok) PROVE failures' \in 0..MaxFailures
  <2>1. failures \in 0..MaxFailures /\ MaxFailures \in Nat
    BY CaptureAssumption DEF CInv, TypeOK
  <2> QED
    BY <1>2, <2>1 DEF Attempt, Works, Fails
<1>3. pointer \in Pointer /\ down \subseteq Button \cup {Wheel} /\ x_button_state \subseteq Button
  BY DEF CInv, TypeOK
<1>4. /\ failures' \in 0..MaxFailures /\ pointer' \in Pointer
      /\ down' \subseteq Button \cup {Wheel} /\ x_button_state' \subseteq Button
  <2>1. CASE MouseMove
    <3>1. PICK ok \in BOOLEAN : Attempt(ok) /\ pointer' = Moved(pointer, ok)
      BY <2>1 DEF MouseMove
    <3> QED
      BY <1>2, <1>3, <2>1, <3>1, PointerTypes DEF MouseMove
  <2>2. CASE Scroll
    <3>1. PICK pressed, released \in BOOLEAN :
            LET after == Clicked(pointer, TRUE, pressed) IN
            /\ Attempt(pressed /\ released)
            /\ pointer' = Clicked(after, FALSE, released)
            /\ down' = IF Injects(pointer, pressed) /\ ~ released THEN down \cup {Wheel} ELSE down
      BY <2>2 DEF Scroll
    <3>2. Clicked(pointer, TRUE, pressed) \in Pointer
      BY <1>3, PointerTypes
    <3>3. pointer' \in Pointer
      BY <3>1, <3>2, PointerTypes
    <3>4. failures' \in 0..MaxFailures
      BY <1>2, <3>1
    <3> QED
      BY <1>3, <2>2, <3>1, <3>3, <3>4 DEF Scroll
  <2>3. ASSUME NEW b \in Button, MouseButtonDown(b)
        PROVE  /\ failures' \in 0..MaxFailures /\ pointer' \in Pointer
               /\ down' \subseteq Button \cup {Wheel} /\ x_button_state' \subseteq Button
    <3>1. PICK ok \in BOOLEAN :
            /\ Attempt(ok)
            /\ pointer' = Clicked(Moved(pointer, TRUE), TRUE, ok)
            /\ down' = Press(b, Injects(Moved(pointer, TRUE), ok))
      BY <2>3 DEF MouseButtonDown
    <3>2. Moved(pointer, TRUE) \in Pointer
      BY <1>3, PointerTypes
    <3>3. pointer' \in Pointer
      BY <3>1, <3>2, PointerTypes
    <3>4. failures' \in 0..MaxFailures
      BY <1>2, <3>1
    <3> QED
      BY <1>3, <2>3, <3>1, <3>3, <3>4 DEF MouseButtonDown, Press
  <2>4. ASSUME NEW b \in Button, MouseButtonUp(b)
        PROVE  /\ failures' \in 0..MaxFailures /\ pointer' \in Pointer
               /\ down' \subseteq Button \cup {Wheel} /\ x_button_state' \subseteq Button
    <3>1. PICK ok \in BOOLEAN :
            /\ Attempt(ok)
            /\ pointer' = Clicked(Moved(pointer, TRUE), FALSE, ok)
            /\ down' = Release(b, Injects(Moved(pointer, TRUE), ok))
      BY <2>4 DEF MouseButtonUp
    <3>2. Moved(pointer, TRUE) \in Pointer
      BY <1>3, PointerTypes
    <3>3. pointer' \in Pointer
      BY <3>1, <3>2, PointerTypes
    <3>4. failures' \in 0..MaxFailures
      BY <1>2, <3>1
    <3> QED
      BY <1>3, <2>4, <3>1, <3>3, <3>4 DEF MouseButtonUp, Release
  <2> QED
    BY <2>1, <2>2, <2>3, <2>4 DEF PointerStep
<1>5. TypeOK'
  BY <1>1, <1>4 DEF CInv, TypeOK, serverVars, captureVars, targetVars, frameVars, searchVars
<1> QED
  BY <1>1, <1>5 DEF CInv, Placed, PixmapOfTarget, captureVars, targetVars

LEMMA CInvStep == CInv /\ [Next]_vars => CInv'
<1> SUFFICES ASSUME CInv, [Next]_vars PROVE CInv'
  OBVIOUS
<1>1. CASE Initialize
  <2>1. pointer' \in [xtest_available : BOOLEAN, prepared : BOOLEAN]
    BY <1>1 DEF Initialize, CInv, TypeOK
  <2>2. TypeOK'
    BY <1>1, <2>1 DEF Initialize, CInv, TypeOK, Places, serverVars, captureVars, targetVars, frameVars,
                      searchVars
  <2> QED
    BY <1>1, <2>2 DEF Initialize, CInv, Placed, PixmapOfTarget, captureVars, targetVars
<1>2. CASE Search \/ BeginCapture
  BY <1>2, RefreshKeeps DEF Search, BeginCapture
<1>3. CASE CaptureStep
  BY <1>3, FindKeeps, NameKeeps, AttributesKeep, PixmapKeeps, DirectKeeps, BlankKeeps, LookKeeps,
     TryKeeps DEF CaptureStep
<1>4. CASE PointerStep
  BY <1>4, PointerKeeps
<1>5. CASE ServerStep
  BY <1>5, ServerKeeps
<1>6. CASE UNCHANGED vars
  BY <1>6 DEF vars, CInv, TypeOK, Placed, PixmapOfTarget, serverVars, captureVars, targetVars, frameVars,
             searchVars, pointerVars
<1> QED
  BY <1>1, <1>2, <1>3, <1>4, <1>5, <1>6 DEF Next

-----------------------------------------------------------------------------
(* The theorems.                                                           *)

\* The parts hold together in every reachable state.
THEOREM CInvHolds == Spec => []CInv
<1> QED
  BY CInvInit, CInvStep, PTL DEF Spec

\* Every reachable state is well typed; in particular no redirection is given back that was not
\* made, so their number never falls below zero.
THEOREM CaptureTypes == Spec => []TypeOK
<1>1. CInv => TypeOK
  BY DEF CInv
<1> QED
  BY <1>1, CInvHolds, PTL

\* The pixmap in use is the target's, its redirection still stands, and direct capture is not
\* forced, through any order of lost windows, resizes, fallbacks and retargeting.
THEOREM PixmapTargets == Spec => []PixmapOfTarget
<1>1. CInv => PixmapOfTarget
  BY DEF CInv
<1> QED
  BY <1>1, CInvHolds, PTL
=============================================================================
