----------------------------- MODULE HudScreen ------------------------------
(***************************************************************************)
(* The HUD's screen: blanking and unblanking it, the frames in between and *)
(* the lamp behind it (gemini-status.c, gemini-status-gpu.c), on top of    *)
(* the panel driver.  The HUD is one thread, but while it waits for a page *)
(* flip it goes on handling input, so the screen may be switched off, and  *)
(* on again, in the middle of a frame.                                     *)
(*                                                                         *)
(* External (modelled from how the HUD uses it): KMS, which enables the    *)
(* panel when the CRTC becomes active, completes flips and sends events    *)
(* for them; GBM, which hands out the buffers that are not locked;         *)
(* display-unblank.service, which lights the console and starts the HUD,   *)
(* again when it has failed; the backlight, which is lit when it has a     *)
(* brightness and is not powered down.                                     *)
(*                                                                         *)
(* Abstractions.  Time since the screen came on is told apart at 0.8 s and *)
(* at 1.5 s; the debounce of the power key, the noise after blanking and   *)
(* the idle time are flags and choices.  What is drawn, the governors, the *)
(* GPU's runtime PM and brightness levels are left out.                    *)
(*                                                                         *)
(* An operator introduced by "Broken" is a faulty variant of the one after *)
(* it; no definition uses it.                                              *)
(***************************************************************************)
EXTENDS JdiPanel, Naturals

CONSTANTS
  Buffers,  \* the buffers of the GBM surface
  Frames    \* HUD_UNBLANK_FRAMES

None == "none"
Console == "console"
ASSUME ScreenAssumption ==
  /\ {None, Console} \intersect Buffers = {}
  /\ Frames \in Nat \ {0}

VARIABLES
  pc,      \* where the HUD's thread is; "dead": there is none
  hud,     \* its flags
  buf,     \* its buffers
  lamp,    \* the backlight: is it powered, has it a brightness?
  panel,   \* the panel, see JdiPanel
  crtc,    \* the CRTC
  clock,   \* what time has passed
  faults   \* the kinds of fault there have been (history)

vars == <<pc, hud, buf, lamp, panel, crtc, clock, faults>>

BufferOrNone == Buffers \union {None}

TypeOK ==
  /\ pc \in {"dead", "start", "loop", "wait", "after", "skip"}
  /\ hud \in [gl : BOOLEAN,          \* use_gl
              off : BOOLEAN,         \* screen_off
              pend : BOOLEAN,        \* pending_bl
              frames : 0 .. Frames,  \* pending_bl_frames
              set : BOOLEAN,         \* crtc_set
              warm : BOOLEAN]        \* now - t_unblank > 800 ms
  /\ buf \in [cur : BufferOrNone, prev : BufferOrNone,
              free : SUBSET Buffers, fbs : SUBSET Buffers]
  /\ lamp \in [power : BOOLEAN, bright : BOOLEAN]
  /\ panel \in Panels
  /\ crtc \in [active : BOOLEAN, fb : BufferOrNone \union {Console},
               queued : BufferOrNone, event : BOOLEAN]
  /\ clock \in [age : 0 .. 2, key : BOOLEAN, calm : BOOLEAN]
  /\ faults \subseteq {"dcs", "crtc", "flip", "late", "fb", "lock", "inside", "died"}

NoBuffers == [cur |-> None, prev |-> None, free |-> Buffers, fbs |-> {}]
NewHud == [gl |-> FALSE, off |-> FALSE, pend |-> FALSE, frames |-> 0,
           set |-> FALSE, warm |-> FALSE]
LampOn == [power |-> TRUE, bright |-> TRUE]
LampOff == [power |-> FALSE, bright |-> FALSE]

Init ==
  /\ pc = "dead" /\ hud = NewHud /\ buf = NoBuffers
  /\ lamp = LampOff /\ panel = NewPanel
  /\ crtc = [active |-> FALSE, fb |-> None, queued |-> None, event |-> FALSE]
  /\ clock = [age |-> 0, key |-> FALSE, calm |-> FALSE]
  /\ faults = {}
-----------------------------------------------------------------------------
(* What a modeset may do, given the panel p: a record of the panel, the    *)
(* CRTC, whether it succeeded, and the fault if there was one.             *)

Mode(o, c) == [panel |-> o.panel, crtc |-> c, ok |-> TRUE,
               faults |-> IF o.ok THEN {} ELSE {"dcs"}]
ModeFails(p) == [panel |-> p, crtc |-> crtc, ok |-> FALSE, faults |-> {"crtc"}]

(* A flip in flight is completed first.                                    *)
Showing(b) == [active |-> b # None, fb |-> b, queued |-> None,
               event |-> crtc.event \/ crtc.queued # None]

CrtcOn(p, b) ==
  {ModeFails(p)} \union
  {Mode(o, Showing(b)) : o \in IF crtc.active THEN {Outcome(p, TRUE)} ELSE DrmEnable(p)}

(* disable_crtc                                                            *)
CrtcOff(p) ==
  IF ~crtc.active THEN {Mode(Outcome(p, TRUE), crtc)}
  ELSE {ModeFails(p)} \union {Mode(o, Showing(None)) : o \in DrmDisable(p)}

Modeset(m) ==
  /\ panel' = m.panel /\ crtc' = m.crtc

(* hud_gl_blank(1): 0x28 first, while the DSI link is up, then the CRTC.   *)
GlBlank ==
  \E s \in Sleep(panel, crtc.active) : \E m \in CrtcOff(s.panel) :
    /\ Modeset(m)
    /\ faults' = faults \union m.faults \union (IF s.ok THEN {} ELSE {"dcs"})

(* FBIOBLANK                                                               *)
FbBlank == \E m \in CrtcOff(panel) : Modeset(m) /\ faults' = faults \union m.faults

(* Broken: the warm-up goes on. *)
ScreenOffPending ==
  /\ ~hud.off
  /\ hud' = [hud EXCEPT !.off = TRUE, !.set = FALSE]
  /\ lamp' = LampOff
  /\ clock' = [clock EXCEPT !.calm = FALSE]
  /\ IF hud.gl THEN GlBlank ELSE FbBlank

(* set_screen(0)                                                           *)
ScreenOff ==
  /\ ~hud.off
  /\ hud' = [hud EXCEPT !.off = TRUE, !.pend = FALSE, !.set = FALSE]
  /\ lamp' = LampOff
  /\ clock' = [clock EXCEPT !.calm = FALSE]
  /\ IF hud.gl THEN GlBlank ELSE FbBlank

(* Inside a frame, "now" has been read before: the difference to the later *)
(* t_unblank wraps around.                                                 *)
Inside == pc = "wait"
UnblankFaults == IF Inside THEN {"inside"} ELSE {}

(* set_screen(1), hud_gl_blank(0): the last frame is shown again; without  *)
(* GL the lamp is restored at once.                                        *)
ScreenOn ==
  /\ hud.off
  /\ clock' = [clock EXCEPT !.age = 0]
  /\ IF hud.gl /\ buf.prev = None
       THEN /\ hud' = [hud EXCEPT !.off = FALSE, !.pend = TRUE, !.frames = 0,
                                  !.warm = hud.warm \/ Inside]
            /\ faults' = faults \union UnblankFaults
            /\ UNCHANGED <<lamp, panel, crtc>>
       ELSE \E m \in CrtcOn(panel, IF hud.gl THEN buf.prev ELSE Console) :
            /\ Modeset(m)
            /\ faults' = faults \union UnblankFaults \union m.faults
            /\ hud' = [hud EXCEPT !.off = FALSE, !.pend = hud.gl, !.frames = 0,
                                  !.set = hud.gl /\ m.ok,
                                  !.warm = hud.warm \/ Inside]
            /\ lamp' = IF hud.gl THEN lamp ELSE LampOn
-----------------------------------------------------------------------------
(* The service and the HUD's start.                                        *)

Launch ==
  /\ pc = "dead" /\ pc' = "start"
  /\ lamp' = LampOn
  /\ \E m \in CrtcOn(panel, Console) : Modeset(m) /\ faults' = faults \union m.faults
  /\ UNCHANGED <<hud, buf, clock>>

(* main, up to its loop: with GL, or on the framebuffer without it.        *)
Start ==
  /\ pc = "start" /\ pc' = "loop"
  /\ \E gl \in BOOLEAN : hud' = [NewHud EXCEPT !.gl = gl, !.pend = TRUE]
  /\ lamp' = LampOff
  /\ clock' = [age |-> 0, key |-> FALSE, calm |-> FALSE]
  /\ UNCHANGED <<buf, panel, crtc, faults>>

(* The HUD dies; the kernel takes its buffers, and the CRTC if it showed   *)
(* one of them.                                                            *)
Die ==
  /\ pc # "dead" /\ pc' = "dead"
  /\ hud' = NewHud /\ buf' = NoBuffers
  /\ IF crtc.fb \in Buffers
       THEN \E o \in DrmDisable(panel) :
              /\ panel' = o.panel
              /\ crtc' = [active |-> FALSE, fb |-> None, queued |-> None, event |-> FALSE]
              /\ faults' = faults \union {"died"} \union (IF o.ok THEN {} ELSE {"dcs"})
       ELSE /\ crtc' = [crtc EXCEPT !.queued = None, !.event = FALSE]
            /\ faults' = faults \union {"died"}
            /\ UNCHANGED panel
  /\ UNCHANGED <<lamp, clock>>
-----------------------------------------------------------------------------
(* Input, handled between frames and within the wait for a flip.           *)

(* handle_ev, KEY_POWER: pressed too early, it is ignored.                 *)
PowerKey ==
  /\ pc \in {"loop", "wait"} /\ clock.key
  /\ IF hud.off
       THEN ScreenOn
       ELSE ~hud.pend /\ clock.age = 2 /\ ScreenOff
  /\ UNCHANGED <<pc, buf>>

(* A finger wakes the HUD, but not in the noise after blanking.            *)
TouchWake ==
  /\ pc = "loop" /\ hud.off /\ clock.calm
  /\ ScreenOn
  /\ UNCHANGED <<pc, buf>>

(* The brightness is set on the screen, powered or not.                    *)
Slide ==
  /\ pc \in {"loop", "wait"} /\ ~hud.off /\ clock.age = 2
  /\ lamp' = [lamp EXCEPT !.bright = TRUE]
  /\ UNCHANGED <<pc, hud, buf, panel, crtc, clock, faults>>

(* Nobody has touched the home screen for ten minutes.                     *)
IdleOff ==
  /\ pc = "loop" /\ clock.age = 2
  /\ ScreenOff
  /\ UNCHANGED <<pc, buf>>

(* Time passes.                                                            *)
Tick ==
  /\ \/ clock.age < 2 /\ clock' = [clock EXCEPT !.age = @ + 1]
     \/ clock' = [clock EXCEPT !.key = TRUE]
     \/ clock' = [clock EXCEPT !.calm = TRUE]
  /\ UNCHANGED <<pc, hud, buf, lamp, panel, crtc, faults>>

Input == PowerKey \/ TouchWake \/ Slide \/ IdleOff
-----------------------------------------------------------------------------
(* A frame: hud_gl_present, the wait for its flip, and the lamp.           *)

(* Broken: the buffer shown before is not released. *)
PresentedKeeping(b, fbs) ==
  [cur |-> None, prev |-> b, fbs |-> fbs, free |-> buf.free \ {b, None}]

(* The end of hud_gl_present: the buffer shown before is released.         *)
Presented(b, fbs) ==
  [cur |-> None, prev |-> b, fbs |-> fbs,
   free |-> (buf.free \union {buf.prev}) \ {b, None}]

FrameStarts ==
  /\ pc = "loop" /\ ~hud.off
  /\ UNCHANGED <<lamp, clock>>

Warm == hud' = [hud EXCEPT !.warm = clock.age > 0]

(* On the framebuffer, or no buffer can be locked.                         *)
FrameNone ==
  /\ FrameStarts /\ Warm /\ pc' = "after"
  /\ faults' = faults \union (IF hud.gl THEN {"lock"} ELSE {})
  /\ UNCHANGED <<buf, panel, crtc>>

(* drmModeAddFB2 fails: the buffer is never released.                      *)
FrameNoFb ==
  /\ FrameStarts /\ hud.gl /\ Warm /\ pc' = "after"
  /\ \E b \in buf.free \ buf.fbs : buf' = [buf EXCEPT !.cur = b, !.free = @ \ {b}]
  /\ faults' = faults \union {"fb"}
  /\ UNCHANGED <<panel, crtc>>

(* The first frame, and the first after a modeset has failed.              *)
FrameModeset ==
  /\ FrameStarts /\ hud.gl /\ ~hud.set /\ pc' = "after"
  /\ \E b \in buf.free : \E m \in CrtcOn(panel, b) :
       /\ Modeset(m)
       /\ faults' = faults \union m.faults
       /\ hud' = [hud EXCEPT !.warm = clock.age > 0, !.set = m.ok]
       /\ buf' = Presented(b, buf.fbs \union {b})

(* Broken: the wait is left to the next frame. *)
FrameFlipUnwaited ==
  /\ FrameStarts /\ hud.gl /\ hud.set /\ Warm
  /\ crtc.active /\ crtc.queued = None
  /\ pc' = "after"
  /\ \E b \in buf.free :
       /\ buf' = Presented(b, buf.fbs \union {b})
       /\ crtc' = [crtc EXCEPT !.queued = b]
  /\ UNCHANGED <<panel, faults>>

FrameFlip ==
  /\ FrameStarts /\ hud.gl /\ hud.set /\ Warm
  /\ crtc.active /\ crtc.queued = None
  /\ pc' = "wait"
  /\ \E b \in buf.free :
       /\ buf' = [buf EXCEPT !.cur = b, !.free = @ \ {b}, !.fbs = @ \union {b}]
       /\ crtc' = [crtc EXCEPT !.queued = b]
  /\ UNCHANGED <<panel, faults>>

(* drmModePageFlip fails, for one because a flip is in flight.             *)
FrameFlipFails ==
  /\ FrameStarts /\ hud.gl /\ hud.set /\ Warm /\ pc' = "after"
  /\ \E b \in buf.free : buf' = Presented(b, buf.fbs \union {b})
  /\ faults' = faults \union {"flip"}
  /\ UNCHANGED <<panel, crtc>>

(* A turn of the loop with the screen off.                                 *)
FrameSkipped ==
  /\ pc = "loop" /\ hud.off /\ Warm /\ pc' = "skip"
  /\ UNCHANGED <<buf, lamp, panel, crtc, clock, faults>>

Frame == FrameSkipped \/ FrameNone \/ FrameNoFb \/ FrameModeset \/ FrameFlip \/ FrameFlipFails

(* The flip happens at the next vertical blank.                            *)
FlipDone ==
  /\ crtc.queued # None
  /\ crtc' = [crtc EXCEPT !.fb = crtc.queued, !.queued = None, !.event = TRUE]
  /\ UNCHANGED <<pc, hud, buf, lamp, panel, clock, faults>>

(* wait_flip ends with an event, of whatever flip, or after four timeouts. *)
WaitEnds ==
  /\ pc = "wait" /\ pc' = "after"
  /\ crtc' = [crtc EXCEPT !.event = FALSE]
  /\ faults' = faults \union (IF crtc.event THEN {} ELSE {"late"})
  /\ buf' = Presented(buf.cur, buf.fbs)
  /\ UNCHANGED <<hud, lamp, panel, clock>>

Enough == pc = "after" /\ hud.frames + 1 >= Frames

(* Broken: the lamp's power is not switched on again. *)
FrameEndsDark ==
  /\ pc \in {"after", "skip"} /\ pc' = "loop"
  /\ IF hud.pend /\ (Enough \/ hud.warm)
       THEN /\ lamp' = [lamp EXCEPT !.bright = TRUE]
            /\ hud' = [hud EXCEPT !.pend = FALSE, !.frames = 0]
       ELSE /\ hud' = [hud EXCEPT !.frames = IF hud.pend /\ pc = "after" THEN @ + 1 ELSE @]
            /\ UNCHANGED lamp
  /\ UNCHANGED <<buf, panel, crtc, clock, faults>>

(* Broken: the lamp is lit after the first frame. *)
FrameEndsEarly ==
  /\ pc \in {"after", "skip"} /\ pc' = "loop"
  /\ IF hud.pend
       THEN /\ lamp' = LampOn
            /\ hud' = [hud EXCEPT !.pend = FALSE, !.frames = 0]
       ELSE UNCHANGED <<hud, lamp>>
  /\ UNCHANGED <<buf, panel, crtc, clock, faults>>

(* main, after render: restore_backlight after enough frames, or time.     *)
FrameEnds ==
  /\ pc \in {"after", "skip"} /\ pc' = "loop"
  /\ IF hud.pend /\ (Enough \/ hud.warm)
       THEN /\ lamp' = LampOn
            /\ hud' = [hud EXCEPT !.pend = FALSE, !.frames = 0]
       ELSE /\ hud' = [hud EXCEPT !.frames = IF hud.pend /\ pc = "after" THEN @ + 1 ELSE @]
            /\ UNCHANGED lamp
  /\ UNCHANGED <<buf, panel, crtc, clock, faults>>
-----------------------------------------------------------------------------
Next ==
  Launch \/ Start \/ Die \/ Input \/ Tick \/ Frame \/ FlipDone \/ WaitEnds \/ FrameEnds

(* The HUD's loop goes on, and its waits time out.                         *)
Fairness == WF_vars(Start) /\ WF_vars(Frame) /\ WF_vars(WaitEnds) /\ WF_vars(FrameEnds)

Spec == Init /\ [][Next]_vars
FairSpec == Spec /\ Fairness
-----------------------------------------------------------------------------
Lit == lamp.power /\ lamp.bright
Running == pc \in {"loop", "wait", "after", "skip"}

(* A blanked screen is dark: the lamp is off wherever in a frame the HUD   *)
(* was, and, when nothing failed, so is the glass ("Blank really turns the *)
(* glass off (DCS 0x28), not only WLED") and the CRTC.                     *)
BlankIsDark ==
  Running /\ hud.off =>
    /\ ~lamp.power /\ ~lamp.bright
    /\ faults \intersect {"dcs", "crtc"} = {} => ~panel.lit /\ ~crtc.active

(* Whenever the HUD has lit the lamp, there is something to see: an active *)
(* CRTC that shows a frame, and a panel that is on and has its registers   *)
(* written.  Failed modesets, DCS commands and buffers break it.           *)
LampShowsPicture ==
  Running /\ Lit /\ faults \intersect {"dcs", "crtc", "lock", "fb", "flip"} = {} =>
    crtc.active /\ crtc.fb # None /\ panel.lit /\ panel.regs

(* The lamp comes on only with the screen on, and after enough frames or   *)
(* 0.8 s since it came on ("Keep scanning while WLED is still off so DSI   *)
(* HS clock settles before the user can see it"), unless it was switched   *)
(* off and on inside a frame (or the framebuffer is used, which has no     *)
(* warm-up).                                                               *)
LampWaits ==
  [][Running /\ hud.gl /\ ~Lit /\ Lit' /\ "inside" \notin faults =>
       ~hud.off /\ (hud.frames + 1 >= Frames \/ clock.age > 0 \/ ~hud.pend)]_vars

(* EGL never draws into the buffer that is on the screen or about to be,   *)
(* unless a flip timed out or failed, or the screen was switched off and   *)
(* on inside a frame.                                                      *)
ScreenNotFree ==
  faults \intersect {"late", "flip", "crtc", "inside"} = {} =>
    {crtc.fb, crtc.queued} \intersect buf.free = {}

(* Between frames the HUD holds one buffer; the others are free.  None is  *)
(* lost over blanking and unblanking, only when it gets no framebuffer.    *)
BuffersKept ==
  pc = "loop" /\ "fb" \notin faults => Buffers \ {buf.prev} = buf.free

(* A running HUD whose screen is on lights the lamp in the end, whatever   *)
(* fails, or is switched off.                                              *)
LampReturns == Running /\ ~hud.off ~> Lit \/ hud.off \/ pc = "dead"
=============================================================================
