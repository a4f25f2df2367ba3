-------------------------- MODULE HudScreenProofs ---------------------------
(***************************************************************************)
(* Theorems of HudScreen for every set of buffers, every number of warm-up *)
(* frames, and any number of deaths of the HUD and of failures.            *)
(***************************************************************************)
EXTENDS HudScreen, TLAPS

NoFault(kinds) == faults \intersect kinds = {}

(* The panel follows the CRTC while nothing fails.                         *)
Good(p, active) ==
  /\ active <=> p.enabled
  /\ p.enabled => p.lit /\ p.inited
  /\ p.lit => p.enabled /\ ~p.asleep
  /\ p.inited => p.regs

PanelInv == NoFault({"dcs", "crtc"}) => Good(panel, crtc.active)

(* The lamp is off while the screen is, and is not about to be lit.        *)
LampInv ==
  /\ lamp.power => lamp.bright
  /\ pc \in {"dead", "start"} => ~hud.off
  /\ hud.off => ~lamp.power /\ ~lamp.bright /\ ~hud.pend
  /\ pc = "skip" => hud.off
  /\ hud.off /\ NoFault({"dcs", "crtc"}) => ~crtc.active

(* What a lamp that is lit, or may be lit after this frame, shows.         *)
PictureInv ==
  /\ crtc.active => crtc.fb # None
  /\ NoFault({"dcs", "crtc", "lock", "fb", "flip"}) =>
       /\ pc = "start" => crtc.active
       /\ Running /\ ~hud.off /\ (lamp.power \/ ~hud.gl \/ pc \in {"wait", "after"}) => crtc.active
       /\ hud.set => buf.prev # None
       /\ pc = "wait" => hud.gl /\ buf.prev # None

(* The buffer that is shown is the HUD's, and the event that is waited for *)
(* is that of the flip.                                                    *)
FlipInv ==
  /\ pc = "wait" => buf.cur # None /\ buf.cur \notin buf.free
  /\ buf.prev \notin buf.free
  /\ NoFault({"late", "flip", "crtc", "inside"}) =>
       /\ crtc.fb \notin buf.free
       /\ pc # "wait" => crtc.queued = None /\ ~crtc.event
       /\ pc = "wait" =>
            \/ crtc.queued = buf.cur /\ ~crtc.event
            \/ crtc.queued = None /\ crtc.event /\ crtc.fb \in {buf.cur, None}

BufInv ==
  "fb" \notin faults =>
    IF pc = "wait" THEN buf.free = Buffers \ {buf.cur, buf.prev} ELSE buf.free = Buffers \ {buf.prev}

(* What the frame knows of the time since the screen came on.              *)
WarmInv ==
  "inside" \notin faults /\ pc \in {"wait", "after", "skip"} => (hud.warm => clock.age > 0)

IInv == TypeOK /\ PanelInv /\ LampInv /\ PictureInv /\ FlipInv /\ BufInv /\ WarmInv
-----------------------------------------------------------------------------
(* The panel's callbacks.                                                  *)
Outcomes == [panel : Panels, ok : BOOLEAN]

LEMMA DisplayOnIs ==
  ASSUME NEW p \in Panels, NEW o \in DisplayOn(p)
  PROVE  /\ o \in Outcomes
         /\ o.panel.inited = p.inited /\ o.panel.enabled = p.enabled /\ o.panel.regs = p.regs
         /\ o.ok => o.panel.lit /\ ~o.panel.asleep
<1>1. PICK l \in BOOLEAN, k \in BOOLEAN :
        (k => l) /\ o = Outcome([p EXCEPT !.asleep = FALSE, !.lit = l], k)
  BY DEF DisplayOn, Panels
<1> DEFINE q == [p EXCEPT !.asleep = FALSE, !.lit = l]
<1>2. /\ q \in Panels /\ q.lit = l /\ q.asleep = FALSE
      /\ q.inited = p.inited /\ q.enabled = p.enabled /\ q.regs = p.regs
  BY DEF Panels
<1>3. o = Outcome(q, k)
  BY <1>1
<1> HIDE DEF q
<1>4. o.panel = q /\ o.ok = k /\ o \in Outcomes
  BY <1>2, <1>3 DEF Outcome, Outcomes
<1>5. QED
  BY <1>1, <1>2, <1>4

LEMMA DisplayOffIs ==
  ASSUME NEW p \in Panels, NEW o \in DisplayOff(p)
  PROVE  /\ o \in Outcomes
         /\ o.panel.inited = p.inited /\ o.panel.enabled = p.enabled /\ o.panel.regs = p.regs
         /\ o.ok => ~o.panel.lit
<1>1. PICK l \in BOOLEAN, k \in BOOLEAN :
        (k => ~l) /\ o = Outcome([p EXCEPT !.asleep = TRUE, !.lit = l], k)
  BY DEF DisplayOff, Panels
<1> DEFINE q == [p EXCEPT !.asleep = TRUE, !.lit = l]
<1>2. /\ q \in Panels /\ q.lit = l /\ q.asleep = TRUE
      /\ q.inited = p.inited /\ q.enabled = p.enabled /\ q.regs = p.regs
  BY DEF Panels
<1>3. o = Outcome(q, k)
  BY <1>1
<1> HIDE DEF q
<1>4. o.panel = q /\ o.ok = k /\ o \in Outcomes
  BY <1>2, <1>3 DEF Outcome, Outcomes
<1>5. QED
  BY <1>1, <1>2, <1>4

LEMMA EnableIs ==
  ASSUME NEW p \in Panels, NEW o \in Enable(p)
  PROVE  /\ o \in Outcomes
         /\ o.panel.enabled = p.enabled
         /\ o.ok => /\ o.panel.lit /\ ~o.panel.asleep /\ o.panel.inited
                    /\ (p.inited => p.regs) => o.panel.regs
<1> DEFINE reset == [p EXCEPT !.inited = TRUE, !.regs = FALSE, !.lit = FALSE]
           written == [reset EXCEPT !.regs = TRUE]
<1>1. /\ reset \in Panels /\ reset.enabled = p.enabled
      /\ written \in Panels /\ written.enabled = p.enabled /\ written.inited /\ written.regs
  BY DEF Panels
<1>2. CASE p.inited
  BY <1>2, DisplayOnIs DEF Enable
<1>3. CASE ~p.inited
  <2>1. o = Outcome(reset, FALSE) \/ o \in DisplayOn(written)
    BY <1>3 DEF Enable, EnableFirst
  <2>2. CASE o = Outcome(reset, FALSE)
    <3> HIDE DEF reset
    <3>1. QED
      BY <1>1, <2>2 DEF Outcome, Outcomes
  <2>3. CASE o \in DisplayOn(written)
    <3> HIDE DEF written
    <3>1. QED
      BY <1>1, <2>3, DisplayOnIs
  <2>4. QED
    BY <2>1, <2>2, <2>3
<1>4. QED
  BY <1>2, <1>3

LEMMA DrmEnableIs ==
  ASSUME NEW p \in Panels, ~p.enabled, NEW o \in DrmEnable(p)
  PROVE  /\ o \in Outcomes
         /\ o.ok => /\ o.panel.enabled /\ o.panel.lit /\ ~o.panel.asleep /\ o.panel.inited
                    /\ (p.inited => p.regs) => o.panel.regs
<1>1. PICK e \in Enable(p) : o = Outcome([e.panel EXCEPT !.enabled = e.ok], e.ok)
  BY DEF DrmEnable
<1>2. e \in Outcomes
  BY EnableIs
<1>3. QED
  BY <1>1, <1>2, EnableIs DEF Outcome, Outcomes, Panels

LEMMA DrmDisableIs ==
  ASSUME NEW p \in Panels, NEW o \in DrmDisable(p)
  PROVE  /\ o \in Outcomes
         /\ o.ok => ~o.panel.enabled /\ o.panel.inited = p.inited /\ o.panel.regs = p.regs
         /\ o.ok /\ (p.lit => p.enabled) => ~o.panel.lit
<1>1. CASE ~p.enabled
  <2>1. o = Outcome(p, TRUE)
    BY <1>1 DEF DrmDisable
  <2>2. o.panel = p /\ o \in Outcomes
    BY <2>1 DEF Outcome, Outcomes
  <2>3. QED
    BY <1>1, <2>2
<1>2. CASE p.enabled
  <2>1. PICK e \in DisplayOff(p) : o = Outcome([e.panel EXCEPT !.enabled = ~e.ok], e.ok)
    BY <1>2 DEF DrmDisable, Disable
  <2>2. e \in Outcomes
    BY DisplayOffIs
  <2>3. QED
    BY <2>1, <2>2, DisplayOffIs DEF Outcome, Outcomes, Panels
<1>3. QED
  BY <1>1, <1>2

LEMMA SleepIs ==
  ASSUME NEW p \in Panels, NEW on \in BOOLEAN, NEW o \in Sleep(p, on)
  PROVE  /\ o \in Outcomes
         /\ o.panel.enabled = p.enabled /\ o.panel.inited = p.inited /\ o.panel.regs = p.regs
         /\ o.ok /\ (p.lit => ~p.asleep) => ~o.panel.lit
<1>1. CASE p.asleep
  <2>1. o = Outcome(p, TRUE)
    BY <1>1 DEF Sleep
  <2>2. o.panel = p /\ o \in Outcomes
    BY <2>1 DEF Outcome, Outcomes
  <2>3. QED
    BY <1>1, <2>2
<1>2. CASE ~p.asleep /\ on
  BY <1>2, DisplayOffIs DEF Sleep
<1>3. CASE ~p.asleep /\ ~on
  <2> DEFINE q == [p EXCEPT !.asleep = TRUE]
  <2>1. o = Outcome(q, FALSE)
    BY <1>3 DEF Sleep
  <2>2. /\ q \in Panels /\ q.enabled = p.enabled /\ q.inited = p.inited
        /\ q.regs = p.regs
    BY DEF Panels
  <2> HIDE DEF q
  <2>3. o.panel = q /\ o.ok = FALSE /\ o \in Outcomes
    BY <2>1, <2>2 DEF Outcome, Outcomes
  <2>4. QED
    BY <2>2, <2>3
<1>4. QED
  BY <1>1, <1>2, <1>3
-----------------------------------------------------------------------------
(* Modesets.                                                               *)
Fbs == Buffers \union {None, Console}
Huds == [gl : BOOLEAN, off : BOOLEAN, pend : BOOLEAN, frames : 0 .. Frames,
         set : BOOLEAN, warm : BOOLEAN]
Bufs == [cur : BufferOrNone, prev : BufferOrNone, free : SUBSET Buffers, fbs : SUBSET Buffers]
Lamps == [power : BOOLEAN, bright : BOOLEAN]
Crtcs == [active : BOOLEAN, fb : Fbs, queued : BufferOrNone, event : BOOLEAN]
Clocks == [age : 0 .. 2, key : BOOLEAN, calm : BOOLEAN]
Kinds == {"dcs", "crtc", "flip", "late", "fb", "lock", "inside", "died"}
Pcs == {"dead", "start", "loop", "wait", "after", "skip"}

LEMMA Types ==
  TypeOK <=> /\ pc \in Pcs /\ hud \in Huds /\ buf \in Bufs /\ lamp \in Lamps
             /\ panel \in Panels /\ crtc \in Crtcs /\ clock \in Clocks
             /\ faults \subseteq Kinds
<1>1. BufferOrNone \union {Console} = Fbs
  BY DEF BufferOrNone, Fbs
<1>2. QED
  BY <1>1 DEF TypeOK, Pcs, Huds, Bufs, Lamps, Crtcs, Clocks, Kinds

LEMMA TypesNext ==
  TypeOK' <=> /\ pc' \in Pcs /\ hud' \in Huds /\ buf' \in Bufs /\ lamp' \in Lamps
              /\ panel' \in Panels /\ crtc' \in Crtcs /\ clock' \in Clocks
              /\ faults' \subseteq Kinds
<1>1. (TypeOK <=> /\ pc \in Pcs /\ hud \in Huds /\ buf \in Bufs /\ lamp \in Lamps
                  /\ panel \in Panels /\ crtc \in Crtcs /\ clock \in Clocks
                  /\ faults \subseteq Kinds)'
  BY Types, PTL
<1>2. QED
  BY <1>1 DEF Pcs, Huds, Bufs, Lamps, Crtcs, Clocks, Kinds, Fbs, BufferOrNone

LEMMA Apart == None \notin Buffers /\ Console \notin Buffers /\ None # Console
  BY ScreenAssumption DEF None, Console

LEMMA ShowingIs ==
  ASSUME crtc \in Crtcs, NEW b \in Fbs
  PROVE  /\ Showing(b) \in Crtcs
         /\ Showing(b).active <=> b # None
         /\ Showing(b).fb = b /\ Showing(b).queued = None
         /\ Showing(b).event <=> (crtc.event \/ crtc.queued # None)
<1> DEFINE act == b # None
           ev == crtc.event \/ crtc.queued # None
<1>1. act \in BOOLEAN /\ ev \in BOOLEAN
  OBVIOUS
<1>2. Showing(b) = [active |-> act, fb |-> b, queued |-> None, event |-> ev]
  BY DEF Showing
<1>3. /\ Showing(b).active = act /\ Showing(b).event = ev
      /\ Showing(b).fb = b /\ Showing(b).queued = None
  <2> HIDE DEF act, ev
  <2>1. QED
    BY <1>1, <1>2
<1>4. Showing(b) \in Crtcs
  <2> HIDE DEF act, ev
  <2>1. QED
    BY <1>1, <1>2 DEF Crtcs, BufferOrNone
<1>5. QED
  BY <1>3, <1>4, Zenon

LEMMA CrtcOnIs ==
  ASSUME crtc \in Crtcs, NEW p \in Panels, NEW b \in Fbs, b # None, NEW m \in CrtcOn(p, b)
  PROVE  /\ m.panel \in Panels /\ m.crtc \in Crtcs /\ m.ok \in BOOLEAN
         /\ m.faults \subseteq {"dcs", "crtc"}
         /\ "crtc" \notin m.faults => m.ok /\ m.crtc = Showing(b)
         /\ m.crtc = crtc \/ m.crtc = Showing(b)
         /\ m.ok => m.crtc = Showing(b)
         /\ m.faults = {} /\ Good(p, crtc.active) => Good(m.panel, m.crtc.active)
<1>1. CASE m = ModeFails(p)
  <2>1. m.panel = p /\ m.crtc = crtc /\ m.ok = FALSE /\ m.faults = {"crtc"}
    BY <1>1 DEF ModeFails
  <2>2. QED
    BY <2>1
<1>2. CASE crtc.active /\ m = Mode(Outcome(p, TRUE), Showing(b))
  <2>1. m.panel = p /\ m.crtc = Showing(b) /\ m.ok = TRUE /\ m.faults = {}
    BY <1>2 DEF Mode, Outcome
  <2>2. QED
    BY <1>2, <2>1, ShowingIs DEF Good
<1>3. ASSUME ~crtc.active, NEW o \in DrmEnable(p), m = Mode(o, Showing(b))
      PROVE  /\ m.panel \in Panels /\ m.crtc \in Crtcs /\ m.ok \in BOOLEAN
             /\ m.faults \subseteq {"dcs", "crtc"}
             /\ m.ok /\ m.crtc = Showing(b)
             /\ m.faults = {} /\ Good(p, crtc.active) => Good(m.panel, m.crtc.active)
  <2>1. /\ m.panel = o.panel /\ m.crtc = Showing(b) /\ m.ok = TRUE
        /\ m.faults = IF o.ok THEN {} ELSE {"dcs"}
    BY <1>3 DEF Mode
  <2>2. o \in Outcomes
    <3>1. CASE p.enabled
      <4>1. o = Outcome(p, TRUE)
        BY <3>1 DEF DrmEnable
      <4>2. QED
        BY <4>1 DEF Outcome, Outcomes
    <3>2. QED
      BY <3>1, DrmEnableIs
  <2>3. o.panel \in Panels
    BY <2>2 DEF Outcomes
  <2>4. ASSUME m.faults = {}, Good(p, crtc.active) PROVE Good(m.panel, m.crtc.active)
    <3>1. ~p.enabled /\ o.ok
      BY <1>3, <2>1, <2>4 DEF Good
    <3>2. m.crtc.active
      BY <2>1, ShowingIs
    <3>3. QED
      BY <2>1, <2>4, <3>1, <3>2, DrmEnableIs DEF Good
  <2>5. m.faults \subseteq {"dcs", "crtc"} /\ m.ok /\ m.ok \in BOOLEAN
    BY <2>1
  <2>6. m.panel \in Panels /\ m.crtc \in Crtcs /\ m.crtc = Showing(b)
    BY <2>1, <2>3, ShowingIs
  <2>7. QED
    BY <2>4, <2>5, <2>6
<1>4. \/ m = ModeFails(p)
      \/ crtc.active /\ m = Mode(Outcome(p, TRUE), Showing(b))
      \/ ~crtc.active /\ \E o \in DrmEnable(p) : m = Mode(o, Showing(b))
  BY DEF CrtcOn
<1>5. QED
  BY <1>1, <1>2, <1>3, <1>4

LEMMA CrtcOffIs ==
  ASSUME crtc \in Crtcs, NEW p \in Panels, NEW m \in CrtcOff(p)
  PROVE  /\ m.panel \in Panels /\ m.crtc \in Crtcs
         /\ m.faults \subseteq {"dcs", "crtc"}
         /\ "crtc" \notin m.faults => ~m.crtc.active
         /\ m.crtc = crtc \/ (m.crtc = Showing(None) /\ crtc.active)
         /\ m.faults = {} /\ (crtc.active <=> p.enabled) /\ (p.lit => p.enabled)
              /\ (p.inited => p.regs) => Good(m.panel, m.crtc.active)
<1>1. None \in Fbs
  BY DEF Fbs
<1>2. CASE m = ModeFails(p) /\ crtc.active
  <2>1. m.panel = p /\ m.crtc = crtc /\ m.faults = {"crtc"}
    BY <1>2 DEF ModeFails
  <2>2. QED
    BY <2>1
<1>3. CASE ~crtc.active /\ m = Mode(Outcome(p, TRUE), crtc)
  <2>1. m.panel = p /\ m.crtc = crtc /\ m.faults = {}
    BY <1>3 DEF Mode, Outcome
  <2>2. QED
    BY <1>3, <2>1 DEF Good
<1>4. ASSUME crtc.active, NEW o \in DrmDisable(p), m = Mode(o, Showing(None))
      PROVE  /\ m.panel \in Panels /\ m.crtc = Showing(None) /\ ~m.crtc.active
             /\ m.crtc \in Crtcs
             /\ m.faults \subseteq {"dcs", "crtc"}
             /\ m.faults = {} /\ (p.lit => p.enabled) /\ (p.inited => p.regs)
                => Good(m.panel, m.crtc.active)
  <2>1. /\ m.panel = o.panel /\ m.crtc = Showing(None)
        /\ m.faults = IF o.ok THEN {} ELSE {"dcs"}
    BY <1>4 DEF Mode
  <2>2. o \in Outcomes /\ o.panel \in Panels
    BY DrmDisableIs DEF Outcomes
  <2>3. ~m.crtc.active /\ m.crtc \in Crtcs
    BY <1>1, <2>1, ShowingIs
  <2>4. ASSUME m.faults = {}, p.lit => p.enabled, p.inited => p.regs
        PROVE  Good(m.panel, m.crtc.active)
    <3>1. o.ok
      BY <2>1, <2>4
    <3>2. /\ ~o.panel.enabled /\ o.panel.inited = p.inited /\ o.panel.regs = p.regs
          /\ ~o.panel.lit
      BY <2>4, <3>1, DrmDisableIs
    <3>3. QED
      BY <2>1, <2>3, <2>4, <3>2 DEF Good
  <2>5. QED
    BY <2>1, <2>2, <2>3, <2>4
<1>5. \/ m = ModeFails(p) /\ crtc.active
      \/ ~crtc.active /\ m = Mode(Outcome(p, TRUE), crtc)
      \/ crtc.active /\ \E o \in DrmDisable(p) : m = Mode(o, Showing(None))
  BY DEF CrtcOff
<1>6. QED
  BY <1>2, <1>3, <1>4, <1>5
-----------------------------------------------------------------------------
(* Switching the screen off.                                               *)
LEMMA BlankIs ==
  ASSUME IInv, GlBlank \/ FbBlank
  PROVE  /\ panel' \in Panels /\ crtc' \in Crtcs
         /\ faults \subseteq faults' /\ faults' \subseteq faults \union {"dcs", "crtc"}
         /\ "crtc" \notin faults' => ~crtc'.active
         /\ crtc' = crtc \/ (crtc' = Showing(None) /\ crtc.active)
         /\ PanelInv'
<1>1. panel \in Panels /\ crtc \in Crtcs /\ crtc.active \in BOOLEAN
  BY Types DEF IInv, Crtcs
<1>2. ASSUME NEW s \in Sleep(panel, crtc.active), NEW m \in CrtcOff(s.panel), Modeset(m),
             faults' = faults \union m.faults \union (IF s.ok THEN {} ELSE {"dcs"})
      PROVE  /\ panel' \in Panels /\ crtc' \in Crtcs
             /\ faults \subseteq faults' /\ faults' \subseteq faults \union {"dcs", "crtc"}
             /\ "crtc" \notin faults' => ~crtc'.active
             /\ crtc' = crtc \/ (crtc' = Showing(None) /\ crtc.active)
             /\ PanelInv'
  <2>1. s \in Outcomes /\ s.panel \in Panels
    BY <1>1, SleepIs DEF Outcomes
  <2>2. panel' = m.panel /\ crtc' = m.crtc
    BY <1>2 DEF Modeset
  <2>3. /\ m.panel \in Panels /\ m.crtc \in Crtcs
        /\ m.faults \subseteq {"dcs", "crtc"}
        /\ "crtc" \notin m.faults => ~m.crtc.active
        /\ m.crtc = crtc \/ (m.crtc = Showing(None) /\ crtc.active)
    BY <1>1, <2>1, CrtcOffIs
  <2>4. faults \subseteq faults' /\ faults' \subseteq faults \union {"dcs", "crtc"}
    BY <1>2, <2>3
  <2>5. ASSUME faults' \intersect {"dcs", "crtc"} = {}
        PROVE  Good(m.panel, m.crtc.active)
    <3>1. s.ok /\ m.faults = {}
      BY <1>2, <2>3, <2>5
    <3>2. Good(panel, crtc.active)
      BY <2>4, <2>5 DEF IInv, PanelInv, NoFault
    <3>3. /\ s.panel.enabled = panel.enabled /\ s.panel.inited = panel.inited
          /\ s.panel.regs = panel.regs /\ ~s.panel.lit
      BY <1>1, <3>1, <3>2, SleepIs DEF Good
    <3>4. QED
      BY <1>1, <2>1, <3>1, <3>2, <3>3, CrtcOffIs DEF Good
  <2>6. PanelInv'
    BY <2>2, <2>5 DEF PanelInv, NoFault
  <2>7. QED
    BY <1>2, <2>2, <2>3, <2>4, <2>6
<1>3. ASSUME NEW m \in CrtcOff(panel), Modeset(m), faults' = faults \union m.faults
      PROVE  /\ panel' \in Panels /\ crtc' \in Crtcs
             /\ faults \subseteq faults' /\ faults' \subseteq faults \union {"dcs", "crtc"}
             /\ "crtc" \notin faults' => ~crtc'.active
             /\ crtc' = crtc \/ (crtc' = Showing(None) /\ crtc.active)
             /\ PanelInv'
  <2>2. panel' = m.panel /\ crtc' = m.crtc
    BY <1>3 DEF Modeset
  <2>3. /\ m.panel \in Panels /\ m.crtc \in Crtcs
        /\ m.faults \subseteq {"dcs", "crtc"}
        /\ "crtc" \notin m.faults => ~m.crtc.active
        /\ m.crtc = crtc \/ (m.crtc = Showing(None) /\ crtc.active)
    BY <1>1, CrtcOffIs
  <2>4. faults \subseteq faults' /\ faults' \subseteq faults \union {"dcs", "crtc"}
    BY <1>3, <2>3
  <2>5. ASSUME faults' \intersect {"dcs", "crtc"} = {}
        PROVE  Good(m.panel, m.crtc.active)
    <3>1. m.faults = {}
      BY <1>3, <2>3, <2>5
    <3>2. Good(panel, crtc.active)
      BY <2>4, <2>5 DEF IInv, PanelInv, NoFault
    <3>3. QED
      BY <1>1, <3>1, <3>2, CrtcOffIs DEF Good
  <2>6. PanelInv'
    BY <2>2, <2>5 DEF PanelInv, NoFault
  <2>7. QED
    BY <1>3, <2>2, <2>3, <2>4, <2>6
<1>4. QED
  BY <1>2, <1>3 DEF GlBlank, FbBlank

LEMMA OffInv ==
  ASSUME IInv, ScreenOff, UNCHANGED <<pc, buf>>, pc \in {"loop", "wait"}
  PROVE  IInv'
<1>1. /\ pc \in Pcs /\ hud \in Huds /\ buf \in Bufs /\ lamp \in Lamps
      /\ panel \in Panels /\ crtc \in Crtcs /\ clock \in Clocks /\ faults \subseteq Kinds
  BY Types DEF IInv
<1>2. /\ panel' \in Panels /\ crtc' \in Crtcs
      /\ faults \subseteq faults' /\ faults' \subseteq faults \union {"dcs", "crtc"}
      /\ "crtc" \notin faults' => ~crtc'.active
      /\ crtc' = crtc \/ (crtc' = Showing(None) /\ crtc.active)
      /\ PanelInv'
  BY BlankIs DEF ScreenOff
<1>3. /\ hud' = [hud EXCEPT !.off = TRUE, !.pend = FALSE, !.set = FALSE]
      /\ lamp' = LampOff /\ clock' = [clock EXCEPT !.calm = FALSE]
  BY DEF ScreenOff
<1>4. /\ hud' \in Huds /\ hud'.off /\ ~hud'.pend /\ ~hud'.set
      /\ hud'.gl = hud.gl /\ hud'.warm = hud.warm /\ hud'.frames = hud.frames
  BY <1>1, <1>3 DEF Huds
<1>5. lamp' \in Lamps /\ ~lamp'.power /\ ~lamp'.bright
  BY <1>3 DEF LampOff, Lamps
<1>6. clock' \in Clocks /\ clock'.age = clock.age
  BY <1>1, <1>3 DEF Clocks
<1>7. TypeOK'
  BY <1>1, <1>2, <1>4, <1>5, <1>6, TypesNext DEF Kinds
<1>8. LampInv'
  BY <1>2, <1>4, <1>5 DEF LampInv, NoFault
<1>9. None \in Fbs /\ (crtc'.active => crtc.active /\ crtc' = crtc)
  BY <1>1, <1>2, ShowingIs DEF Fbs
<1>10. PictureInv'
  BY <1>2, <1>4, <1>9 DEF IInv, PictureInv, NoFault, Running
<1>11. FlipInv'
  <2>1. ASSUME faults' \intersect {"late", "flip", "crtc", "inside"} = {}, crtc' = Showing(None)
        PROVE  /\ crtc'.fb \notin buf.free
               /\ pc # "wait" => crtc'.queued = None /\ ~crtc'.event
               /\ pc = "wait" => crtc'.queued = None /\ crtc'.event /\ crtc'.fb = None
    <3>1. /\ crtc'.fb = None /\ crtc'.queued = None
          /\ crtc'.event <=> (crtc.event \/ crtc.queued # None)
      BY <1>1, <1>9, <2>1, ShowingIs
    <3>2. None \notin buf.free
      BY <1>1, Apart DEF Bufs
    <3>3. faults \intersect {"late", "flip", "crtc", "inside"} = {}
      BY <1>2, <2>1
    <3>4. QED
      BY <3>1, <3>2, <3>3 DEF IInv, FlipInv, NoFault
  <2>2. QED
    BY <1>2, <2>1 DEF IInv, FlipInv, NoFault
<1>12. BufInv'
  BY <1>2 DEF IInv, BufInv
<1>13. WarmInv'
  BY <1>2, <1>4, <1>6 DEF IInv, WarmInv
<1>14. QED
  BY <1>2, <1>7, <1>8, <1>10, <1>11, <1>12, <1>13 DEF IInv
-----------------------------------------------------------------------------
(* Switching it on.                                                        *)
LEMMA OnInv ==
  ASSUME IInv, ScreenOn, UNCHANGED <<pc, buf>>, pc \in {"loop", "wait"}
  PROVE  IInv'
<1>1. /\ pc \in Pcs /\ hud \in Huds /\ buf \in Bufs /\ lamp \in Lamps
      /\ panel \in Panels /\ crtc \in Crtcs /\ clock \in Clocks /\ faults \subseteq Kinds
  BY Types DEF IInv
<1>2. hud.off /\ ~lamp.power /\ ~lamp.bright /\ clock' = [clock EXCEPT !.age = 0]
  BY DEF ScreenOn, IInv, LampInv
<1>3. clock' \in Clocks
  BY <1>1, <1>2 DEF Clocks
<1>4. (hud.warm \/ Inside) \in BOOLEAN /\ 0 \in 0 .. Frames
  BY ScreenAssumption
<1>5. CASE hud.gl /\ buf.prev = None
  <2>1. /\ hud' = [hud EXCEPT !.off = FALSE, !.pend = TRUE, !.frames = 0,
                              !.warm = hud.warm \/ Inside]
        /\ faults' = faults \union UnblankFaults
        /\ UNCHANGED <<lamp, panel, crtc>>
    BY <1>5 DEF ScreenOn
  <2>2. hud' \in Huds /\ ~hud'.off /\ hud'.gl /\ hud'.set = hud.set
    BY <1>1, <1>4, <1>5, <2>1 DEF Huds
  <2>3. faults' = faults \union (IF pc = "wait" THEN {"inside"} ELSE {})
    BY <2>1 DEF UnblankFaults, Inside
  <2>4. faults \subseteq faults' /\ faults' \subseteq Kinds
        /\ faults' \subseteq faults \union {"inside"}
    BY <1>1, <2>3 DEF Kinds
  <2>5. TypeOK'
    BY <1>1, <1>3, <2>1, <2>2, <2>4, TypesNext
  <2>6. PanelInv' /\ BufInv'
    BY <2>1, <2>4 DEF IInv, PanelInv, BufInv, NoFault
  <2>7. LampInv'
    BY <1>2, <2>1, <2>2 DEF LampInv, IInv
  <2>8. PictureInv'
    BY <1>2, <1>5, <2>1, <2>2, <2>4 DEF IInv, PictureInv, NoFault, Running
  <2>9. FlipInv'
    BY <2>1, <2>4 DEF IInv, FlipInv, NoFault
  <2>10. WarmInv'
    BY <2>3 DEF WarmInv
  <2>11. QED
    BY <2>5, <2>6, <2>7, <2>8, <2>9, <2>10 DEF IInv
<1>6. ASSUME ~(hud.gl /\ buf.prev = None),
             NEW m \in CrtcOn(panel, IF hud.gl THEN buf.prev ELSE Console),
             Modeset(m),
             faults' = faults \union UnblankFaults \union m.faults,
             hud' = [hud EXCEPT !.off = FALSE, !.pend = hud.gl, !.frames = 0,
                                !.set = hud.gl /\ m.ok, !.warm = hud.warm \/ Inside],
             lamp' = IF hud.gl THEN lamp ELSE LampOn
      PROVE  IInv'
  <2> DEFINE b == IF hud.gl THEN buf.prev ELSE Console
  <2>1. b \in Fbs /\ b # None /\ b \notin buf.free
    BY <1>1, <1>6, Apart DEF Fbs, Bufs, BufferOrNone, IInv, FlipInv
  <2>2. /\ m.panel \in Panels /\ m.crtc \in Crtcs /\ m.ok \in BOOLEAN
        /\ m.faults \subseteq {"dcs", "crtc"}
        /\ "crtc" \notin m.faults => m.ok /\ m.crtc = Showing(b)
        /\ m.crtc = crtc \/ m.crtc = Showing(b)
        /\ m.faults = {} /\ Good(panel, crtc.active) => Good(m.panel, m.crtc.active)
    BY <1>1, <1>6, <2>1, CrtcOnIs
  <2>3. panel' = m.panel /\ crtc' = m.crtc
    BY <1>6 DEF Modeset
  <2>4. faults' = faults \union (IF pc = "wait" THEN {"inside"} ELSE {}) \union m.faults
    BY <1>6 DEF UnblankFaults, Inside
  <2>5. faults \subseteq faults' /\ faults' \subseteq Kinds /\ m.faults \subseteq faults'
        /\ faults' \subseteq faults \union {"inside", "dcs", "crtc"}
    BY <1>1, <2>2, <2>4 DEF Kinds
  <2>6. hud.gl \in BOOLEAN /\ (hud.gl /\ m.ok) \in BOOLEAN
    BY <1>1 DEF Huds
  <2>7. hud' \in Huds /\ ~hud'.off /\ hud'.gl = hud.gl /\ (hud'.set <=> hud.gl /\ m.ok)
    BY <1>1, <1>4, <1>6, <2>6 DEF Huds
  <2>8. lamp' \in Lamps /\ (lamp'.power => lamp'.bright)
        /\ (hud.gl => ~lamp'.power)
    BY <1>1, <1>2, <1>6 DEF Lamps, LampOn
  <2>9. TypeOK'
    BY <1>1, <1>3, <2>2, <2>3, <2>5, <2>7, <2>8, TypesNext
  <2>10. PanelInv'
    BY <2>2, <2>3, <2>5 DEF IInv, PanelInv, NoFault
  <2>11. BufInv'
    BY <2>5 DEF IInv, BufInv
  <2>12. LampInv'
    BY <2>7, <2>8 DEF LampInv
  <2>13. /\ Showing(b).active /\ Showing(b).fb = b /\ Showing(b).queued = None
         /\ Showing(b).event <=> (crtc.event \/ crtc.queued # None)
    BY <1>1, <2>1, ShowingIs
  <2>14. PictureInv'
    <3>1. crtc'.active => crtc'.fb # None
      BY <2>1, <2>2, <2>3, <2>13 DEF IInv, PictureInv
    <3>2. ASSUME faults' \intersect {"dcs", "crtc", "lock", "fb", "flip"} = {}
          PROVE  crtc'.active /\ (hud'.set => buf.prev # None)
                 /\ (pc = "wait" => hud.gl /\ buf.prev # None)
      <4>1. "crtc" \notin m.faults /\ faults \intersect {"dcs", "crtc", "lock", "fb", "flip"} = {}
        BY <2>5, <3>2
      <4>2. QED
        BY <1>6, <2>2, <2>3, <2>7, <2>13, <4>1 DEF IInv, PictureInv, NoFault
    <3>3. QED
      BY <2>7, <3>1, <3>2 DEF PictureInv, NoFault
  <2>15. FlipInv'
    <3>1. ASSUME faults' \intersect {"late", "flip", "crtc", "inside"} = {}
          PROVE  pc # "wait" /\ crtc'.fb \notin buf.free /\ crtc'.queued = None /\ ~crtc'.event
      <4>1. pc # "wait" /\ "crtc" \notin m.faults
            /\ faults \intersect {"late", "flip", "crtc", "inside"} = {}
        BY <2>4, <2>5, <3>1
      <4>2. crtc' = Showing(b) /\ crtc.queued = None /\ ~crtc.event
        BY <2>2, <2>3, <4>1 DEF IInv, FlipInv, NoFault
      <4>3. QED
        BY <2>1, <2>13, <4>1, <4>2
    <3>2. QED
      BY <3>1 DEF IInv, FlipInv, NoFault
  <2>16. WarmInv'
    BY <2>4 DEF WarmInv
  <2>17. QED
    BY <2>9, <2>10, <2>11, <2>12, <2>14, <2>15, <2>16 DEF IInv
<1>7. QED
  BY <1>5, <1>6 DEF ScreenOn
-----------------------------------------------------------------------------
(* The initial state, the service and the HUD's start and death.           *)
LEMMA InitInv == Init => IInv
<1> SUFFICES ASSUME Init PROVE IInv
  OBVIOUS
<1>1. TypeOK
  <2>1. hud \in Huds
    BY ScreenAssumption DEF Init, NewHud, Huds
  <2>2. buf \in Bufs /\ crtc \in Crtcs
    BY DEF Init, NoBuffers, Bufs, Crtcs, Fbs, BufferOrNone
  <2>3. pc \in Pcs /\ lamp \in Lamps /\ panel \in Panels /\ clock \in Clocks /\ faults \subseteq Kinds
    BY DEF Init, Pcs, Lamps, LampOff, Panels, NewPanel, Clocks, Kinds
  <2>4. QED
    BY <2>1, <2>2, <2>3, Types
<1>2. PanelInv
  BY DEF Init, PanelInv, Good, NewPanel
<1>3. LampInv /\ PictureInv
  BY DEF Init, LampInv, PictureInv, LampOff, NewHud, Running
<1>4. FlipInv /\ BufInv
  BY Apart DEF Init, FlipInv, BufInv, NoBuffers
<1>5. WarmInv
  BY DEF Init, WarmInv
<1>6. QED
  BY <1>1, <1>2, <1>3, <1>4, <1>5 DEF IInv

LEMMA TypedParts ==
  ASSUME IInv
  PROVE  /\ pc \in Pcs /\ hud \in Huds /\ buf \in Bufs /\ lamp \in Lamps
         /\ panel \in Panels /\ crtc \in Crtcs /\ clock \in Clocks /\ faults \subseteq Kinds
         /\ None \notin buf.free
  BY Types, Apart DEF IInv, Bufs

LEMMA LaunchInv ==
  ASSUME IInv, Launch
  PROVE  IInv'
<1>1. /\ pc = "dead" /\ pc' = "start" /\ lamp' = LampOn /\ UNCHANGED <<hud, buf, clock>>
  BY DEF Launch
<1>2. PICK m \in CrtcOn(panel, Console) : Modeset(m) /\ faults' = faults \union m.faults
  BY DEF Launch
<1>3. Console \in Fbs /\ Console # None /\ Console \notin buf.free
  BY TypedParts, Apart DEF Fbs, Bufs
<1>4. /\ m.panel \in Panels /\ m.crtc \in Crtcs
      /\ m.faults \subseteq {"dcs", "crtc"}
      /\ "crtc" \notin m.faults => m.ok /\ m.crtc = Showing(Console)
      /\ m.crtc = crtc \/ m.crtc = Showing(Console)
      /\ m.faults = {} /\ Good(panel, crtc.active) => Good(m.panel, m.crtc.active)
  BY <1>2, <1>3, TypedParts, CrtcOnIs
<1>5. panel' = m.panel /\ crtc' = m.crtc
  BY <1>2 DEF Modeset
<1>6. /\ Showing(Console).active /\ Showing(Console).fb = Console
      /\ Showing(Console).queued = None
      /\ Showing(Console).event <=> (crtc.event \/ crtc.queued # None)
  BY <1>3, TypedParts, ShowingIs
<1>7. TypeOK'
  <2>1. lamp' \in Lamps /\ pc' \in Pcs /\ faults' \subseteq Kinds
    BY <1>1, <1>2, <1>4, TypedParts DEF Lamps, LampOn, Pcs, Kinds
  <2>2. QED
    BY <1>1, <1>4, <1>5, <2>1, TypedParts, TypesNext
<1>8. PanelInv'
  BY <1>2, <1>4, <1>5 DEF IInv, PanelInv, NoFault
<1>9. LampInv'
  BY <1>1 DEF IInv, LampInv, LampOn
<1>10. PictureInv'
  BY <1>1, <1>2, <1>3, <1>4, <1>5, <1>6 DEF IInv, PictureInv, NoFault, Running
<1>11. FlipInv'
  BY <1>1, <1>2, <1>3, <1>4, <1>5, <1>6 DEF IInv, FlipInv, NoFault
<1>12. BufInv' /\ WarmInv'
  BY <1>1, <1>2, <1>4 DEF IInv, BufInv, WarmInv
<1>13. QED
  BY <1>7, <1>8, <1>9, <1>10, <1>11, <1>12 DEF IInv

LEMMA StartInv ==
  ASSUME IInv, Start
  PROVE  IInv'
<1>1. /\ pc = "start" /\ pc' = "loop" /\ lamp' = LampOff
      /\ clock' = [age |-> 0, key |-> FALSE, calm |-> FALSE]
      /\ UNCHANGED <<buf, panel, crtc, faults>>
  BY DEF Start
<1>2. PICK gl \in BOOLEAN : hud' = [NewHud EXCEPT !.gl = gl, !.pend = TRUE]
  BY DEF Start
<1>3. hud' \in Huds /\ ~hud'.off /\ ~hud'.set
  <2>1. NewHud \in Huds /\ ~NewHud.off /\ ~NewHud.set
    BY ScreenAssumption DEF Huds, NewHud
  <2>2. QED
    BY <1>2, <2>1 DEF Huds
<1>4. TypeOK'
  <2>1. lamp' \in Lamps /\ pc' \in Pcs /\ clock' \in Clocks
    BY <1>1 DEF Lamps, LampOff, Pcs, Clocks
  <2>2. QED
    BY <1>1, <1>3, <2>1, TypedParts, TypesNext
<1>5. LampInv'
  BY <1>1, <1>3 DEF LampInv, LampOff
<1>6. PictureInv'
  BY <1>1, <1>3 DEF IInv, PictureInv, NoFault, Running
<1>7. PanelInv' /\ FlipInv' /\ BufInv' /\ WarmInv'
  BY <1>1 DEF IInv, PanelInv, FlipInv, BufInv, WarmInv, NoFault
<1>8. QED
  BY <1>4, <1>5, <1>6, <1>7 DEF IInv

LEMMA DieInv ==
  ASSUME IInv, Die
  PROVE  IInv'
<1>1. pc' = "dead" /\ hud' = NewHud /\ buf' = NoBuffers /\ UNCHANGED <<lamp, clock>>
  BY DEF Die
<1>2. /\ hud' \in Huds /\ ~hud'.off /\ ~hud'.set
      /\ buf' \in Bufs /\ buf'.prev = None /\ buf'.free = Buffers
  BY <1>1, ScreenAssumption DEF Huds, NewHud, Bufs, NoBuffers, BufferOrNone
<1>3. /\ panel' \in Panels /\ crtc' \in Crtcs /\ crtc'.fb \notin Buffers
      /\ crtc'.queued = None /\ ~crtc'.event
      /\ crtc'.active => crtc.active /\ crtc'.fb = crtc.fb
      /\ faults \subseteq faults' /\ faults' \subseteq faults \union {"died", "dcs"}
      /\ PanelInv'
  <2>1. CASE crtc.fb \in Buffers
    <3>1. PICK o \in DrmDisable(panel) :
            /\ panel' = o.panel
            /\ crtc' = [active |-> FALSE, fb |-> None, queued |-> None, event |-> FALSE]
            /\ faults' = faults \union {"died"} \union (IF o.ok THEN {} ELSE {"dcs"})
      BY <2>1 DEF Die
    <3>2. o \in Outcomes /\ o.panel \in Panels
      BY TypedParts, DrmDisableIs DEF Outcomes
    <3>3. crtc' \in Crtcs /\ ~crtc'.active /\ crtc'.fb = None /\ crtc'.queued = None /\ ~crtc'.event
      BY <3>1 DEF Crtcs, Fbs, BufferOrNone
    <3>4. PanelInv'
      <4>1. ASSUME faults' \intersect {"dcs", "crtc"} = {} PROVE Good(o.panel, FALSE)
        <5>1. o.ok /\ Good(panel, crtc.active)
          BY <3>1, <4>1 DEF IInv, PanelInv, NoFault
        <5>2. /\ ~o.panel.enabled /\ o.panel.inited = panel.inited
              /\ o.panel.regs = panel.regs /\ ~o.panel.lit
          BY <5>1, TypedParts, DrmDisableIs DEF Good
        <5>3. QED
          BY <5>1, <5>2 DEF Good
      <4>2. QED
        BY <3>1, <3>3, <4>1 DEF PanelInv, NoFault, Good
    <3>5. QED
      BY <3>1, <3>2, <3>3, <3>4, Apart
  <2>2. CASE crtc.fb \notin Buffers
    <3>1. /\ crtc' = [crtc EXCEPT !.queued = None, !.event = FALSE]
          /\ faults' = faults \union {"died"} /\ panel' = panel
      BY <2>2 DEF Die
    <3>2. /\ crtc' \in Crtcs /\ crtc'.active = crtc.active /\ crtc'.fb = crtc.fb
          /\ crtc'.queued = None /\ ~crtc'.event
      BY <3>1, TypedParts DEF Crtcs, BufferOrNone
    <3>3. QED
      BY <2>2, <3>1, <3>2, TypedParts DEF IInv, PanelInv, NoFault
  <2>3. QED
    BY <2>1, <2>2
<1>4. TypeOK'
  <2>1. pc' \in Pcs /\ faults' \subseteq Kinds
    BY <1>1, <1>3, TypedParts DEF Pcs, Kinds
  <2>2. QED
    BY <1>1, <1>2, <1>3, <2>1, TypedParts, TypesNext
<1>5. LampInv'
  BY <1>1, <1>2 DEF IInv, LampInv
<1>6. PictureInv'
  BY <1>1, <1>2, <1>3 DEF IInv, PictureInv, Running
<1>7. FlipInv' /\ BufInv' /\ WarmInv'
  BY <1>1, <1>2, <1>3, Apart DEF FlipInv, BufInv, WarmInv
<1>8. QED
  BY <1>3, <1>4, <1>5, <1>6, <1>7 DEF IInv
-----------------------------------------------------------------------------
(* Input and time.                                                         *)
LEMMA InputInv ==
  ASSUME IInv, Input
  PROVE  IInv'
<1>1. CASE PowerKey
  BY <1>1, OffInv, OnInv DEF PowerKey
<1>2. CASE TouchWake
  BY <1>2, OnInv DEF TouchWake
<1>3. CASE IdleOff
  BY <1>3, OffInv DEF IdleOff
<1>4. CASE Slide
  <2>1. /\ lamp' = [lamp EXCEPT !.bright = TRUE] /\ ~hud.off
        /\ UNCHANGED <<pc, hud, buf, panel, crtc, clock, faults>>
    BY <1>4 DEF Slide
  <2>2. lamp' \in Lamps /\ lamp'.bright /\ lamp'.power = lamp.power
    BY <2>1, TypedParts DEF Lamps
  <2>3. TypeOK'
    BY <2>1, <2>2, TypedParts, TypesNext
  <2>4. LampInv' /\ PictureInv'
    BY <2>1, <2>2 DEF IInv, LampInv, PictureInv, NoFault, Running
  <2>5. PanelInv' /\ FlipInv' /\ BufInv' /\ WarmInv'
    BY <2>1 DEF IInv, PanelInv, FlipInv, BufInv, WarmInv, NoFault
  <2>6. QED
    BY <2>3, <2>4, <2>5 DEF IInv
<1>5. QED
  BY <1>1, <1>2, <1>3, <1>4 DEF Input

LEMMA TickInv ==
  ASSUME IInv, Tick
  PROVE  IInv'
<1>1. /\ \/ clock.age < 2 /\ clock' = [clock EXCEPT !.age = @ + 1]
         \/ clock' = [clock EXCEPT !.key = TRUE]
         \/ clock' = [clock EXCEPT !.calm = TRUE]
      /\ UNCHANGED <<pc, hud, buf, lamp, panel, crtc, faults>>
  BY DEF Tick
<1>2. clock' \in Clocks /\ (clock.age > 0 => clock'.age > 0)
  <2>1. clock \in Clocks /\ clock.age \in 0 .. 2
    BY TypedParts DEF Clocks
  <2>2. CASE clock.age < 2 /\ clock' = [clock EXCEPT !.age = @ + 1]
    <3> DEFINE n == clock.age + 1
    <3>1. n \in 0 .. 2 /\ n > 0 /\ clock' = [clock EXCEPT !.age = n]
      BY <2>1, <2>2
    <3> HIDE DEF n
    <3>2. clock' \in Clocks /\ clock'.age = n
      BY <2>1, <3>1 DEF Clocks
    <3>3. QED
      BY <3>1, <3>2
  <2>3. CASE clock' = [clock EXCEPT !.key = TRUE] \/ clock' = [clock EXCEPT !.calm = TRUE]
    BY <2>1, <2>3 DEF Clocks
  <2>4. QED
    BY <1>1, <2>2, <2>3
<1>3. TypeOK'
  BY <1>1, <1>2, TypedParts, TypesNext
<1>4. WarmInv'
  BY <1>1, <1>2 DEF IInv, WarmInv
<1>5. PanelInv' /\ LampInv' /\ PictureInv' /\ FlipInv' /\ BufInv'
  BY <1>1 DEF IInv, PanelInv, LampInv, PictureInv, FlipInv, BufInv, NoFault, Running
<1>6. QED
  BY <1>3, <1>4, <1>5 DEF IInv
-----------------------------------------------------------------------------
(* Frames.                                                                 *)
LEMMA WarmIs ==
  ASSUME IInv, NEW set \in BOOLEAN,
         hud' = [hud EXCEPT !.warm = clock.age > 0, !.set = set]
  PROVE  /\ hud' \in Huds /\ hud'.gl = hud.gl /\ hud'.off = hud.off /\ hud'.pend = hud.pend
         /\ hud'.set = set /\ (hud'.warm => clock.age > 0)
<1> DEFINE w == clock.age > 0
<1>1. w \in BOOLEAN
  OBVIOUS
<1>2. hud' = [hud EXCEPT !.warm = w, !.set = set]
  OBVIOUS
<1>3. hud' \in Huds /\ hud'.gl = hud.gl /\ hud'.off = hud.off /\ hud'.pend = hud.pend
      /\ hud'.set = set /\ (hud'.warm = w)
  <2> HIDE DEF w
  <2>1. QED
    BY <1>1, <1>2, TypedParts DEF Huds
<1>4. QED
  BY <1>3

LEMMA WarmSame ==
  ASSUME IInv, Warm
  PROVE  hud' = [hud EXCEPT !.warm = clock.age > 0, !.set = hud.set] /\ hud.set \in BOOLEAN
BY TypedParts DEF Warm, Huds

LEMMA PresentedIs ==
  ASSUME IInv, NEW b \in Buffers, NEW fbs \in SUBSET Buffers
  PROVE  /\ Presented(b, fbs) \in Bufs /\ Presented(b, fbs).prev = b
         /\ Presented(b, fbs).free = (buf.free \union {buf.prev}) \ {b, None}
         /\ b # None
<1>1. (buf.free \union {buf.prev}) \ {b, None} \in SUBSET Buffers
  BY TypedParts DEF Bufs, BufferOrNone
<1>2. QED
  BY <1>1, Apart DEF Presented, Bufs, BufferOrNone

(* The buffer shown before is released, the one presented is kept.         *)
LEMMA Released ==
  ASSUME NEW S, NEW n, n \notin S, NEW p \in S \union {n}, NEW b \in S
  PROVE  /\ ((S \ {p}) \union {p}) \ {b, n} = S \ {b}
         /\ ((S \ {b, p}) \union {p}) \ {b, n} = S \ {b}
OBVIOUS

LEMMA FrameSkippedInv ==
  ASSUME IInv, FrameSkipped
  PROVE  IInv'
<1>1. pc = "loop" /\ pc' = "skip" /\ hud.off /\ UNCHANGED <<buf, lamp, panel, crtc, clock, faults>>
  BY DEF FrameSkipped
<1>2. /\ hud' \in Huds /\ hud'.gl = hud.gl /\ hud'.off = hud.off /\ hud'.pend = hud.pend
      /\ hud'.set = hud.set /\ (hud'.warm => clock.age > 0)
  BY WarmSame, WarmIs DEF FrameSkipped
<1>3. TypeOK'
  BY <1>1, <1>2, TypedParts, TypesNext DEF Pcs
<1>4. LampInv' /\ PictureInv' /\ WarmInv'
  BY <1>1, <1>2 DEF IInv, LampInv, PictureInv, WarmInv, NoFault, Running
<1>5. PanelInv' /\ FlipInv' /\ BufInv'
  BY <1>1 DEF IInv, PanelInv, FlipInv, BufInv, NoFault
<1>6. QED
  BY <1>3, <1>4, <1>5 DEF IInv

LEMMA FrameNoneInv ==
  ASSUME IInv, FrameNone
  PROVE  IInv'
<1>1. /\ pc = "loop" /\ pc' = "after" /\ ~hud.off
      /\ UNCHANGED <<buf, lamp, panel, crtc, clock>>
      /\ faults' = faults \union (IF hud.gl THEN {"lock"} ELSE {})
  BY DEF FrameNone, FrameStarts
<1>2. /\ hud' \in Huds /\ hud'.gl = hud.gl /\ hud'.off = hud.off /\ hud'.pend = hud.pend
      /\ hud'.set = hud.set /\ (hud'.warm => clock.age > 0)
  BY WarmSame, WarmIs DEF FrameNone
<1>3. TypeOK'
  BY <1>1, <1>2, TypedParts, TypesNext DEF Pcs, Kinds
<1>4. LampInv' /\ WarmInv'
  BY <1>1, <1>2 DEF IInv, LampInv, WarmInv
<1>5. PictureInv'
  BY <1>1, <1>2 DEF IInv, PictureInv, NoFault, Running
<1>6. PanelInv' /\ FlipInv' /\ BufInv'
  BY <1>1 DEF IInv, PanelInv, FlipInv, BufInv, NoFault
<1>7. QED
  BY <1>3, <1>4, <1>5, <1>6 DEF IInv

LEMMA FrameNoFbInv ==
  ASSUME IInv, FrameNoFb
  PROVE  IInv'
<1>1. /\ pc = "loop" /\ pc' = "after" /\ ~hud.off
      /\ UNCHANGED <<lamp, panel, crtc, clock>>
      /\ faults' = faults \union {"fb"}
  BY DEF FrameNoFb, FrameStarts
<1>2. /\ hud' \in Huds /\ hud'.gl = hud.gl /\ hud'.off = hud.off /\ hud'.pend = hud.pend
      /\ hud'.set = hud.set /\ (hud'.warm => clock.age > 0)
  BY WarmSame, WarmIs DEF FrameNoFb
<1>3. PICK b \in buf.free \ buf.fbs : buf' = [buf EXCEPT !.cur = b, !.free = @ \ {b}]
  BY DEF FrameNoFb
<1>4. buf' \in Bufs /\ buf'.prev = buf.prev /\ buf'.free = buf.free \ {b}
  BY <1>3, TypedParts DEF Bufs, BufferOrNone
<1>5. TypeOK'
  BY <1>1, <1>2, <1>4, TypedParts, TypesNext DEF Pcs, Kinds
<1>6. LampInv' /\ PanelInv' /\ PictureInv' /\ WarmInv' /\ BufInv'
  BY <1>1, <1>2 DEF IInv, LampInv, PanelInv, PictureInv, WarmInv, BufInv, NoFault
<1>7. FlipInv'
  BY <1>1, <1>4 DEF IInv, FlipInv, NoFault
<1>8. QED
  BY <1>5, <1>6, <1>7 DEF IInv

LEMMA FrameModesetInv ==
  ASSUME IInv, FrameModeset
  PROVE  IInv'
<1>1. /\ pc = "loop" /\ pc' = "after" /\ ~hud.off /\ UNCHANGED <<lamp, clock>>
  BY DEF FrameModeset, FrameStarts
<1>2. PICK b \in buf.free : \E m \in CrtcOn(panel, b) :
        /\ Modeset(m)
        /\ faults' = faults \union m.faults
        /\ hud' = [hud EXCEPT !.warm = clock.age > 0, !.set = m.ok]
        /\ buf' = Presented(b, buf.fbs \union {b})
  BY DEF FrameModeset
<1>3. PICK m \in CrtcOn(panel, b) :
        /\ Modeset(m)
        /\ faults' = faults \union m.faults
        /\ hud' = [hud EXCEPT !.warm = clock.age > 0, !.set = m.ok]
        /\ buf' = Presented(b, buf.fbs \union {b})
  BY <1>2
<1>4. b \in Buffers /\ b \in Fbs /\ b # None /\ buf.fbs \union {b} \in SUBSET Buffers
  BY TypedParts, Apart DEF Bufs, Fbs
<1>5. /\ m.panel \in Panels /\ m.crtc \in Crtcs /\ m.ok \in BOOLEAN
      /\ m.faults \subseteq {"dcs", "crtc"}
      /\ "crtc" \notin m.faults => m.ok /\ m.crtc = Showing(b)
      /\ m.crtc = crtc \/ m.crtc = Showing(b)
      /\ m.faults = {} /\ Good(panel, crtc.active) => Good(m.panel, m.crtc.active)
  BY <1>4, TypedParts, CrtcOnIs
<1>6. panel' = m.panel /\ crtc' = m.crtc
  BY <1>3 DEF Modeset
<1>7. /\ hud' \in Huds /\ hud'.gl = hud.gl /\ hud'.off = hud.off /\ hud'.pend = hud.pend
      /\ hud'.set = m.ok /\ (hud'.warm => clock.age > 0)
  BY <1>3, <1>5, WarmIs
<1>8. buf' \in Bufs /\ buf'.prev = b /\ buf'.free = (buf.free \union {buf.prev}) \ {b, None}
  BY <1>3, <1>4, PresentedIs
<1>9. /\ Showing(b).active /\ Showing(b).fb = b /\ Showing(b).queued = None
      /\ Showing(b).event <=> (crtc.event \/ crtc.queued # None)
  BY <1>4, TypedParts, ShowingIs
<1>10. TypeOK'
  BY <1>1, <1>3, <1>5, <1>6, <1>7, <1>8, TypedParts, TypesNext DEF Pcs, Kinds
<1>11. PanelInv'
  BY <1>3, <1>5, <1>6 DEF IInv, PanelInv, NoFault
<1>12. LampInv' /\ WarmInv'
  BY <1>1, <1>3, <1>7 DEF IInv, LampInv, WarmInv
<1>13. PictureInv'
  <2>1. crtc'.active => crtc'.fb # None
    BY <1>4, <1>5, <1>6, <1>9 DEF IInv, PictureInv
  <2>2. faults' \intersect {"dcs", "crtc", "lock", "fb", "flip"} = {} => crtc'.active
    BY <1>3, <1>5, <1>6, <1>9
  <2>3. QED
    BY <1>1, <1>4, <1>8, <2>1, <2>2 DEF PictureInv, NoFault
<1>14. FlipInv'
  <2>1. ASSUME faults' \intersect {"late", "flip", "crtc", "inside"} = {}
        PROVE  crtc'.fb = b /\ crtc'.queued = None /\ ~crtc'.event
    <3>1. faults \intersect {"late", "flip", "crtc", "inside"} = {} /\ "crtc" \notin m.faults
      BY <1>3, <2>1
    <3>2. crtc.queued = None /\ ~crtc.event
      BY <1>1, <3>1 DEF IInv, FlipInv, NoFault
    <3>3. QED
      BY <1>5, <1>6, <1>9, <3>1, <3>2
  <2>2. QED
    BY <1>1, <1>8, <2>1 DEF FlipInv, NoFault
<1>15. BufInv'
  <2>1. buf.prev \in Buffers \union {None}
    BY TypedParts DEF Bufs, BufferOrNone
  <2>2. "fb" \notin faults => buf.free = Buffers \ {buf.prev}
    BY <1>1 DEF IInv, BufInv
  <2>3. "fb" \notin faults => buf'.free = Buffers \ {b}
    BY <1>4, <1>8, <2>1, <2>2, Apart, Released
  <2>4. QED
    BY <1>1, <1>3, <1>8, <2>3 DEF BufInv
<1>16. QED
  BY <1>10, <1>11, <1>12, <1>13, <1>14, <1>15 DEF IInv

LEMMA FrameFlipInv ==
  ASSUME IInv, FrameFlip
  PROVE  IInv'
<1>1. /\ pc = "loop" /\ pc' = "wait" /\ ~hud.off /\ hud.gl /\ hud.set
      /\ crtc.active /\ crtc.queued = None
      /\ UNCHANGED <<lamp, panel, clock, faults>>
  BY DEF FrameFlip, FrameStarts
<1>2. PICK b \in buf.free :
        /\ buf' = [buf EXCEPT !.cur = b, !.free = @ \ {b}, !.fbs = @ \union {b}]
        /\ crtc' = [crtc EXCEPT !.queued = b]
  BY DEF FrameFlip
<1>3. /\ hud' \in Huds /\ hud'.gl = hud.gl /\ hud'.off = hud.off /\ hud'.pend = hud.pend
      /\ hud'.set = hud.set /\ (hud'.warm => clock.age > 0)
  BY WarmSame, WarmIs DEF FrameFlip
<1>4. b \in Buffers /\ b # None
  BY TypedParts, Apart DEF Bufs
<1>5. /\ buf' \in Bufs /\ buf'.cur = b /\ buf'.prev = buf.prev /\ buf'.free = buf.free \ {b}
  BY <1>2, <1>4, TypedParts DEF Bufs, BufferOrNone
<1>6. /\ crtc' \in Crtcs /\ crtc'.active = crtc.active /\ crtc'.fb = crtc.fb
      /\ crtc'.queued = b /\ crtc'.event = crtc.event
  BY <1>2, <1>4, TypedParts DEF Crtcs, BufferOrNone
<1>7. TypeOK'
  BY <1>1, <1>3, <1>5, <1>6, TypedParts, TypesNext DEF Pcs
<1>8. PanelInv' /\ LampInv' /\ WarmInv'
  BY <1>1, <1>3, <1>6 DEF IInv, PanelInv, LampInv, WarmInv, NoFault
<1>9. PictureInv'
  BY <1>1, <1>3, <1>5, <1>6 DEF IInv, PictureInv, NoFault, Running
<1>10. FlipInv'
  BY <1>1, <1>4, <1>5, <1>6 DEF IInv, FlipInv, NoFault
<1>11. BufInv'
  BY <1>1, <1>5 DEF IInv, BufInv
<1>12. QED
  BY <1>7, <1>8, <1>9, <1>10, <1>11 DEF IInv

LEMMA FrameFlipFailsInv ==
  ASSUME IInv, FrameFlipFails
  PROVE  IInv'
<1>1. /\ pc = "loop" /\ pc' = "after" /\ ~hud.off
      /\ UNCHANGED <<lamp, panel, crtc, clock>>
      /\ faults' = faults \union {"flip"}
  BY DEF FrameFlipFails, FrameStarts
<1>2. PICK b \in buf.free : buf' = Presented(b, buf.fbs \union {b})
  BY DEF FrameFlipFails
<1>3. /\ hud' \in Huds /\ hud'.gl = hud.gl /\ hud'.off = hud.off /\ hud'.pend = hud.pend
      /\ hud'.set = hud.set /\ (hud'.warm => clock.age > 0)
  BY WarmSame, WarmIs DEF FrameFlipFails
<1>4. b \in Buffers /\ buf.fbs \union {b} \in SUBSET Buffers
  BY TypedParts DEF Bufs
<1>5. buf' \in Bufs /\ buf'.prev = b /\ buf'.free = (buf.free \union {buf.prev}) \ {b, None}
  BY <1>2, <1>4, PresentedIs
<1>6. TypeOK'
  BY <1>1, <1>3, <1>5, TypedParts, TypesNext DEF Pcs, Kinds
<1>7. PanelInv' /\ LampInv' /\ WarmInv' /\ PictureInv'
  BY <1>1, <1>3 DEF IInv, PanelInv, LampInv, WarmInv, PictureInv, NoFault
<1>8. FlipInv'
  BY <1>1, <1>5 DEF FlipInv, NoFault
<1>9. BufInv'
  <2>1. buf.prev \in Buffers \union {None}
    BY TypedParts DEF Bufs, BufferOrNone
  <2>2. "fb" \notin faults => buf.free = Buffers \ {buf.prev}
    BY <1>1 DEF IInv, BufInv
  <2>3. "fb" \notin faults => buf'.free = Buffers \ {b}
    BY <1>4, <1>5, <2>1, <2>2, Apart, Released
  <2>4. QED
    BY <1>1, <1>5, <2>3 DEF BufInv
<1>10. QED
  BY <1>6, <1>7, <1>8, <1>9 DEF IInv

LEMMA FlipDoneInv ==
  ASSUME IInv, FlipDone
  PROVE  IInv'
<1>1. /\ crtc.queued # None
      /\ crtc' = [crtc EXCEPT !.fb = crtc.queued, !.queued = None, !.event = TRUE]
      /\ UNCHANGED <<pc, hud, buf, lamp, panel, clock, faults>>
  BY DEF FlipDone
<1>2. /\ crtc' \in Crtcs /\ crtc'.active = crtc.active /\ crtc'.fb = crtc.queued
      /\ crtc'.queued = None /\ crtc'.event
  BY <1>1, TypedParts DEF Crtcs, Fbs, BufferOrNone
<1>3. TypeOK'
  BY <1>1, <1>2, TypedParts, TypesNext
<1>4. PanelInv' /\ LampInv' /\ WarmInv' /\ BufInv'
  BY <1>1, <1>2 DEF IInv, PanelInv, LampInv, WarmInv, BufInv, NoFault
<1>5. PictureInv'
  BY <1>1, <1>2 DEF IInv, PictureInv, NoFault, Running
<1>6. FlipInv'
  BY <1>1, <1>2 DEF IInv, FlipInv, NoFault
<1>7. QED
  BY <1>3, <1>4, <1>5, <1>6 DEF IInv

LEMMA WaitEndsInv ==
  ASSUME IInv, WaitEnds
  PROVE  IInv'
<1>1. /\ pc = "wait" /\ pc' = "after"
      /\ crtc' = [crtc EXCEPT !.event = FALSE]
      /\ faults' = faults \union (IF crtc.event THEN {} ELSE {"late"})
      /\ buf' = Presented(buf.cur, buf.fbs)
      /\ UNCHANGED <<hud, lamp, panel, clock>>
  BY DEF WaitEnds
<1>2. buf.cur \in Buffers /\ buf.fbs \in SUBSET Buffers
  BY <1>1, TypedParts DEF Bufs, BufferOrNone, IInv, FlipInv
<1>3. /\ buf' \in Bufs /\ buf'.prev = buf.cur /\ buf.cur # None
      /\ buf'.free = (buf.free \union {buf.prev}) \ {buf.cur, None}
  BY <1>1, <1>2, PresentedIs
<1>4. /\ crtc' \in Crtcs /\ crtc'.active = crtc.active /\ crtc'.fb = crtc.fb
      /\ crtc'.queued = crtc.queued /\ ~crtc'.event
  BY <1>1, TypedParts DEF Crtcs
<1>5. TypeOK'
  BY <1>1, <1>3, <1>4, TypedParts, TypesNext DEF Pcs, Kinds
<1>6. PanelInv' /\ LampInv' /\ WarmInv'
  BY <1>1, <1>4 DEF IInv, PanelInv, LampInv, WarmInv, NoFault
<1>7. PictureInv'
  BY <1>1, <1>3, <1>4 DEF IInv, PictureInv, NoFault, Running
<1>8. FlipInv'
  BY <1>1, <1>3, <1>4, Apart DEF IInv, FlipInv, NoFault
<1>9. BufInv'
  <2>1. buf.prev \in Buffers \union {None}
    BY TypedParts DEF Bufs, BufferOrNone
  <2>2. "fb" \notin faults => buf.free = Buffers \ {buf.cur, buf.prev}
    BY <1>1 DEF IInv, BufInv
  <2>3. "fb" \notin faults => buf'.free = Buffers \ {buf.cur}
    BY <1>2, <1>3, <2>1, <2>2, Apart, Released
  <2>4. QED
    BY <1>1, <1>3, <2>3 DEF BufInv
<1>10. QED
  BY <1>5, <1>6, <1>7, <1>8, <1>9 DEF IInv

LEMMA FrameEndsInv ==
  ASSUME IInv, FrameEnds
  PROVE  IInv'
<1>1. /\ pc \in {"after", "skip"} /\ pc' = "loop"
      /\ UNCHANGED <<buf, panel, crtc, clock, faults>>
  BY DEF FrameEnds
<1>2. /\ hud' \in Huds /\ hud'.gl = hud.gl /\ hud'.off = hud.off /\ hud'.set = hud.set
      /\ hud'.pend => hud.pend
      /\ lamp' \in Lamps
      /\ \/ lamp' = lamp
         \/ lamp'.power /\ lamp'.bright /\ hud.pend
  <2>1. CASE hud.pend /\ (Enough \/ hud.warm)
    <3>1. /\ lamp' = LampOn /\ hud' = [hud EXCEPT !.pend = FALSE, !.frames = 0]
      BY <2>1 DEF FrameEnds
    <3>2. 0 \in 0 .. Frames
      BY ScreenAssumption
    <3>3. QED
      BY <2>1, <3>1, <3>2, TypedParts DEF Huds, Lamps, LampOn
  <2>2. CASE ~(hud.pend /\ (Enough \/ hud.warm))
    <3> DEFINE n == IF hud.pend /\ pc = "after" THEN hud.frames + 1 ELSE hud.frames
    <3>1. lamp' = lamp /\ hud' = [hud EXCEPT !.frames = n]
      BY <2>2 DEF FrameEnds
    <3>2. hud.frames \in 0 .. Frames /\ Frames \in Nat
      BY TypedParts, ScreenAssumption DEF Huds
    <3>3. n \in 0 .. Frames
      <4>1. CASE hud.pend /\ pc = "after"
        <5>1. ~(hud.frames + 1 >= Frames)
          BY <2>2, <4>1 DEF Enough
        <5>2. QED
          BY <3>2, <4>1, <5>1
      <4>2. CASE ~(hud.pend /\ pc = "after")
        BY <3>2, <4>2
      <4>3. QED
        BY <4>1, <4>2
    <3> HIDE DEF n
    <3>4. QED
      BY <3>1, <3>3, TypedParts DEF Huds
  <2>3. QED
    BY <2>1, <2>2
<1>3. TypeOK'
  BY <1>1, <1>2, TypedParts, TypesNext DEF Pcs
<1>4. LampInv'
  BY <1>1, <1>2 DEF IInv, LampInv, NoFault
<1>5. PictureInv'
  BY <1>1, <1>2 DEF IInv, LampInv, PictureInv, NoFault, Running
<1>6. PanelInv' /\ FlipInv' /\ BufInv' /\ WarmInv'
  BY <1>1 DEF IInv, PanelInv, FlipInv, BufInv, WarmInv, NoFault
<1>7. QED
  BY <1>3, <1>4, <1>5, <1>6 DEF IInv
-----------------------------------------------------------------------------
(* The invariant, and what follows from it.                                *)
LEMMA StutterInv ==
  ASSUME IInv, UNCHANGED vars
  PROVE  IInv'
<1>1. UNCHANGED <<pc, hud, buf, lamp, panel, crtc, clock, faults>>
  BY DEF vars
<1>2. TypeOK'
  BY <1>1, TypedParts, TypesNext
<1>3. QED
  BY <1>1, <1>2 DEF IInv, PanelInv, LampInv, PictureInv, FlipInv, BufInv, WarmInv, NoFault, Running

LEMMA StepInv == IInv /\ [Next]_vars => IInv'
<1> SUFFICES ASSUME IInv, [Next]_vars PROVE IInv'
  OBVIOUS
<1>1. CASE Launch \/ Start \/ Die
  BY <1>1, LaunchInv, StartInv, DieInv
<1>2. CASE Input \/ Tick
  BY <1>2, InputInv, TickInv
<1>3. CASE Frame
  BY <1>3, FrameSkippedInv, FrameNoneInv, FrameNoFbInv, FrameModesetInv, FrameFlipInv,
     FrameFlipFailsInv DEF Frame
<1>4. CASE FlipDone \/ WaitEnds \/ FrameEnds
  BY <1>4, FlipDoneInv, WaitEndsInv, FrameEndsInv
<1>5. CASE UNCHANGED vars
  BY <1>5, StutterInv
<1>6. QED
  BY <1>1, <1>2, <1>3, <1>4, <1>5 DEF Next

(* The invariant is inductive, over input inside a frame and failures.     *)
LEMMA Inductive == Spec => []IInv
BY InitInv, StepInv, PTL DEF Spec

(* The HUD's flags, buffers and lamp, the panel and the CRTC stay within   *)
(* the values the code gives them; the count of frames never passes its    *)
(* limit.                                                                  *)
THEOREM TypeCorrect == Spec => []TypeOK
<1>1. IInv => TypeOK
  BY DEF IInv
<1>2. QED
  BY <1>1, Inductive, PTL

(* A blanked screen is dark: set_screen(0) leaves no lamp that a frame in  *)
(* flight would light again, and a panel that shows nothing.               *)
THEOREM BlankDark == Spec => []BlankIsDark
<1>1. IInv => BlankIsDark
  BY DEF IInv, PanelInv, LampInv, BlankIsDark, Good, NoFault
<1>2. QED
  BY <1>1, Inductive, PTL

(* The lamp that restore_backlight lights has a picture before it.         *)
THEOREM LampShows == Spec => []LampShowsPicture
<1>1. ASSUME IInv PROVE LampShowsPicture
  <2>1. ASSUME Running, Lit, faults \intersect {"dcs", "crtc", "lock", "fb", "flip"} = {}
        PROVE  crtc.active /\ crtc.fb # None /\ panel.lit /\ panel.regs
    <3>1. lamp.power /\ ~hud.off
      BY <1>1, <2>1 DEF Lit, IInv, LampInv
    <3>2. crtc.active /\ crtc.fb # None
      BY <1>1, <2>1, <3>1 DEF IInv, PictureInv, NoFault
    <3>3. Good(panel, crtc.active)
      BY <1>1, <2>1 DEF IInv, PanelInv, NoFault
    <3>4. QED
      BY <3>2, <3>3 DEF Good
  <2>2. QED
    BY <2>1 DEF LampShowsPicture
<1>2. QED
  BY <1>1, Inductive, PTL

(* hud_gl_present releases no buffer that is shown or about to be.         *)
THEOREM NotFree == Spec => []ScreenNotFree
<1>1. ASSUME IInv PROVE ScreenNotFree
  <2>1. None \notin buf.free
    BY <1>1, TypedParts
  <2>2. ASSUME faults \intersect {"late", "flip", "crtc", "inside"} = {}
        PROVE  crtc.fb \notin buf.free /\ crtc.queued \notin buf.free
    <3>1. crtc.fb \notin buf.free
      BY <1>1, <2>2 DEF IInv, FlipInv, NoFault
    <3>2. crtc.queued = None \/ (pc = "wait" /\ crtc.queued = buf.cur)
      BY <1>1, <2>2 DEF IInv, FlipInv, NoFault
    <3>3. pc = "wait" => buf.cur \notin buf.free
      BY <1>1 DEF IInv, FlipInv
    <3>4. QED
      BY <2>1, <3>1, <3>2, <3>3
  <2>3. QED
    BY <2>2 DEF ScreenNotFree
<1>2. QED
  BY <1>1, Inductive, PTL

(* Between frames every buffer but the one kept for unblanking is free.    *)
THEOREM Kept == Spec => []BuffersKept
<1>1. IInv => BuffersKept
  BY DEF IInv, BufInv, BuffersKept
<1>2. QED
  BY <1>1, Inductive, PTL

(* restore_backlight is not reached before the warm-up is over.            *)
THEOREM Waits == Spec => LampWaits
<1>1. ASSUME IInv, [Next]_vars, Running, hud.gl, ~Lit, Lit', "inside" \notin faults
      PROVE  ~hud.off /\ (hud.frames + 1 >= Frames \/ clock.age > 0 \/ ~hud.pend)
  <2>1. lamp' # lamp
    BY <1>1 DEF Lit
  <2>2. CASE FrameEnds
    <3>1. hud.pend /\ (Enough \/ hud.warm)
      BY <2>1, <2>2 DEF FrameEnds
    <3>2. ~hud.off
      BY <1>1, <3>1 DEF IInv, LampInv
    <3>3. pc \in {"after", "skip"} /\ (hud.warm => clock.age > 0)
      BY <1>1, <2>2 DEF FrameEnds, IInv, WarmInv
    <3>4. QED
      BY <3>1, <3>2, <3>3 DEF Enough
  <2>3. CASE ScreenOff
    BY <1>1, <2>3 DEF ScreenOff, LampOff, Lit
  <2>4. CASE ScreenOn
    BY <1>1, <2>1, <2>4 DEF ScreenOn
  <2>5. CASE Slide
    <3>1. lamp' = [lamp EXCEPT !.bright = TRUE] /\ lamp \in Lamps /\ (lamp.power => lamp.bright)
      BY <1>1, <2>5, TypedParts DEF Slide, IInv, LampInv
    <3>2. lamp'.power = lamp.power
      BY <3>1 DEF Lamps
    <3>3. QED
      BY <1>1, <3>1, <3>2 DEF Lit
  <2>6. CASE Launch \/ Start
    BY <1>1, <2>6 DEF Launch, Start, Running
  <2>7. CASE Die \/ Tick \/ FlipDone \/ WaitEnds \/ UNCHANGED vars
    BY <2>1, <2>7 DEF Die, Tick, FlipDone, WaitEnds, vars
  <2>8. CASE Frame
    BY <2>1, <2>8 DEF Frame, FrameSkipped, FrameNone, FrameNoFb, FrameModeset, FrameFlip,
       FrameFlipFails, FrameStarts
  <2>9. QED
    BY <1>1, <2>2, <2>3, <2>4, <2>5, <2>6, <2>7, <2>8
       DEF Next, Input, PowerKey, TouchWake, IdleOff
<1>2. QED
  BY <1>1, Inductive, PTL DEF Spec, LampWaits
=============================================================================
