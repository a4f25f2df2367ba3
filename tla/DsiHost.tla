------------------------------ MODULE DsiHost -------------------------------
(***************************************************************************)
(* The DSI manager and host, drivers/gpu/drm/msm/dsi: what the bridge's    *)
(* pre_enable and post_disable do to power, clocks, interrupt and          *)
(* controller, and how commands for the panel are sent next to it.  A      *)
(* modeset runs under DRM's locks, so there is one at a time; commands     *)
(* come from the panel driver within a modeset (the client Panel) and from *)
(* whoever reads or writes panel_sleep in sysfs.  The interrupt handler    *)
(* and the error worker run beside them.                                   *)
(*                                                                         *)
(* External (modelled from how the driver uses it): the controller, whose  *)
(* interrupt register holds latched status bits next to their masks, the   *)
(* former cleared by writing them back; DRM, which calls post_disable also *)
(* when pre_enable has failed; clocks and runtime PM, as counts.           *)
(*                                                                         *)
(* Abstractions.  One link (no bonded DSI), and the panel of this phone,   *)
(* which runs in command mode: its mode_flags lack MIPI_DSI_MODE_VIDEO.  A *)
(* register is the bits the driver's control depends on.  A read transfer  *)
(* is the transfers it is made of.  A wait for a DMA times out only when   *)
(* no completion is on its way.                                            *)
(*                                                                         *)
(* An operator introduced by "Broken" is a faulty variant of the one after *)
(* it; no definition uses it.                                              *)
(***************************************************************************)
EXTENDS Integers

CONSTANTS
  Clients,  \* who sends commands
  Panel     \* the panel driver, which sends them within a modeset

None == "none"
ASSUME DsiAssumption == Panel \in Clients /\ None \notin Clients

VARIABLES
  at,       \* at[c]: where the transfer of client c is
  result,   \* result[c]: what its command is going to return
  sent,     \* sent[c]: has the controller sent it? (history)
  cmd,      \* who holds cmd_mutex
  saved,    \* dma_cmd_ctrl_restore
  comp,     \* dma_comp
  bridge,   \* where the modeset is
  phy,      \* phy_enabled
  held,     \* analog_held
  power,    \* power_on
  depth,    \* how often the interrupt is disabled
  pm, clk,  \* references to runtime PM and to the link clocks
  ctrl,     \* DSI_CTRL_ENABLE
  mask,     \* the interrupts that are enabled in the controller
  status,   \* the interrupts that are latched in it
  isr,      \* what the interrupt handler has still to handle
  queued,   \* is the error worker queued?
  work,     \* the error worker: no, running, or in the middle of a reset
  dma,      \* whose command the controller is sending
  late,     \* is a command still being sent after its wait timed out?
  faults    \* the kinds of fault there have been (history)

xfer == <<at, result, sent, cmd, saved, comp>>
modeset == <<bridge, phy, held, power>>
worker == <<queued, work>>
irq == <<mask, status>>
counts == <<depth, pm, clk>>
hardware == <<dma, late>>
vars == <<xfer, modeset, counts, ctrl, irq, isr, worker, hardware, faults>>

Bits == {"dma", "err"}          \* DMA_DONE and ERROR
Masks == Bits \union {"mdp"}    \* and CMD_MDP_DONE
Places == {"idle", "lock", "prepare", "enable", "unmask", "reinit",
           "trigger", "wait", "mask", "restore"}
Bridges == {"down", "power", "irq", "enable", "up", "mask", "off"}
Faults == {"powerOn", "clockLeak", "xferClock"}

TypeOK ==
  /\ at \in [Clients -> Places] /\ sent \in [Clients -> BOOLEAN]
  /\ result \in [Clients -> {"none", "ok", "refused", "timeout"}]
  /\ cmd \in Clients \union {None} /\ saved \in BOOLEAN /\ comp \in BOOLEAN
  /\ bridge \in Bridges /\ phy \in BOOLEAN /\ held \in BOOLEAN /\ power \in BOOLEAN
  /\ depth \in Nat /\ pm \in Int /\ clk \in Int /\ ctrl \in BOOLEAN
  /\ mask \subseteq Masks /\ status \subseteq Bits /\ isr \subseteq Bits
  /\ queued \in BOOLEAN /\ work \in {"no", "running", "reset"}
  /\ dma \in Clients \union {None} /\ late \in BOOLEAN
  /\ faults \subseteq Faults

(* Broken: the interrupt is requested without IRQF_NO_AUTOEN. *)
InitAutoEnabled ==
  /\ at = [c \in Clients |-> "idle"] /\ result = [c \in Clients |-> "none"]
  /\ sent = [c \in Clients |-> FALSE]
  /\ cmd = None /\ saved = FALSE /\ comp = FALSE
  /\ bridge = "down" /\ phy = FALSE /\ held = FALSE /\ power = FALSE
  /\ depth = 0 /\ pm = 0 /\ clk = 0 /\ ctrl = FALSE
  /\ mask = {} /\ status = {} /\ isr = {} /\ queued = FALSE /\ work = "no"
  /\ dma = None /\ late = FALSE /\ faults = {}

Init ==
  /\ at = [c \in Clients |-> "idle"] /\ result = [c \in Clients |-> "none"]
  /\ sent = [c \in Clients |-> FALSE]
  /\ cmd = None /\ saved = FALSE /\ comp = FALSE
  /\ bridge = "down" /\ phy = FALSE /\ held = FALSE /\ power = FALSE
  /\ depth = 1 /\ pm = 0 /\ clk = 0 /\ ctrl = FALSE
  /\ mask = {} /\ status = {} /\ isr = {} /\ queued = FALSE /\ work = "no"
  /\ dma = None /\ late = FALSE /\ faults = {}


(* A transfer that uses the controller.                                    *)
Using(c) == at[c] \notin {"idle", "lock", "prepare"}
Busy == \E c \in Clients : Using(c)
-----------------------------------------------------------------------------
(* dsi_intr_ctrl.  Writing the register back clears what is latched in it. *)
IntrOn(bits)  == mask' = mask \union bits /\ status' = {}
IntrOff(bits) == mask' = mask \ bits /\ status' = {}

(* A client moves on, and what else the step leaves alone.                 *)
Moves(c, from, to) == at[c] = from /\ at' = [at EXCEPT ![c] = to]
XferStep == UNCHANGED <<modeset, depth, isr, worker>>

(* dsi_host_transfer; power_on is read without dev_mutex.  Without power   *)
(* it returns at once.                                                     *)
XferStart(c) ==
  /\ at[c] = "idle" /\ power
  /\ c = Panel => bridge = "up"
  /\ at' = [at EXCEPT ![c] = "lock"]
  /\ XferStep
  /\ UNCHANGED <<result, sent, cmd, saved, comp, pm, clk, ctrl, irq, hardware, faults>>

XferLock(c) ==
  /\ Moves(c, "lock", "prepare")
  /\ cmd = None /\ cmd' = c
  /\ XferStep
  /\ UNCHANGED <<result, sent, saved, comp, pm, clk, ctrl, irq, hardware, faults>>

(* msm_dsi_host_xfer_prepare, in four steps.  The result of                *)
(* link_clk_enable is ignored.                                             *)
XferPrepare(c) ==
  /\ Moves(c, "prepare", "enable")
  /\ pm' = pm + 1
  /\ \E ok \in BOOLEAN :
       /\ clk' = IF ok THEN clk + 1 ELSE clk
       /\ faults' = IF ok THEN faults ELSE faults \union {"xferClock"}
  /\ XferStep
  /\ UNCHANGED <<result, sent, cmd, saved, comp, ctrl, irq, hardware>>

(* Broken: the register is not kept for xfer_restore. *)
XferEnableUnsaved(c) ==
  /\ Moves(c, "enable", "unmask")
  /\ ctrl' = TRUE
  /\ XferStep
  /\ UNCHANGED <<result, sent, cmd, saved, comp, pm, clk, irq, hardware, faults>>

XferEnable(c) ==
  /\ Moves(c, "enable", "unmask")
  /\ saved' = ctrl /\ ctrl' = TRUE
  /\ XferStep
  /\ UNCHANGED <<result, sent, cmd, comp, pm, clk, irq, hardware, faults>>

(* Broken: the interrupt is not unmasked. *)
XferUnmaskSkipped(c) ==
  /\ Moves(c, "unmask", "reinit")
  /\ XferStep
  /\ UNCHANGED <<result, sent, cmd, saved, comp, pm, clk, ctrl, irq, hardware, faults>>

XferUnmask(c) ==
  /\ Moves(c, "unmask", "reinit")
  /\ IntrOn({"dma"})
  /\ XferStep
  /\ UNCHANGED <<result, sent, cmd, saved, comp, pm, clk, ctrl, hardware, faults>>

(* Broken: the completion is not initialised again. *)
XferReinitSkipped(c) ==
  /\ Moves(c, "reinit", "trigger")
  /\ XferStep
  /\ UNCHANGED <<result, sent, cmd, saved, comp, pm, clk, ctrl, irq, hardware, faults>>

(* dsi_cmd_dma_tx, up to the wait.                                         *)
XferReinit(c) ==
  /\ Moves(c, "reinit", "trigger")
  /\ comp' = FALSE
  /\ XferStep
  /\ UNCHANGED <<result, sent, cmd, saved, pm, clk, ctrl, irq, hardware, faults>>

(* The command does not fit into the buffer, or the buffer has no address. *)
XferRefused(c) ==
  /\ Moves(c, "reinit", "mask")
  /\ result' = [result EXCEPT ![c] = "refused"]
  /\ XferStep
  /\ UNCHANGED <<sent, cmd, saved, comp, pm, clk, ctrl, irq, hardware, faults>>

XferTrigger(c) ==
  /\ Moves(c, "trigger", "wait")
  /\ dma' = c /\ sent' = [sent EXCEPT ![c] = FALSE]
  /\ XferStep
  /\ UNCHANGED <<result, cmd, saved, comp, pm, clk, ctrl, irq, late, faults>>

XferDone(c) ==
  /\ Moves(c, "wait", "mask")
  /\ comp /\ comp' = FALSE
  /\ result' = [result EXCEPT ![c] = "ok"]
  /\ XferStep
  /\ UNCHANGED <<sent, cmd, saved, pm, clk, ctrl, irq, hardware, faults>>

(* Will the interrupt of the client's command still arrive?                *)
OnItsWay == comp \/ "dma" \in isr \/ (depth = 0 /\ "dma" \in mask \intersect status)

XferTimeout(c) ==
  /\ Moves(c, "wait", "mask")
  /\ ~OnItsWay
  /\ result' = [result EXCEPT ![c] = "timeout"]
  /\ \/ dma # c /\ UNCHANGED hardware
     \/ dma = c /\ dma' = None /\ late' = TRUE
  /\ XferStep
  /\ UNCHANGED <<sent, cmd, saved, comp, pm, clk, ctrl, irq, faults>>

XferMask(c) ==
  /\ Moves(c, "mask", "restore")
  /\ IntrOff({"dma"})
  /\ XferStep
  /\ UNCHANGED <<result, sent, cmd, saved, comp, pm, clk, ctrl, hardware, faults>>

(* msm_dsi_host_xfer_restore                                               *)
XferRestore(c) ==
  /\ Moves(c, "restore", "idle")
  /\ ctrl' = saved
  /\ clk' = clk - 1 /\ pm' = pm - 1
  /\ cmd' = None /\ result' = [result EXCEPT ![c] = "none"]
  /\ XferStep
  /\ UNCHANGED <<sent, saved, comp, irq, hardware, faults>>

Xfer(c) ==
  \/ XferStart(c) \/ XferLock(c) \/ XferPrepare(c) \/ XferEnable(c)
  \/ XferUnmask(c) \/ XferReinit(c) \/ XferRefused(c) \/ XferTrigger(c)
  \/ XferDone(c) \/ XferTimeout(c) \/ XferMask(c) \/ XferRestore(c)
-----------------------------------------------------------------------------
(* dsi_mgr_bridge_pre_enable and dsi_mgr_bridge_post_disable.              *)

ModesetStep == UNCHANGED <<xfer, isr, worker, hardware>>

(* A failure is only logged: for DRM the bridge is enabled.                *)
PowerOnFails ==
  /\ bridge' = "up"
  /\ UNCHANGED <<depth, clk, ctrl, irq, power>>

(* dsi_mgr_phy_enable; the PHY stays enabled.                              *)
OnPhy ==
  /\ bridge = "down"
  /\ \/ bridge' = "power" /\ phy' = TRUE
        /\ UNCHANGED <<depth, clk, ctrl, irq, power, faults>>
     \/ ~phy /\ PowerOnFails /\ UNCHANGED phy
        /\ faults' = faults \union {"powerOn"}
  /\ ModesetStep
  /\ UNCHANGED <<held, pm>>

(* msm_dsi_host_power_on                                                   *)
OnPower ==
  /\ bridge = "power"
  /\ bridge' = "irq" /\ held' = TRUE /\ power' = TRUE
  /\ IF power
       THEN UNCHANGED <<pm, clk, ctrl, irq>>
       ELSE /\ pm' = pm + 1 /\ clk' = clk + 1
            /\ ctrl' = TRUE /\ IntrOn({"err"})
  /\ ModesetStep
  /\ UNCHANGED <<phy, depth, faults>>

(* The regulators cannot be enabled, or a rate or the pins not be set.     *)
OnPowerFails ==
  /\ bridge = "power" /\ ~power
  /\ PowerOnFails
  /\ held' \in {held, TRUE}
  /\ faults' = faults \union {"powerOn"}
  /\ ModesetStep
  /\ UNCHANGED <<phy, pm>>

(* The link clocks cannot be enabled: the reference to runtime PM is kept. *)
OnClockFails ==
  /\ bridge = "power" /\ ~power
  /\ PowerOnFails
  /\ held' = TRUE /\ pm' = pm + 1
  /\ faults' = faults \union {"powerOn", "clockLeak"}
  /\ ModesetStep
  /\ UNCHANGED phy

(* Broken: the interrupt is not enabled. *)
OnIrqSkipped ==
  /\ bridge = "irq" /\ bridge' = "enable"
  /\ ModesetStep
  /\ UNCHANGED <<phy, held, power, counts, ctrl, irq, faults>>

OnIrq ==
  /\ bridge = "irq" /\ bridge' = "enable"
  /\ depth' = depth - 1
  /\ ModesetStep
  /\ UNCHANGED <<phy, held, power, pm, clk, ctrl, irq, faults>>

(* msm_dsi_host_enable                                                     *)
OnEnable ==
  /\ bridge = "enable" /\ bridge' = "up"
  /\ ctrl' = TRUE /\ IntrOn({"mdp"})
  /\ ModesetStep
  /\ UNCHANGED <<phy, held, power, counts, faults>>

(* msm_dsi_host_disable                                                    *)
OffQuiet ==
  /\ bridge = "up" /\ at[Panel] = "idle" /\ bridge' = "mask"
  /\ ctrl' = FALSE /\ IntrOff({"mdp"})
  /\ ModesetStep
  /\ UNCHANGED <<phy, held, power, counts, faults>>

OffMask ==
  /\ bridge = "mask" /\ bridge' = "off"
  /\ depth' = depth + 1
  /\ ModesetStep
  /\ UNCHANGED <<phy, held, power, pm, clk, ctrl, irq, faults>>

(* Broken: the host is powered off although it is not on. *)
OffPowerAlways ==
  /\ bridge = "off" /\ isr = {} /\ bridge' = "down"
  /\ power' = FALSE
  /\ ctrl' = FALSE /\ clk' = clk - 1 /\ pm' = pm - 1
  /\ ModesetStep
  /\ UNCHANGED <<phy, held, depth, irq, faults>>

(* msm_dsi_host_power_off, when disable_irq has waited for the handler.    *)
OffPower ==
  /\ bridge = "off" /\ isr = {} /\ bridge' = "down"
  /\ power' = FALSE
  /\ IF power
       THEN ctrl' = FALSE /\ clk' = clk - 1 /\ pm' = pm - 1
       ELSE UNCHANGED <<ctrl, clk, pm>>
  /\ ModesetStep
  /\ UNCHANGED <<phy, held, depth, irq, faults>>

Modeset == OnPhy \/ OnPower \/ OnPowerFails \/ OnClockFails \/ OnIrq \/ OnEnable
           \/ OffQuiet \/ OffMask \/ OffPower
-----------------------------------------------------------------------------
(* dsi_host_irq, dsi_error and dsi_err_worker.                             *)

IrqStep == UNCHANGED <<at, result, sent, cmd, saved, modeset, counts, hardware, faults>>

(* The handler acknowledges everything that is latched, masked or not, and *)
(* handles it.  A frame that is done may be what interrupts.               *)
IrqRead ==
  /\ isr = {} /\ depth = 0 /\ status # {}
  /\ mask \intersect (status \union {"mdp"}) # {}
  /\ isr' = status /\ status' = {}
  /\ IrqStep
  /\ UNCHANGED <<comp, mask, ctrl, worker>>

IrqError ==
  /\ "err" \in isr /\ isr' = isr \ {"err"}
  /\ IntrOff({"err"})
  /\ queued' = TRUE
  /\ IrqStep
  /\ UNCHANGED <<comp, ctrl, work>>

(* The completion of a late command may be taken for that of the next one. *)
IrqDma ==
  /\ isr = {"dma"} /\ isr' = {}
  /\ comp' = TRUE
  /\ IrqStep
  /\ UNCHANGED <<irq, ctrl, worker>>

(* A FIFO underflow resets the controller, which is disabled meanwhile.    *)
WorkStart ==
  /\ queued /\ work = "no" /\ queued' = FALSE
  /\ \/ work' = "running" /\ UNCHANGED ctrl
     \/ ctrl' = FALSE /\ work' = (IF ctrl THEN "reset" ELSE "running")
  /\ IrqStep
  /\ UNCHANGED <<comp, irq, isr>>

WorkEnd ==
  /\ work # "no" /\ work' = "no"
  /\ ctrl' = (ctrl \/ work = "reset")
  /\ IntrOn({"err"})
  /\ IrqStep
  /\ UNCHANGED <<comp, isr, queued>>

Irq == IrqRead \/ IrqError \/ IrqDma
Work == WorkStart \/ WorkEnd
-----------------------------------------------------------------------------
(* The controller.                                                         *)

HwStep == UNCHANGED <<at, result, cmd, saved, comp, modeset, counts, ctrl, mask, isr, worker,
                      faults>>

DmaDone ==
  /\ dma # None /\ clk > 0
  /\ dma' = None /\ sent' = [sent EXCEPT ![dma] = TRUE]
  /\ status' = status \union {"dma"}
  /\ HwStep
  /\ UNCHANGED late

LateDone ==
  /\ late /\ late' = FALSE
  /\ status' = status \union {"dma"}
  /\ HwStep
  /\ UNCHANGED <<sent, dma>>

LinkError ==
  /\ power /\ "err" \notin status
  /\ status' = status \union {"err"}
  /\ HwStep
  /\ UNCHANGED <<sent, hardware>>

Controller == DmaDone \/ LateDone \/ LinkError
-----------------------------------------------------------------------------
Next == (\E c \in Clients : Xfer(c)) \/ Modeset \/ Irq \/ Work \/ Controller

Spec == Init /\ [][Next]_vars
-----------------------------------------------------------------------------
B(x) == IF x THEN 1 ELSE 0

(* While the bridge is enabled "the panel can communicate over the DSI     *)
(* link": the host's interrupt is enabled.                                 *)
PanelCanTalk == bridge = "up" /\ power => depth = 0

(* The controller's interrupt is never enabled while the host has no       *)
(* power, enable_irq is never called too often, whatever power-ons failed  *)
(* in between, and until the first that fails the panel can talk.          *)
IrqFollowsPower ==
  /\ depth >= 0
  /\ depth = 0 => power
  /\ "powerOn" \notin faults => PanelCanTalk

(* The link clocks run exactly as often as the powered host and the        *)
(* transfer in progress ask for them, over failed power-ons too (only a    *)
(* failure inside a transfer, which nobody looks at, breaks this), and so  *)
(* does the reference that keeps the device out of runtime suspend ("gates *)
(* link clocks and pm_runtime_put"; a power-on whose clocks cannot be      *)
(* enabled leaks one).                                                     *)
HeldWhileUsed ==
  /\ "xferClock" \notin faults => clk = B(power) + B(Busy)
  /\ "clockLeak" \notin faults => pm = B(power) + B(Busy)
=============================================================================
