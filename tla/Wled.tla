-------------------------------- MODULE Wled --------------------------------
(***************************************************************************)
(* The backlight driver, drivers/video/backlight/qcom-wled.c, as it runs   *)
(* a version-4 module: the thread that sets the brightness, the threads of *)
(* the short-circuit and the over-voltage (OVP) interrupts and the delayed *)
(* work that unmasks the latter share the module's enable bit.  The driver *)
(* takes wled->lock around most of it; an action is what a thread does     *)
(* between two points where another can act.                               *)
(*                                                                         *)
(* External (modelled from how the driver uses it): the hardware, which    *)
(* raises both interrupts only while the module is on, and the interrupt   *)
(* core, which counts disable_irq and enable_irq and lets disable_irq wait *)
(* for a running handler.                                                  *)
(*                                                                         *)
(* Abstractions.  A brightness is on or off.  Whether a second has passed  *)
(* since the last event is a choice.  A string detection is one step with  *)
(* the outcomes: strings found, none found, a register access failed.  The *)
(* registers that setup writes once are left out.                          *)
(*                                                                         *)
(* An operator introduced by "Broken" is a faulty variant of the one after *)
(* it; no definition uses it.                                              *)
(***************************************************************************)
EXTENDS Integers

CONSTANTS
  ShortMax,  \* WLED_SHORT_CNT_MAX
  OvpMax     \* WLED_AUTO_DETECT_OVP_COUNT

ASSUME WledAssumption == ShortMax \in Nat /\ OvpMax \in Nat \ {0, 1}

VARIABLES
  auto,        \* cfg.auto_detection_enabled
  modEn,       \* MOD_EN: is the module on?
  brightness,  \* wled->brightness, not zero
  disabled,    \* disabled_by_short
  depth,       \* how often ovp_irq is disabled
  pending,     \* is ovp_work scheduled?
  lock,        \* who holds wled->lock
  upd, to,     \* where wled_update_status is, and the brightness it sets
  short,       \* where wled_short_irq_handler is
  shorts,      \* short_count
  ovp,         \* where wled_ovp_irq_handler is
  ovps,        \* auto_detection_ovp_count
  failed       \* has a register access failed? (history)

updater == <<upd, to, brightness>>
shorter == <<short, shorts>>
overvolt == <<ovp, ovps>>
module == <<modEn, depth, pending>>
vars == <<auto, module, disabled, lock, updater, shorter, overvolt, failed>>

TypeOK ==
  /\ auto \in BOOLEAN /\ modEn \in BOOLEAN /\ brightness \in BOOLEAN
  /\ disabled \in BOOLEAN /\ depth \in Int /\ pending \in BOOLEAN
  /\ lock \in {"none", "upd", "short"}
  /\ upd \in {"idle", "lock", "switch", "sync", "store"} /\ to \in BOOLEAN
  /\ short \in {"idle", "lock", "sync", "count", "sleep"} /\ shorts \in Nat
  /\ ovp \in {"idle", "check", "lock"} /\ ovps \in 0..OvpMax - 1
  /\ failed \in BOOLEAN

(* Broken: the interrupt is enabled when it is requested. *)
InitAutoEnabled ==
  /\ auto \in BOOLEAN /\ modEn \in BOOLEAN
  /\ disabled \in BOOLEAN /\ (disabled => auto /\ ~modEn)
  /\ brightness = FALSE /\ to = FALSE
  /\ depth = 0 /\ pending = FALSE /\ lock = "none"
  /\ upd = "idle" /\ short = "idle" /\ ovp = "idle"
  /\ shorts = 0 /\ ovps = 0
  /\ failed = FALSE

(* After the probe: IRQF_NO_AUTOEN; the boot loader may have left the      *)
(* module on, and a detection may have found no string.                    *)
Init ==
  /\ auto \in BOOLEAN /\ modEn \in BOOLEAN
  /\ disabled \in BOOLEAN /\ (disabled => auto /\ ~modEn)
  /\ brightness = FALSE /\ to = FALSE
  /\ depth = 1 /\ pending = FALSE /\ lock = "none"
  /\ upd = "idle" /\ short = "idle" /\ ovp = "idle"
  /\ shorts = 0 /\ ovps = 0
  /\ failed = FALSE
-----------------------------------------------------------------------------
(* wled_module_enable, and the work.                                       *)

(* Broken: a module disabled by a short circuit is enabled. *)
ModuleOnAlways == modEn' = TRUE /\ pending' = TRUE /\ UNCHANGED depth

(* schedule_delayed_work does nothing when the work is pending.            *)
ModuleOn == ~disabled /\ modEn' = TRUE /\ pending' = TRUE /\ UNCHANGED depth

(* Broken: disable_irq whether or not the work was cancelled. *)
ModuleOffTwice ==
  ~disabled /\ modEn' = FALSE /\ pending' = FALSE /\ depth' = depth + 1

ModuleOff ==
  /\ ~disabled
  /\ modEn' = FALSE
  /\ pending' = FALSE
  /\ depth' = IF pending THEN depth ELSE depth + 1

(* The call is refused, or its register access fails.                      *)
ModuleFails ==
  /\ \/ disabled /\ UNCHANGED failed
     \/ failed' = TRUE
  /\ UNCHANGED module

OvpWork ==
  /\ pending
  /\ pending' = FALSE /\ depth' = depth - 1
  /\ UNCHANGED <<auto, modEn, disabled, lock, updater, shorter, overvolt, failed>>
-----------------------------------------------------------------------------
(* wled_update_status.                                                     *)

UpdRuns == UNCHANGED <<auto, disabled, shorter, overvolt>>

UpdStart(b) ==
  /\ upd = "idle" /\ upd' = "lock" /\ to' = b /\ UpdRuns
  /\ UNCHANGED <<module, lock, brightness, failed>>

UpdLock ==
  /\ upd = "lock" /\ lock = "none" /\ UpdRuns
  /\ lock' = "upd" /\ upd' = "switch"
  /\ UNCHANGED <<module, to, brightness, failed>>

(* The module is switched only when the brightness becomes or leaves zero; *)
(* disable_irq waits for the handler.                                      *)
UpdSwitch ==
  /\ upd = "switch" /\ UpdRuns
  /\ \/ to = brightness /\ upd' = "store" /\ UNCHANGED module
     \/ to /\ ~brightness /\ upd' = "store" /\ ModuleOn
     \/ ~to /\ brightness /\ upd' = "sync" /\ ModuleOff
  /\ UNCHANGED <<to, brightness, lock, failed>>

(* An error: the brightness cannot be written, or the module not switched. *)
UpdFails ==
  /\ upd = "switch" /\ UpdRuns
  /\ to \/ brightness
  /\ upd' = "idle" /\ lock' = "none"
  /\ ModuleFails
  /\ UNCHANGED <<to, brightness>>

UpdSync ==
  /\ upd = "sync" /\ ovp = "idle" /\ UpdRuns
  /\ upd' = "store"
  /\ UNCHANGED <<module, to, brightness, lock, failed>>

UpdStore ==
  /\ upd = "store" /\ UpdRuns
  /\ brightness' = to
  /\ upd' = "idle" /\ lock' = "none"
  /\ UNCHANGED <<module, to, failed>>

Upd == (\E b \in BOOLEAN : UpdStart(b))
       \/ UpdLock \/ UpdSwitch \/ UpdFails \/ UpdSync \/ UpdStore
-----------------------------------------------------------------------------
(* wled_short_irq_handler.                                                 *)

ShortRuns == UNCHANGED <<auto, updater, overvolt>>

(* The count is not under the lock.                                        *)
ShortStart ==
  /\ modEn /\ short = "idle" /\ ShortRuns
  /\ short' = "lock" /\ shorts' = shorts + 1
  /\ UNCHANGED <<module, disabled, lock, failed>>

ShortOff ==
  /\ short = "lock" /\ lock = "none" /\ ShortRuns
  /\ lock' = "short" /\ short' = "sync"
  /\ ModuleOff
  /\ UNCHANGED <<disabled, shorts, failed>>

ShortOffFails ==
  /\ short = "lock" /\ lock = "none" /\ ShortRuns
  /\ short' = "idle"
  /\ ModuleFails
  /\ UNCHANGED <<disabled, shorts, lock>>

ShortSync ==
  /\ short = "sync" /\ ovp = "idle" /\ ShortRuns
  /\ short' = "count"
  /\ UNCHANGED <<module, disabled, shorts, lock, failed>>

(* The last short circuit may be more than a second ago.                   *)
ShortCount ==
  /\ short = "count" /\ ShortRuns
  /\ shorts' \in {shorts, 1}
  /\ IF shorts' > ShortMax
       THEN disabled' = TRUE /\ short' = "idle" /\ lock' = "none"
       ELSE short' = "sleep" /\ UNCHANGED <<disabled, lock>>
  /\ UNCHANGED <<module, failed>>

(* Broken: the module is left off. *)
ShortOnSkipped ==
  /\ short = "sleep" /\ ShortRuns
  /\ short' = "idle" /\ lock' = "none"
  /\ UNCHANGED <<module, disabled, shorts, failed>>

ShortOn ==
  /\ short = "sleep" /\ ShortRuns
  /\ short' = "idle" /\ lock' = "none"
  /\ \/ ModuleOn /\ UNCHANGED failed
     \/ ModuleFails
  /\ UNCHANGED <<disabled, shorts>>

Short == ShortStart \/ ShortOff \/ ShortOffFails \/ ShortSync \/ ShortCount \/ ShortOn
-----------------------------------------------------------------------------
(* wled_ovp_irq_handler, wled4_auto_detection_required and                 *)
(* wled_auto_string_detection.                                             *)

OvpRuns == UNCHANGED <<auto, updater, shorter>>

OvpStart ==
  /\ modEn /\ depth <= 0 /\ ovp = "idle" /\ OvpRuns
  /\ ovp' = "check"
  /\ UNCHANGED <<module, disabled, ovps, lock, failed>>

(* Broken: the lock is taken whether or not a detection is enabled. *)
OvpCheckAlways ==
  /\ ovp = "check" /\ OvpRuns
  /\ IF ovps + 1 = OvpMax THEN ovps' = 0 /\ ovp' = "lock"
                          ELSE ovps' = ovps + 1 /\ ovp' = "idle"
  /\ UNCHANGED <<module, disabled, lock, failed>>

(* The fault is gone, or there is no detection; else faults count from the *)
(* first one, for a second.                                                *)
OvpCheck ==
  /\ ovp = "check" /\ OvpRuns
  /\ \/ ovp' = "idle" /\ UNCHANGED ovps
     \/ auto /\ ovps > 0 /\ ovps' = 0 /\ ovp' = "idle"
     \/ auto /\ (IF ovps + 1 = OvpMax THEN ovps' = 0 /\ ovp' = "lock"
                                      ELSE ovps' = ovps + 1 /\ ovp' = "idle")
  /\ UNCHANGED <<module, disabled, lock, failed>>

(* The lock is taken and released within the step.                         *)
OvpDetect ==
  /\ ovp = "lock" /\ lock = "none" /\ OvpRuns
  /\ ovp' = "idle"
  /\ \/ modEn' = TRUE /\ UNCHANGED <<disabled, failed>>
     \/ modEn' = FALSE /\ disabled' = TRUE /\ UNCHANGED failed
     \/ modEn' \in BOOLEAN /\ failed' = TRUE /\ UNCHANGED disabled
  /\ UNCHANGED <<depth, pending, ovps, lock>>

Ovp == OvpStart \/ OvpCheck \/ OvpDetect
-----------------------------------------------------------------------------
Next == OvpWork \/ Upd \/ Short \/ Ovp

Spec == Init /\ [][Next]_vars

(* Threads run to the end of what they do, the mutex and the work queue    *)
(* are fair.  Nobody has to set a brightness, and no fault has to happen.  *)
Fairness ==
  /\ WF_vars(OvpWork)
  /\ SF_vars(UpdLock) /\ WF_vars(UpdSwitch \/ UpdFails \/ UpdSync \/ UpdStore)
  /\ SF_vars(ShortOff \/ ShortOffFails) /\ WF_vars(ShortSync \/ ShortCount \/ ShortOn)
  /\ WF_vars(OvpCheck) /\ SF_vars(OvpDetect)
-----------------------------------------------------------------------------
(* enable_irq is never called for an interrupt that is not disabled, over  *)
(* all sequences of switching on and off, short circuits, failures and     *)
(* delayed work (the oops that the comment in wled_configure_ovp_irq tells *)
(* of).                                                                    *)
IrqBalanced == depth >= 0

(* The calls of disable_irq and enable_irq that are still owed: what makes *)
(* IrqBalanced inductive.                                                  *)
Owed == IF pending THEN depth - 1 ELSE depth

IrqInv ==
  Owed >= (IF upd = "store" \/ upd = "sync"
             THEN IF to THEN 0 ELSE 1
             ELSE IF brightness THEN 0 ELSE 1)
          + (IF short \in {"sync", "count", "sleep"} THEN 1 ELSE 0)

(* A module that was disabled for good after short circuits, or without a  *)
(* valid string, is never on again, although detections write MOD_EN       *)
(* without looking at disabled_by_short ("disabling WLED forever!").       *)
DisabledForever == [][disabled /\ ~modEn => ~modEn']_vars

(* Without string detection, no thread waits in disable_irq, which         *)
(* wled_module_enable calls with the lock held, for an interrupt handler   *)
(* that waits for the lock: setting a brightness ends, and so does the     *)
(* handling of a short circuit.                                            *)
NoDeadlock ==
  /\ ~auto /\ upd # "idle" ~> upd = "idle"
  /\ ~auto /\ short # "idle" ~> short = "idle"
=============================================================================
