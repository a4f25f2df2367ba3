------------------------------- MODULE Smbchg -------------------------------
(***************************************************************************)
(* The charger driver, drivers/power/supply/qcom-smbchg.c, with the        *)
(* secured writes of drivers/soc/qcom/pmic-sec-write.c.  A thread that     *)
(* sets properties through sysfs, the threads of the interrupts, the OTG   *)
(* reset work and the probe share the registers without a lock; an action  *)
(* is one register access of one of them.                                  *)
(*                                                                         *)
(* External (modelled from how the driver uses it): what is plugged into   *)
(* the port, the over-current protection, the consumer of the regulator.   *)
(*                                                                         *)
(* Abstractions.  A register is the fields the driver uses, by name.  A    *)
(* secured write is split into its read and its write for the one register *)
(* (CHGPTH_CFG) of which two threads write different fields.  The port     *)
(* does not change during the probe.  A CDP counts as a DCP.  The samples  *)
(* of one extcon update are taken in one step: what changes in between     *)
(* raises an interrupt of its own.  The extcon VBUS properties, the other  *)
(* getters and the handlers that only report are left out.  A failed       *)
(* register read counts as a failed call.                                  *)
(*                                                                         *)
(* An operator introduced by "Broken" is a faulty variant of the one after *)
(* it; no definition uses it.                                              *)
(***************************************************************************)
EXTENDS Integers, FiniteSetsExt

CONSTANTS
  IlimMax,    \* ilim_table_len - 1
  IlimTable,  \* chip->data->ilim_table
  BattMax,    \* batt_info->constant_charge_current_max_ua
  Targets,    \* the currents written to the power supply's properties
  OtgRetries  \* NUM_OTG_RESET_RETRIES

ASSUME SmbchgAssumption ==
  /\ IlimMax \in Nat \ {0}
  /\ IlimTable \in [0..IlimMax -> Nat \ {0}]
  /\ \A i, j \in 0..IlimMax : i < j => IlimTable[i] < IlimTable[j]
  /\ BattMax \in Nat /\ BattMax >= IlimTable[0]
  /\ Targets \subseteq Nat
  /\ OtgRetries \in Nat

VARIABLES
  reg,        \* the registers' fields
  probe,      \* where smbchg_probe is in smbchg_init
  user,       \* where the sysfs thread is in smbchg_usb_set_ilim
  target,     \* its current_ua
  result,     \* what the last set_ilim returned; 0 while it runs, or an error
  src, id,    \* where the threads of usbin-src-det and usbid-change are
  temp,       \* where the thread of temp-shutdown is
  seen,       \* the port as the first two have sampled it (none: not sampled)
  cfg,        \* CHGPTH_CFG as a secured write under way has read it
  irqs,       \* interrupts that are not handled yet
  port,       \* what is plugged in
  ext,        \* the extcon cables: the kind of port they tell of
  resets,     \* otg_resets
  queued,     \* is otg_reset_work pending?
  resetting,  \* does otg_reset_worker sleep?
  wanted,     \* does a consumer have the regulator enabled?
  failed      \* has a register access failed? (history)

setter == <<user, target, result>>
threads == <<src, id, temp, seen>>
otg == <<resets, queued, resetting, wanted>>
vars == <<reg, probe, setter, threads, cfg, irqs, port, ext, otg, failed>>

Ports == {"none", "SDP", "DCP", "OTG"}

LcTable == [i \in 0..3 |-> CASE i = 0 -> 100 [] i = 1 -> 150 [] i = 2 -> 500 [] i = 3 -> 900]

LcIndex(usb3, full) == (IF usb3 THEN 1 ELSE 0) + (IF full THEN 2 ELSE 0)

(* Broken: the scan stops one entry late. *)
FindClosestSmallerLate(x, a, last) == Min({i \in 0..last : i = last \/ x < a[i]})

(* find_closest_smaller(x, a, last + 1).                                   *)
FindClosestSmaller(x, a, last) == Min({i \in 0..last : i = last \/ x < a[i + 1]})

UsesLc(c) == c < IlimTable[0] \/ \E i \in 0..3 : c = LcTable[i]

LcChoice(c) == FindClosestSmaller(c, LcTable, 3)
HcChoice(c) == FindClosestSmaller(c, IlimTable, IlimMax)

LimitFor(c) == IF UsesLc(c) THEN LcTable[LcChoice(c)] ELSE IlimTable[HcChoice(c)]

(* smbchg_usb_get_ilim; with AICL the hardware decides, up to the index.   *)
LcLimit(r) == LcTable[LcIndex(r.cfg.usb3, r.full)]
GetIlim(r) == IF r.hc THEN IlimTable[r.idx] ELSE LcLimit(r)

Cfgs == [usb3 : BOOLEAN, command : BOOLEAN]
NoCfg == [usb3 |-> FALSE, command |-> FALSE]

TypeOK ==
  /\ reg \in [cfg : Cfgs, full : BOOLEAN, hc : BOOLEAN, override : BOOLEAN,
              idx : 0..IlimMax, fcc : 0..IlimMax, aicl : BOOLEAN, suspend : BOOLEAN,
              charging : BOOLEAN, otg : BOOLEAN, tripped : BOOLEAN]
  /\ probe \in {"fcc", "charging", "cfgRead", "cfgWrite", "detect", "detecting",
                "done", "failed"}
  /\ user \in {"idle", "off", "cfgRead", "usb3", "full", "lc", "index", "force",
               "aicl", "path"}
  /\ target \in Targets /\ result \in Nat
  /\ src \in {"idle", "override", "hc", "index", "aicl", "path", "sample", "set"}
  /\ id \in {"idle", "sample", "set"} /\ temp \in {"idle", "path"}
  /\ seen \in [{"src", "id"} -> Ports]
  /\ cfg \in [{"user", "probe"} -> Cfgs]
  /\ irqs \subseteq {"src", "id", "temp", "oc"}
  /\ port \in Ports /\ ext \in Ports
  /\ resets \in 0..OtgRetries
  /\ queued \in BOOLEAN /\ resetting \in BOOLEAN /\ wanted \in BOOLEAN
  /\ failed \in BOOLEAN

(* The boot loader has left the charger charging in low-current mode.      *)
Init ==
  /\ reg = [cfg |-> NoCfg, full |-> TRUE, hc |-> FALSE,
            override |-> FALSE, idx |-> IlimMax, fcc |-> IlimMax, aicl |-> FALSE,
            suspend |-> FALSE, charging |-> FALSE, otg |-> FALSE, tripped |-> FALSE]
  /\ probe = "fcc"
  /\ user = "idle" /\ target \in Targets /\ result = 0
  /\ src = "idle" /\ id = "idle" /\ temp = "idle"
  /\ port \in Ports
  /\ seen = [t \in {"src", "id"} |-> "none"]
  /\ cfg = [t \in {"user", "probe"} |-> NoCfg]
  /\ irqs = {} /\ ext = "none"
  /\ resets = 0 /\ queued = FALSE /\ resetting = FALSE /\ wanted = FALSE
  /\ failed = FALSE

(* A register access: done, or failed.                                     *)
Done(r) == reg' = r /\ UNCHANGED failed
Fails == failed' = TRUE /\ UNCHANGED reg
-----------------------------------------------------------------------------
(* qcom_pmic_sec_masked_write of CHGPTH_CFG by thread t, in two steps.     *)

SecRead(t) == cfg' = [cfg EXCEPT ![t] = reg.cfg] /\ UNCHANGED <<reg, failed>>

(* Broken: the fields outside of the mask are not kept. *)
SecWriteUnmasked(t, field, v) ==
  /\ Done([reg EXCEPT !.cfg = [NoCfg EXCEPT ![field] = v]])
  /\ cfg' = [cfg EXCEPT ![t] = NoCfg]

SecWrite(t, field, v) ==
  /\ Done([reg EXCEPT !.cfg = [cfg[t] EXCEPT ![field] = v]])
  /\ cfg' = [cfg EXCEPT ![t] = NoCfg]
-----------------------------------------------------------------------------
(* smbchg_init; a failed access makes the probe fail.                      *)

Probing == /\ probe \notin {"done", "failed"}
           /\ UNCHANGED <<setter, threads, port, ext, otg>>

ProbeFcc ==
  /\ probe = "fcc" /\ probe' = "charging" /\ Probing
  /\ Done([reg EXCEPT !.fcc = HcChoice(BattMax)])
  /\ UNCHANGED <<cfg, irqs>>

ProbeCharging ==
  /\ probe = "charging" /\ probe' = "cfgRead" /\ Probing
  /\ Done([reg EXCEPT !.charging = TRUE])
  /\ UNCHANGED <<cfg, irqs>>

ProbeCfgRead ==
  /\ probe = "cfgRead" /\ probe' = "cfgWrite" /\ Probing
  /\ SecRead("probe")
  /\ UNCHANGED irqs

ProbeCfgWrite ==
  /\ probe = "cfgWrite" /\ probe' = "detect" /\ Probing
  /\ SecWrite("probe", "command", TRUE)
  /\ UNCHANGED irqs

(* smbchg_handle_usb_source_detect is called as if the interrupt had come. *)
ProbeDetect ==
  /\ probe = "detect" /\ probe' = "detecting" /\ Probing
  /\ irqs' = {"src"}
  /\ UNCHANGED <<reg, cfg, failed>>

ProbeDone ==
  /\ probe = "detecting" /\ "src" \notin irqs /\ src = "idle"
  /\ probe' = "done" /\ Probing
  /\ UNCHANGED <<reg, cfg, irqs, failed>>

ProbeFails ==
  /\ probe \in {"fcc", "charging", "cfgRead", "cfgWrite", "detect"}
  /\ probe' = "failed" /\ Probing
  /\ Fails
  /\ UNCHANGED <<cfg, irqs>>

Probe == ProbeFcc \/ ProbeCharging \/ ProbeCfgRead \/ ProbeCfgWrite \/ ProbeDetect
         \/ ProbeDone \/ ProbeFails
-----------------------------------------------------------------------------
(* The sysfs thread: smbchg_set_property.                                  *)

Setting == probe # "failed" /\ UNCHANGED <<probe, threads, irqs, port, ext, otg>>

SetOnline(on) ==
  /\ user = "idle" /\ Setting
  /\ Done([reg EXCEPT !.suspend = ~on]) \/ Fails
  /\ UNCHANGED <<setter, cfg>>

(* Broken: the limit of the battery is not looked at. *)
SetChargeCurrentUnchecked(c) ==
  /\ user = "idle" /\ Setting
  /\ c >= IlimTable[0]
  /\ Done([reg EXCEPT !.fcc = HcChoice(c)]) \/ Fails
  /\ UNCHANGED <<setter, cfg>>

SetChargeCurrent(c) ==
  /\ user = "idle" /\ Setting
  /\ c <= BattMax /\ c >= IlimTable[0]
  /\ Done([reg EXCEPT !.fcc = HcChoice(c)]) \/ Fails
  /\ UNCHANGED <<setter, cfg>>

(* smbchg_usb_set_ilim chooses the way to limit the current.               *)
SetInputLimit(c) ==
  /\ user = "idle" /\ Setting
  /\ target' = c /\ result' = 0
  /\ user' = IF c < LcTable[0] THEN "off" ELSE IF UsesLc(c) THEN "cfgRead" ELSE "index"
  /\ UNCHANGED <<reg, cfg, failed>>

(* One access of the call; a failure ends the call.                        *)
UserGoes(from, to) == user = from /\ user' = to /\ Setting /\ UNCHANGED <<target, result>>

UserFails ==
  /\ user \notin {"idle", "aicl", "path"} /\ user' = "idle" /\ Setting
  /\ Fails
  /\ cfg' = [cfg EXCEPT !["user"] = NoCfg]
  /\ UNCHANGED <<target, result>>

UserOff ==
  /\ UserGoes("off", "idle")
  /\ Done([reg EXCEPT !.suspend = TRUE]) /\ UNCHANGED cfg

(* Broken: high current mode is left before the low limit is set. *)
UserCfgReadHcOff ==
  /\ UserGoes("cfgRead", "usb3")
  /\ Done([reg EXCEPT !.hc = FALSE])
  /\ cfg' = [cfg EXCEPT !["user"] = reg.cfg]

UserCfgRead == UserGoes("cfgRead", "usb3") /\ SecRead("user")

UserUsb3 ==
  UserGoes("usb3", "full") /\ SecWrite("user", "usb3", LcChoice(target) % 2 = 1)

UserFull ==
  /\ UserGoes("full", "lc")
  /\ Done([reg EXCEPT !.full = LcChoice(target) >= 2]) /\ UNCHANGED cfg

UserLc ==
  /\ UserGoes("lc", "path")
  /\ Done([reg EXCEPT !.hc = FALSE]) /\ UNCHANGED cfg

(* Broken: the limit is forced before its index is written. *)
UserIndexForced ==
  /\ UserGoes("index", "force")
  /\ Done([reg EXCEPT !.hc = TRUE, !.override = TRUE]) /\ UNCHANGED cfg

UserIndex ==
  /\ UserGoes("index", "force")
  /\ Done([reg EXCEPT !.idx = HcChoice(target)]) /\ UNCHANGED cfg

UserForce ==
  /\ UserGoes("force", "aicl")
  /\ Done([reg EXCEPT !.hc = TRUE, !.override = TRUE]) /\ UNCHANGED cfg

UserAicl ==
  /\ UserGoes("aicl", "path")
  /\ Done([reg EXCEPT !.aicl = FALSE]) \/ Fails
  /\ UNCHANGED cfg

(* The result of smbchg_usb_enable is not looked at.                       *)
UserPath ==
  /\ user = "path" /\ user' = "idle" /\ Setting
  /\ result' = LimitFor(target) /\ UNCHANGED <<target, cfg>>
  /\ Done([reg EXCEPT !.suspend = FALSE]) \/ Fails

User ==
  \/ \E on \in BOOLEAN : SetOnline(on)
  \/ \E c \in Targets : SetChargeCurrent(c) \/ SetInputLimit(c)
  \/ UserFails \/ UserOff \/ UserCfgRead \/ UserUsb3 \/ UserFull \/ UserLc
  \/ UserIndex \/ UserForce \/ UserAicl \/ UserPath
-----------------------------------------------------------------------------
(* smbchg_handle_usb_source_detect, smbchg_usb_aicl_enable and             *)
(* smbchg_extcon_update.                                                   *)

SrcRuns == probe \in {"detecting", "done"}
           /\ UNCHANGED <<probe, setter, id, temp, cfg, port, otg>>

SrcStart ==
  /\ "src" \in irqs /\ src = "idle" /\ SrcRuns
  /\ irqs' = irqs \ {"src"}
  /\ src' = IF port = "DCP" THEN "override" ELSE "sample"
  /\ UNCHANGED <<reg, seen, ext, failed>>

SrcGoes(from, to) == src = from /\ src' = to /\ SrcRuns /\ UNCHANGED <<irqs, seen, ext>>

SrcOverride == SrcGoes("override", "hc") /\ Done([reg EXCEPT !.override = FALSE])
SrcHc == SrcGoes("hc", "index") /\ Done([reg EXCEPT !.hc = TRUE])
SrcIndex == SrcGoes("index", "aicl") /\ Done([reg EXCEPT !.idx = IlimMax])
SrcAicl == SrcGoes("aicl", "path") /\ Done([reg EXCEPT !.aicl = TRUE])
SrcPath == SrcGoes("path", "sample") /\ Done([reg EXCEPT !.suspend = FALSE])

(* The handler returns without an extcon update.                           *)
SrcFails ==
  /\ src \in {"override", "index", "aicl", "path"} /\ SrcGoes(src, "idle") /\ Fails

(* smbchg_usb_aicl_enable returns IRQ_NONE, which is 0, for this failure.  *)
SrcHcFails == SrcGoes("hc", "path") /\ Fails

SrcSample ==
  /\ src = "sample" /\ src' = "set" /\ SrcRuns
  /\ seen' = [seen EXCEPT !["src"] = port]
  /\ UNCHANGED <<reg, irqs, ext, failed>>

SrcSet ==
  /\ src = "set" /\ src' = "idle" /\ SrcRuns
  /\ ext' = seen["src"] /\ seen' = [seen EXCEPT !["src"] = "none"]
  /\ UNCHANGED <<reg, irqs, failed>>

Src == SrcStart \/ SrcOverride \/ SrcHc \/ SrcIndex \/ SrcAicl \/ SrcPath \/ SrcFails
       \/ SrcHcFails \/ SrcSample \/ SrcSet
-----------------------------------------------------------------------------
(* smbchg_handle_usbid_change and smbchg_handle_temp_shutdown.             *)

IdRuns == probe = "done" /\ UNCHANGED <<probe, setter, src, temp, cfg, port, otg, reg, failed>>

IdStart ==
  /\ "id" \in irqs /\ id = "idle" /\ id' = "sample" /\ IdRuns
  /\ irqs' = irqs \ {"id"}
  /\ UNCHANGED <<seen, ext>>

IdSample ==
  /\ id = "sample" /\ id' = "set" /\ IdRuns
  /\ seen' = [seen EXCEPT !["id"] = port]
  /\ UNCHANGED <<irqs, ext>>

(* Broken: the cable is only reported as plugged in. *)
IdSetOn ==
  /\ id = "set" /\ id' = "idle" /\ IdRuns
  /\ ext' = IF seen["id"] = "OTG" THEN "OTG" ELSE ext
  /\ seen' = [seen EXCEPT !["id"] = "none"]
  /\ UNCHANGED irqs

IdSet ==
  /\ id = "set" /\ id' = "idle" /\ IdRuns
  /\ ext' = seen["id"] /\ seen' = [seen EXCEPT !["id"] = "none"]
  /\ UNCHANGED irqs

TempRuns == probe = "done" /\ UNCHANGED <<probe, setter, src, id, seen, cfg, port, ext, otg>>

TempStart ==
  /\ "temp" \in irqs /\ temp = "idle" /\ temp' = "path" /\ TempRuns
  /\ irqs' = irqs \ {"temp"}
  /\ Done([reg EXCEPT !.charging = FALSE]) \/ Fails

TempPath ==
  /\ temp = "path" /\ temp' = "idle" /\ TempRuns
  /\ Done([reg EXCEPT !.suspend = TRUE]) \/ Fails
  /\ UNCHANGED irqs
-----------------------------------------------------------------------------
(* The OTG regulator, its over-current interrupt and the reset work.       *)

OtgRuns == UNCHANGED <<probe, setter, threads, cfg, port, ext>>

OtgOff(r) == [r EXCEPT !.otg = FALSE, !.tripped = FALSE]

OtgEnable ==
  /\ probe = "done" /\ ~wanted /\ OtgRuns
  /\ \/ Done([reg EXCEPT !.otg = TRUE]) /\ wanted' = TRUE
     \/ Fails /\ UNCHANGED wanted
  /\ UNCHANGED <<irqs, resets, queued, resetting>>

OtgDisable ==
  /\ wanted /\ OtgRuns
  /\ \/ Done(OtgOff(reg)) /\ wanted' = FALSE
     \/ Fails /\ UNCHANGED wanted
  /\ UNCHANGED <<irqs, resets, queued, resetting>>

(* Broken: counted, but not reset. *)
OtgOcNoReset ==
  /\ "oc" \in irqs /\ OtgRuns
  /\ irqs' = irqs \ {"oc"}
  /\ resets' = IF resets < OtgRetries THEN resets + 1 ELSE 0
  /\ UNCHANGED <<reg, queued, resetting, wanted, failed>>

(* smbchg_handle_otg_oc: the last one is reported.                         *)
OtgOc ==
  /\ "oc" \in irqs /\ OtgRuns
  /\ irqs' = irqs \ {"oc"}
  /\ IF resets < OtgRetries THEN resets' = resets + 1 /\ queued' = TRUE
                            ELSE resets' = 0 /\ UNCHANGED queued
  /\ UNCHANGED <<reg, resetting, wanted, failed>>

OtgReset ==
  /\ queued /\ ~resetting /\ queued' = FALSE /\ OtgRuns
  /\ \/ Done(OtgOff(reg)) /\ resetting' = TRUE
     \/ Fails /\ UNCHANGED resetting
  /\ UNCHANGED <<irqs, resets, wanted>>

OtgResetEnd ==
  /\ resetting /\ resetting' = FALSE /\ OtgRuns
  /\ IF port = "OTG" THEN Done([reg EXCEPT !.otg = TRUE]) \/ Fails
                     ELSE UNCHANGED <<reg, failed>>
  /\ UNCHANGED <<irqs, resets, queued, wanted>>

Otg == OtgEnable \/ OtgDisable \/ OtgOc \/ OtgReset \/ OtgResetEnd
-----------------------------------------------------------------------------
(* The outside: what is plugged in, the battery's and the boost's alarms.  *)

Alarm == UNCHANGED <<probe, setter, threads, cfg, ext, otg, failed>>

(* The edges of source detection and of the ID pin.                        *)
Edges(a, b) == (IF {a, b} \cap {"SDP", "DCP"} # {} THEN {"src"} ELSE {})
               \cup (IF "OTG" \in {a, b} THEN {"id"} ELSE {})

Plug(p) ==
  /\ probe = "done" /\ p # port
  /\ port' = p /\ irqs' = irqs \cup Edges(port, p)
  /\ Alarm /\ UNCHANGED reg

TempAlarm ==
  /\ probe = "done" /\ "temp" \notin irqs
  /\ irqs' = irqs \cup {"temp"}
  /\ Alarm /\ UNCHANGED <<reg, port>>

(* The hardware switches the boost off by itself.                          *)
OverCurrent ==
  /\ probe = "done" /\ port = "OTG" /\ reg.otg /\ ~reg.tripped
  /\ reg' = [reg EXCEPT !.tripped = TRUE]
  /\ irqs' = irqs \cup {"oc"}
  /\ Alarm /\ UNCHANGED port
-----------------------------------------------------------------------------
Outside == (\E p \in Ports : Plug(p)) \/ TempAlarm \/ OverCurrent

Next == Probe \/ User \/ Src \/ IdStart \/ IdSample \/ IdSet \/ TempStart \/ TempPath
        \/ Otg \/ Outside

Spec == Init /\ [][Next]_vars
-----------------------------------------------------------------------------
(* The charge current limit of the battery is not exceeded once the probe  *)
(* has set it, whatever is written to CONSTANT_CHARGE_CURRENT and whatever *)
(* values the table has ("Prevent exceeding the maximum constant charge    *)
(* current allowed by the battery").                                       *)
ChargeCurrentAllowed == probe # "fcc" /\ probe # "failed" => IlimTable[reg.fcc] <= BattMax
=============================================================================
