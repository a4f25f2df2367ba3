------------------------------ MODULE MCSmbchg ------------------------------
(***************************************************************************)
(* Smbchg with a table of three limits, and with history variables.  The   *)
(* input limits, the OTG regulator, and the charge current with thermal    *)
(* shutdowns share no register and no thread, so a behaviour takes the     *)
(* steps of one of the three, with the probe and the interrupts of the     *)
(* port: chargers come and go, or hosts and OTG devices.                   *)
(***************************************************************************)
EXTENDS Smbchg, TLC

MCIlimTable == 0 :> 300 @@ 1 :> 1500 @@ 2 :> 3000
MCTargets == {50, 200, 500, 1600, 3000}

VARIABLES
  part,     \* which of the three parts is active
  own,      \* is the limit index the one a user's call wrote, and not above its target?
  mixed,    \* has AICL been prepared since the deciding write of the last call?
  lost,     \* were the probe and a call both between read and write of CHGPTH_CFG?
  crossed   \* were both port interrupts between sampling and setting the cables?

history == <<part, own, mixed, lost, crossed>>

PortsOf(p) == IF p = "otg" THEN {"none", "SDP", "OTG"} ELSE {"none", "DCP"}

Preparing == src' \in {"override", "hc", "index", "aicl"}

Limits == User /\ reg'.fcc = reg.fcc
Boost == Otg \/ OverCurrent
Charging == \/ TempAlarm \/ TempStart \/ TempPath
            \/ User /\ reg'.fcc # reg.fcc
Always == Probe \/ Src \/ IdStart \/ IdSample \/ IdSet \/ \E p \in PortsOf(part) : Plug(p)

Histories ==
  /\ own' = IF UserIndex THEN IlimTable[reg'.idx] <= target
            ELSE own /\ reg'.idx = reg.idx
  /\ mixed' = ((mixed /\ ~UserIndex /\ ~UserLc) \/ Preparing)
  /\ lost' = (lost \/ (user' = "usb3" /\ probe' = "cfgWrite"))
  /\ crossed' = (crossed \/ (src' = "set" /\ id' = "set"))
  /\ UNCHANGED part

(* Every behaviour, with its histories; the runs check those of one part.  *)
HistoryInit == Init /\ own = FALSE /\ mixed = FALSE /\ lost = FALSE /\ crossed = FALSE
HistoryNext == Next /\ Histories
HistorySpec == HistoryInit /\ [][HistoryNext]_<<vars, history>>

MCInit ==
  /\ HistoryInit
  /\ part \in {"limits", "otg", "charging"}
  /\ port \in PortsOf(part) /\ target = 50

MCNext ==
  /\ \/ Always
     \/ (part = "limits" /\ Limits)
     \/ (part = "otg" /\ Boost)
     \/ (part = "charging" /\ Charging)
  /\ Histories

(* Interrupts are handled and queued work is run.                          *)
MCSpec ==
  /\ MCInit /\ [][MCNext]_<<vars, history>>
  /\ WF_vars(OtgOc) /\ WF_vars(OtgReset) /\ WF_vars(OtgResetEnd)
-----------------------------------------------------------------------------
(* A limit that set_ilim has reported is the limit in force, and the       *)
(* largest supported one that does not exceed what was asked, as long as   *)
(* AICL has not been prepared meanwhile, whatever has failed before        *)
(* (smbchg_usb_set_ilim, smbchg_usb_get_ilim).                             *)
ReportedLimit ==
  result > 0 /\ ~mixed /\ ~lost =>
    /\ GetIlim(reg) = result
    /\ result <= target
    /\ \A i \in 0..IlimMax : IlimTable[i] <= target => IlimTable[i] <= result

(* A limit that overrides AICL does not exceed the one asked for ("Always  *)
(* round down to avoid exceeding the target limit").                       *)
ForcedLimit == reg.hc /\ reg.override => own

(* ... unless a charger was detected while the call was under way.  That   *)
(* includes calls that fail half-way and limits raised while forced        *)
(* (smbchg_usb_set_ilim_hc, smbchg_usb_aicl_enable).                       *)
ForcedLimitAlone == ~mixed => ForcedLimit

(* The four writes of a call that sets a low current limit.  Done in this  *)
(* order, they go through a limit above both the old and the new one only  *)
(* from 500 to 150 mA: USB 3.0 is selected first, and that is 900 mA.      *)
LcCall == user \in {"cfgRead", "usb3", "full", "lc"} /\ user' # user
Through900 == user = "usb3" /\ ~reg.hc /\ reg.full /\ LcChoice(target) = 1

(* On the way to a low limit, no write of the call puts a limit in force   *)
(* that is above the asked one, unless the limit before was no lower (or   *)
(* for Through900); and high current mode is left for a limit that is not  *)
(* above the asked one, whatever is written or fails in between            *)
(* (smbchg_usb_set_ilim_lc).                                               *)
LcEntered == [][LcCall /\ ~lost =>
    /\ GetIlim(reg') <= target \/ GetIlim(reg') <= GetIlim(reg) \/ Through900
    /\ reg.hc /\ ~reg'.hc => GetIlim(reg') <= target]_<<vars, history>>

(* Writes to the input limit do not undo the configuration of the probe,   *)
(* which the current level bit relies on, though both write CHGPTH_CFG     *)
(* without a lock; except when both are between its read and its write     *)
(* (qcom_pmic_sec_masked_write).                                           *)
ConfigKept == probe \in {"detect", "detecting", "done"} /\ ~lost => reg.cfg.command

(* When every interrupt is handled, the extcon cables tell what is plugged *)
(* in, however plugging and the two interrupt threads interleave; except   *)
(* when both threads were between sampling and setting, or an access       *)
(* failed (smbchg_extcon_update).                                          *)
ExtconFollows ==
  probe = "done" /\ irqs \cap {"src", "id"} = {} /\ src = "idle" /\ id = "idle"
  /\ ~crossed /\ ~failed => ext = port

(* An over-current of the boost ends with the boost on again or with a     *)
(* report, while the device is plugged in and its consumer wants power     *)
(* (smbchg_handle_otg_oc, smbchg_otg_reset_worker).                        *)
VbusRecovers ==
  reg.tripped ~>
    \/ reg.otg /\ ~reg.tripped
    \/ reg.tripped /\ resets = 0 /\ "oc" \notin irqs
    \/ ~wanted \/ port # "OTG" \/ failed
=============================================================================
