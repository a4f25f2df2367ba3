------------------------------ MODULE JdiPanel ------------------------------
(***************************************************************************)
(* The panel driver, drivers/gpu/drm/panel/panel-jdi-fhd-r63452.c: what    *)
(* its callbacks do to its flags and to the glass.  Each operator gives    *)
(* the outcomes of a callback: the panel it leaves, and whether it         *)
(* succeeded.  A DCS command fails when its DSI transfer does, which may   *)
(* have reached the panel all the same.                                    *)
(*                                                                         *)
(* Abstractions.  The registers of the init sequence are one flag; delays  *)
(* and the reads of the power mode, which are only logged or repeat a      *)
(* command, are left out.                                                  *)
(*                                                                         *)
(* An operator introduced by "Broken" is a faulty variant of the one after *)
(* it; no definition uses it.                                              *)
(***************************************************************************)

Panels == [inited : BOOLEAN,    \* ctx->inited
           asleep : BOOLEAN,    \* ctx->asleep
           enabled : BOOLEAN,   \* what DRM thinks of it (drm_panel.enabled)
           regs : BOOLEAN,      \* is the init sequence in its registers?
           lit : BOOLEAN]       \* does the glass show what is sent to it?

NewPanel == [inited |-> FALSE, asleep |-> FALSE, enabled |-> FALSE,
             regs |-> FALSE, lit |-> FALSE]

Outcome(p, ok) == [panel |-> p, ok |-> ok]

(* DCS 0x29 and 0x28.                                                      *)
DisplayOn(p) ==
  {Outcome([p EXCEPT !.asleep = FALSE, !.lit = TRUE], TRUE)}
  \union {Outcome([p EXCEPT !.asleep = FALSE, !.lit = l], FALSE) : l \in {p.lit, TRUE}}

DisplayOff(p) ==
  {Outcome([p EXCEPT !.asleep = TRUE, !.lit = FALSE], TRUE)}
  \union {Outcome([p EXCEPT !.asleep = TRUE, !.lit = l], FALSE) : l \in {p.lit, FALSE}}

(* The first enable resets the panel and writes its registers; when that   *)
(* fails there is no second attempt.                                       *)
EnableFirst(p) ==
  LET reset == [p EXCEPT !.inited = TRUE, !.regs = FALSE, !.lit = FALSE]
  IN {Outcome(reset, FALSE)} \union DisplayOn([reset EXCEPT !.regs = TRUE])

(* Broken: a panel that was only switched off gets no 0x29. *)
EnableSilent(p) ==
  IF p.inited THEN {Outcome([p EXCEPT !.asleep = FALSE], TRUE)} ELSE EnableFirst(p)

(* jdi_fhd_r63452_enable                                                   *)
Enable(p) == IF p.inited THEN DisplayOn(p) ELSE EnableFirst(p)

(* jdi_fhd_r63452_disable                                                  *)
Disable(p) == DisplayOff(p)

(* panel_sleep_store; on: does the host have power?                        *)
Sleep(p, on) ==
  IF p.asleep THEN {Outcome(p, TRUE)}
  ELSE IF on THEN DisplayOff(p)
  ELSE {Outcome([p EXCEPT !.asleep = TRUE], FALSE)}

(* drm_panel_enable and drm_panel_disable, which skip a panel that is so   *)
(* already.                                                                *)
DrmEnable(p) ==
  IF p.enabled THEN {Outcome(p, TRUE)}
  ELSE {Outcome([o.panel EXCEPT !.enabled = o.ok], o.ok) : o \in Enable(p)}

DrmDisable(p) ==
  IF ~p.enabled THEN {Outcome(p, TRUE)}
  ELSE {Outcome([o.panel EXCEPT !.enabled = ~o.ok], o.ok) : o \in Disable(p)}
=============================================================================
