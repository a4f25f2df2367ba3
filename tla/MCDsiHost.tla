----------------------------- MODULE MCDsiHost ------------------------------
(***************************************************************************)
(* DsiHost with history variables, and with bounds on what failures add to *)
(* the counts.                                                             *)
(***************************************************************************)
EXTENDS DsiHost

CONSTANT MaxDepth  \* no power-on fails when the interrupt is disabled so often

VARIABLES
  stale,    \* has the transfer met a completion that came before its command was sent?
  beside,   \* was the interrupt disabled, or its register written, beside the wait?
  crossed   \* since the controller was last set: did two of its writers meet?

history == <<stale, beside, crossed>>

(* Who writes the interrupt register beside a transfer.                    *)
Rewrites == OnEnable \/ OffQuiet \/ IrqError \/ WorkEnd

(* Two of those that write DSI_CTRL in several steps are under way.        *)
Switching == bridge \notin {"up", "down"}
Resetting == work = "reset"
Crossing == (Busy /\ Switching) \/ (Busy /\ Resetting) \/ (Switching /\ Resetting)

(* The modeset sets DSI_CTRL without looking at it.                        *)
Settles == (OnEnable \/ (OffPower /\ power)) /\ ~Crossing

Triggered == \E c \in Clients : at[c] \in {"trigger", "wait", "mask", "restore"}
Waiting == \E c \in Clients : at[c] = "wait"
Unsent == \E c \in Clients : at[c] = "trigger" \/ (at[c] = "wait" /\ ~sent[c])

Histories ==
  /\ stale' = (Triggered' /\ (stale \/ (IrqDma /\ Unsent)))
  /\ beside' = (Triggered' /\ (beside \/ (Waiting' /\ (depth' # 0 \/ Rewrites))))
  /\ crossed' = (~Settles /\ (crossed \/ Crossing'))

HistoryInit == Init /\ stale = FALSE /\ beside = FALSE /\ crossed = FALSE
HistoryNext == Next /\ Histories
HistorySpec == HistoryInit /\ [][HistoryNext]_<<vars, history>>

PowerOnFailed == bridge \in {"down", "power"} /\ bridge' = "up"
XferClockFailed == \E c \in Clients : at[c] = "prepare" /\ at'[c] = "enable" /\ clk' = clk

(* The clocks of one transfer fail at most.                                *)
MCNext ==
  /\ HistoryNext
  /\ PowerOnFailed => depth < MaxDepth
  /\ XferClockFailed => "xferClock" \notin faults

MCSpec == HistoryInit /\ [][MCNext]_<<vars, history>>
-----------------------------------------------------------------------------
(* A client whose transfer has its result and still holds the mutex.       *)
Ending(c) == at[c] \in {"mask", "restore"}

(* A transfer that returns success has been sent: it takes no completion   *)
(* from before it, such as that of a command whose wait timed out, also    *)
(* when the host is switched beside it (dsi_cmd_dma_tx).  Only one that    *)
(* arrives between its own reinit and the end of its own command can be    *)
(* taken for it.                                                           *)
OkMeansSent ==
  \A c \in Clients : Ending(c) /\ result[c] = "ok" => sent[c] \/ stale

(* A transfer whose command has been sent does not time out, unless the    *)
(* interrupt was disabled, or the modeset or the error path wrote its      *)
(* register, while that very transfer waited.  The masks of the transfers  *)
(* acknowledge what is latched, too; they never lose it, nor does anything *)
(* that failed, came late or was written outside of the wait               *)
(* (dsi_intr_ctrl, dsi_host_irq).                                          *)
SentMeansOk ==
  \A c \in Clients : Ending(c) /\ result[c] = "timeout" /\ sent[c] => beside

(* When nothing is going on the controller is enabled just while the host  *)
(* has power: transfers, which write back what they read before, resets    *)
(* and modesets leave it so, one after the other, and the next modeset     *)
(* mends what two of them that met have left (msm_dsi_host_xfer_restore,   *)
(* dsi_sw_reset).                                                          *)
Quiet == ~Busy /\ ~Switching /\ work = "no"
ControllerFollows == Quiet /\ ~crossed => ctrl = power
=============================================================================
