------------------------------- MODULE MCWled -------------------------------
(***************************************************************************)
(* Wled with history variables; MaxDepth bounds how far failures and races *)
(* can push the disable count of the interrupt, MaxShorts the count of     *)
(* short circuits beyond its limit.                                        *)
(***************************************************************************)
EXTENDS Wled

CONSTANTS MaxDepth, MaxShorts

VARIABLES
  lit,   \* has the driver switched the module on?
  raced  \* has the short handler run with the brightness at zero?

MCInit == Init /\ lit = FALSE /\ raced = FALSE

HistoryNext ==
  /\ Next
  /\ lit' = (lit \/ brightness')
  /\ raced' = (raced \/ (ShortOff /\ ~brightness))

(* Without the bounds, for the theorems.                                   *)
HistorySpec == MCInit /\ [][HistoryNext]_<<vars, lit, raced>>

MCNext == HistoryNext /\ depth' <= MaxDepth /\ shorts' <= MaxShorts

MCSpec == MCInit /\ [][MCNext]_<<vars, lit, raced>> /\ Fairness

Settled == lock = "none" /\ ~failed /\ ~disabled

(* Whenever nobody holds the lock the lamp is on exactly when a brightness *)
(* is set, through short circuits and detections.  (The lock is there "to  *)
(* avoid race from thread irq handler".)                                   *)
LampFollows == Settled /\ lit => modEn = brightness

(* ... except that a short-circuit handler that waits for the lock while   *)
(* the lamp is switched off switches it on again.                          *)
LampFollowsAlone == ~raced => LampFollows

(* A lamp that is on is protected: when the soft start is over, the        *)
(* over-voltage interrupt is unmasked (wled_module_enable, wled_ovp_work). *)
Protected == Settled /\ ~raced /\ brightness /\ ~pending => depth = 0
=============================================================================
