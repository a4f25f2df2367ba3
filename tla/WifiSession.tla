----------------------------- MODULE WifiSession ----------------------------
(***************************************************************************)
(* What the HUD's Wi-Fi job engine promises its user, without jobs, sheets *)
(* or a radio: one operation at a time, on one network.  A join is first   *)
(* run and then confirmed, it cannot change network on the way, only a     *)
(* forget may cut it short, and nothing cuts a forget short.               *)
(***************************************************************************)
CONSTANTS Ssids, NoSsid

VARIABLES
  phase,   \* what the HUD is doing
  net      \* the network it is doing it to, NoSsid when idle

Phases == {"idle", "joining", "confirming", "forgetting"}

Init == phase = "idle" /\ net = NoSsid

BeginJoin(s) ==
  /\ phase = "idle"
  /\ phase' = "joining" /\ net' = s

BeginConfirm ==
  /\ phase = "joining"
  /\ phase' = "confirming"
  /\ UNCHANGED net

(* The join was confirmed, has failed or needs another password.           *)
EndJoin ==
  /\ phase \in {"joining", "confirming"}
  /\ phase' = "idle" /\ net' = NoSsid

BeginForget(s) ==
  /\ phase # "forgetting"
  /\ phase' = "forgetting" /\ net' = s

EndForget ==
  /\ phase = "forgetting"
  /\ phase' = "idle" /\ net' = NoSsid

Next ==
  \/ \E s \in Ssids : BeginJoin(s) \/ BeginForget(s)
  \/ BeginConfirm \/ EndJoin \/ EndForget

Spec == Init /\ [][Next]_<<phase, net>>
=============================================================================
