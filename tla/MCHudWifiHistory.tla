--------------------------- MODULE MCHudWifiHistory --------------------------
(***************************************************************************)
(* HudWifiHistory on small instances, with the screen on.                  *)
(***************************************************************************)
EXTENDS MCHudWifi, HudWifiHistory

HistSpec == Init /\ HistInit /\ [][AwakeNext /\ HistStep]_histVars
=============================================================================
