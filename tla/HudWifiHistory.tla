---------------------------- MODULE HudWifiHistory ---------------------------
(***************************************************************************)
(* HudWifi with history variables, for the properties that compare what    *)
(* the HUD shows with what the radio and the user did.                     *)
(***************************************************************************)
EXTENDS HudWifi

VARIABLES
  been,      \* the APs the radio was on since the running join began
  claimed,   \* did the HUD show the target as its network when it began?
  left       \* the forgotten SSID that the radio has not left since

histVars == <<hud, radio, been, claimed, left>>

OnAp(r) == {r.ap} \ {NoSsid}

HistInit == been = {} /\ claimed = FALSE /\ left = NoSsid

(* A forget, started or not, is followed up when the HUD shows the name or *)
(* none.                                                                   *)
HistStep ==
  LET begins == hud'.connecting /\ ~hud.connecting
  IN /\ been' = IF ~hud'.connecting THEN {}
                ELSE (IF begins THEN {} ELSE been) \union OnAp(radio')
     /\ claimed' = IF ~hud'.connecting THEN FALSE
                   ELSE IF begins THEN hud.connected /\ hud.live = hud'.target
                   ELSE claimed
     /\ left' = IF TapForget
                THEN (IF radio.ap = hud'.hold /\ hud.live \in {hud'.hold, NoSsid}
                      THEN hud'.hold ELSE NoSsid)
                ELSE IF begins \/ radio'.ap # left THEN NoSsid
                ELSE left

(* Every behaviour of the HUD, with its histories.                         *)
HistNext == Next /\ HistStep

HistorySpec == Init /\ HistInit /\ [][HistNext]_histVars
-----------------------------------------------------------------------------

(* The HUD closes the sheet as joined only if the radio was on the target  *)
(* at some time since the join began, or the HUD showed the target as its  *)
(* network before (maybe_confirm_join, gw_on_connect_job).                 *)
JoinedWasThere ==
  [][hud.connecting /\ hud'.sheet = "NONE" => hud.target \in been \/ claimed]_histVars

(* As long as the radio has not left a forgotten network, and the user     *)
(* does not join another, no late answer makes the HUD show it as          *)
(* connected again (gw_forget_hold_connected, apply_wifi_ssid).            *)
ForgottenStaysHidden == left # NoSsid => ~ApIsCurrent(hud, left)
=============================================================================
