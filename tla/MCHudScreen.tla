---------------------------- MODULE MCHudScreen -----------------------------
(***************************************************************************)
(* HudScreen on a small instance: a HUD that dies at most once, and at     *)
(* most MaxFaults kinds of failures of the panel, the CRTC and AddFB.      *)
(***************************************************************************)
EXTENDS HudScreen, FiniteSets

CONSTANTS b1, b2, MaxFaults

MCBuffers == {b1, b2}

MCNext ==
  /\ Next
  /\ pc # "dead" /\ pc' = "dead" => "died" \notin faults
  /\ Cardinality(faults' \intersect {"dcs", "crtc", "fb"}) <= MaxFaults

MCSpec == Init /\ [][MCNext]_vars /\ Fairness
=============================================================================
