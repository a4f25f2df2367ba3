------------------------------ MODULE MCHudWifi -----------------------------
(***************************************************************************)
(* HudWifi on small instances.                                             *)
(***************************************************************************)
EXTENDS HudWifi, TLC

CONSTANTS a, b, p

MCSsids        == {a, b}
MCOneSsid      == {a}
MCPasswords    == {p}
MCNone         == {}
MCEnterprise   == {b}
MCScanLists    == {MCSsids}
MCOneScanList  == {MCOneSsid}
MCLaunchAll    == {Kinds}
MCLaunchFaulty == {Kinds, Kinds \ {"connect", "forget"}}
MCSymmetry     == Permutations(MCSsids)

(***************************************************************************)
(* Parts of the next-state relation, to keep an instance small: the screen *)
(* stays on; and, then, the user forgets no network; or, with the screen   *)
(* going on and off, a password once typed is not erased.                  *)
(***************************************************************************)
AwakeNext == Loop \/ Taps \/ Outside

AwakeSpec == Init /\ [][AwakeNext]_vars

NoForgetSpec == Init /\ [][AwakeNext /\ ~TapForget]_vars /\ AnswerFairness

TypedOnceSpec ==
  Init /\ [][Next /\ (hud.typed # NoPass => hud'.typed # NoPass)]_vars /\ Fairness
=============================================================================
