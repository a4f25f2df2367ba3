------------------------------ MODULE WifiFlow ------------------------------
(***************************************************************************)
(* The decisions of initramfs/gemini-wifi-flow.h: the pure, I/O-free half  *)
(* of the HUD's Wi-Fi flow, which gemini-status.c includes and the host    *)
(* tests exercise.  Every operator stands for one gw_* function.           *)
(*                                                                         *)
(* Data abstraction.  An SSID is an opaque value and NoSsid the empty      *)
(* string; a password is an opaque value of at least eight characters and  *)
(* NoPass any shorter one.  The text a job prints is the set of the        *)
(* markers that the C code looks for with strstr.                          *)
(*                                                                         *)
(* An operator introduced by "Broken" is a faulty variant of the one after *)
(* it; no definition uses it.  Put in its place, it shows which property   *)
(* depends on the code being right there.                                  *)
(***************************************************************************)
CONSTANTS NoSsid,   \* the empty SSID string
          NoPass    \* the empty password string

(* What strstr can find in the output of gemini-wifi-connect.sh: the line  *)
(* that finish_ok prints, NEED_PASSWORD, and the wrong-password line.      *)
Marks == {"joined", "need", "wrong"}

SsidEq(a, b) == a # NoSsid /\ b # NoSsid /\ a = b

(* Broken: any network will do. *)
AlreadyOnAnywhere(connected, live, want) == connected /\ live # NoSsid

AlreadyOn(connected, live, want) == connected /\ SsidEq(live, want)

JoinConfirmOk(connected, live, want) == AlreadyOn(connected, live, want)

(* Broken: gives up only if the radio fell back to another network. *)
JoinConfirmFailElsewhere(timedOut, connected, live, want) ==
  timedOut /\ connected /\ ~AlreadyOn(connected, live, want)

JoinConfirmFail(timedOut, connected, live, want) ==
  timedOut /\ ~AlreadyOn(connected, live, want)

(* Is the leftover "connected" of NetworkManager still the forgotten AP?   *)
ForgetHoldConnected(forgotten, nmUp, live) ==
  /\ forgotten # NoSsid
  /\ nmUp
  /\ live = NoSsid \/ SsidEq(forgotten, live)

(* Broken: without one of the guards. *)
AllowJoinWhileJoining(connecting, forgetting, alreadyOn) == ~forgetting /\ ~alreadyOn

AllowJoinWhileForgetting(connecting, forgetting, alreadyOn) == ~connecting /\ ~alreadyOn

AllowJoin(connecting, forgetting, alreadyOn) ==
  ~connecting /\ ~forgetting /\ ~alreadyOn

ForgetCanStart(jobRunning, jobIsForget) == ~(jobRunning /\ jobIsForget)

DropPending(ok, doneSsid, pendSsid) == ok /\ SsidEq(doneSsid, pendSsid)

(* The exit code and the output markers of a join job.                     *)
JobOk(rc, says) == rc = 0 \/ "joined" \in says

JobNeedPw(rc, says) ==
  /\ ~JobOk(rc, says)
  /\ rc # 3
  /\ rc = 2 \/ "need" \in says

JobWrongPw(rc, says) ==
  /\ ~JobOk(rc, says)
  /\ rc = 3 \/ "wrong" \in says

OpenPass(needPw, alreadyOn, leftHome, pendingHasPass) ==
  needPw /\ ~alreadyOn /\ ~leftHome /\ ~pendingHasPass

(* An empty-password probe must not replace a queued password.             *)
KeepPendingPsk(queuingEmpty, wantConnect, pendSsid, pendPass, ssid) ==
  /\ queuingEmpty /\ wantConnect
  /\ pendPass # NoPass
  /\ SsidEq(pendSsid, ssid)

(* Broken: the selected row before the network in flight. *)
PassSsidSelected(connectSsid, selectedSsid) ==
  IF selectedSsid # NoSsid THEN selectedSsid ELSE connectSsid

(* The network that a submitted password is for.                           *)
PassSsid(connectSsid, selectedSsid) ==
  IF connectSsid # NoSsid THEN connectSsid ELSE selectedSsid

JoinUseSessionPsk(ssid, knownSsid, knownPsk) ==
  SsidEq(ssid, knownSsid) /\ knownPsk # NoPass

(***************************************************************************)
(* gw_on_connect_job: what a finished join job means.  in is the struct    *)
(* gw_connect_in; the branches are tried in the order of the C code.       *)
(***************************************************************************)
ConnectActs == {"SUCCESS", "WAIT_PENDING", "RETRY_PSK",
                "WRONG_PASS", "OPEN_PASS", "FAIL"}

OnConnectJob(in) ==
  LET already == AlreadyOn(in.connected, in.live, in.target)
      need    == JobNeedPw(in.rc, in.says)
      wrong   == JobWrongPw(in.rc, in.says)
      pendPw  == /\ in.wantConnect /\ in.pendHasPass
                 /\ SsidEq(in.pendSsid, in.target)
  IN IF JobOk(in.rc, in.says) \/ ((need \/ wrong) /\ already) THEN "SUCCESS"
     ELSE IF (need \/ wrong) /\ pendPw THEN "WAIT_PENDING"
     ELSE IF need /\ ~wrong /\ ~in.usedPass /\ in.haveSessionPsk THEN "RETRY_PSK"
     ELSE IF wrong \/ (in.usedPass /\ need) THEN "WRONG_PASS"
     ELSE IF OpenPass(need, already, in.leftHome, FALSE) THEN "OPEN_PASS"
     ELSE "FAIL"
=============================================================================
