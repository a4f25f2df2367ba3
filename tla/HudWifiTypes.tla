---------------------------- MODULE HudWifiTypes ----------------------------
(***************************************************************************)
(* HudWifi is type correct, for every set of SSIDs, passwords, scan lists  *)
(* and launch failures.  One lemma per operator that takes the HUD's state *)
(* to its next state, in the order of HudWifi, then the theorem.           *)
(***************************************************************************)
EXTENDS HudWifi, TLAPS

LEMMA NoObsType == NoObs \in Obs
BY DEF NoObs, Obs, NmState, SsidsOrNone

LEMMA NoJobType == NoJob \in Job
BY NoObsType DEF NoJob, Job, SsidsOrNone, PassOrNone

LEMMA StartNmcliType ==
  ASSUME NEW h \in Hud, NEW kind \in Kinds, NEW ssid \in SsidsOrNone,
         NEW pass \in PassOrNone, NEW up
  PROVE  StartNmcli(h, kind, ssid, pass, up) \in Hud
<1> DEFINE job == [NoJob EXCEPT !.kind = kind, !.ssid = ssid, !.pass = pass]
<1>1. job \in Job
  BY NoJobType DEF Job
<1>2. [h EXCEPT !.job = job] \in Hud
  BY <1>1 DEF Hud
<1> QED BY <1>2 DEF StartNmcli

LEMMA CloseJobType ==
  ASSUME NEW h \in Hud
  PROVE  CloseJob(h) \in Hud
BY NoJobType DEF CloseJob, Hud

LEMMA StartOrQueueType ==
  ASSUME NEW h \in Hud, NEW kind \in {"info", "scan", "link"}, NEW up
  PROVE  StartOrQueue(h, kind, up) \in Hud
<1>1. [h EXCEPT !.want = @ \union {kind}] \in Hud
  BY DEF Hud, Wants
<1>2. StartNmcli(h, kind, NoSsid, NoPass, up) \in Hud
  BY StartNmcliType DEF Kinds, SsidsOrNone, PassOrNone
<1> QED BY <1>1, <1>2 DEF StartOrQueue

LEMMA WifiConnectType ==
  ASSUME NEW h \in Hud, NEW ssid \in SsidsOrNone, NEW pass \in PassOrNone, NEW up
  PROVE  WifiConnect(h, ssid, pass, up) \in Hud
<1> DEFINE g == [h EXCEPT !.hold = NoSsid, !.connecting = TRUE, !.wait = "none",
                          !.busy = TRUE, !.target = ssid]
           k == IF g.job.kind # "connect" THEN AbortJob(g) ELSE g
<1>1. g \in Hud
  BY DEF Hud, SsidsOrNone
<1>2. k \in Hud
  BY <1>1, CloseJobType DEF AbortJob
<1>3. [k EXCEPT !.pendSsid = ssid, !.pendPass = pass,
                !.want = @ \union {"connect"}] \in Hud
  BY <1>2 DEF Hud, Wants
<1>4. StartNmcli(k, "connect", ssid, pass, up) \in Hud
  BY <1>2, StartNmcliType DEF Kinds
<1> QED BY <1>2, <1>3, <1>4 DEF WifiConnect

LEMMA PickedSsidType ==
  ASSUME NEW h \in Hud
  PROVE  PickedSsid(h) \in SsidsOrNone
BY DEF PickedSsid, Hud

LEMMA MarkApActiveType ==
  ASSUME NEW h \in Hud, NEW ssid \in SsidsOrNone
  PROVE  MarkApActive(h, ssid) \in Hud
<1>1. (IF ssid \in h.seen THEN ssid ELSE NoSsid) \in SsidsOrNone
  BY DEF SsidsOrNone
<1> QED BY <1>1 DEF MarkApActive, Hud

LEMMA MarkApInactiveType ==
  ASSUME NEW h \in Hud, NEW ssid
  PROVE  MarkApInactive(h, ssid) \in Hud
BY DEF MarkApInactive, Hud, SsidsOrNone

LEMMA PskType ==
  ASSUME NEW h \in Hud, NEW ssid \in SsidsOrNone, NEW pass \in PassOrNone
  PROVE  /\ RememberPsk(h, ssid, pass) \in Hud
         /\ ForgetPsk(h, ssid) \in Hud
<1>1. RememberPsk(h, ssid, pass) \in Hud
  BY DEF RememberPsk, Hud
<1>2. [h EXCEPT !.knownSsid = NoSsid, !.knownPsk = NoPass] \in Hud
  BY DEF Hud, SsidsOrNone, PassOrNone
<1> QED BY <1>1, <1>2 DEF ForgetPsk

LEMMA ApplyWifiSsidType ==
  ASSUME NEW h \in Hud, NEW ssid \in SsidsOrNone
  PROVE  ApplyWifiSsid(h, ssid) \in Hud
<1>1. [h EXCEPT !.hold = NoSsid] \in Hud
  BY DEF Hud, SsidsOrNone
<1>2. [h EXCEPT !.hold = NoSsid, !.live = ssid] \in Hud
  BY DEF Hud, SsidsOrNone
<1> QED BY <1>1, <1>2 DEF ApplyWifiSsid

LEMMA MaybeConfirmJoinType ==
  ASSUME NEW h \in Hud
  PROVE  MaybeConfirmJoin(h) \in Hud
<1>1. MarkApActive(h, h.target) \in Hud
  BY MarkApActiveType DEF Hud
<1>2. [MarkApActive(h, h.target) EXCEPT
         !.wait = "none", !.connecting = FALSE, !.busy = FALSE,
         !.sheet = "NONE", !.want = @ \union {"scan"}] \in Hud
  BY <1>1 DEF Hud, Wants, Sheets
<1>3. [h EXCEPT !.wait = "none", !.connecting = FALSE, !.busy = FALSE,
                !.sheet = IF @ = "NONE" THEN "DETAIL" ELSE @] \in Hud
  BY DEF Hud, Sheets
<1> QED BY <1>2, <1>3 DEF MaybeConfirmJoin

LEMMA KickPendingType ==
  ASSUME NEW h \in Hud, NEW up
  PROVE  KickPending(h, up) \in Hud
<1> DEFINE without(w) == [h EXCEPT !.want = @ \ {w}]
<1>1. \A w \in Wants : without(w) \in Hud
  BY DEF Hud
<1>2. h.pendSsid \in SsidsOrNone /\ h.pendPass \in PassOrNone
  BY DEF Hud
<1>3. WifiConnect(without("connect"), h.pendSsid, h.pendPass, up) \in Hud
  <2>1. without("connect") \in Hud
    BY <1>1 DEF Wants
  <2> HIDE DEF without
  <2> QED BY <2>1, <1>2, WifiConnectType
<1>4. ASSUME NEW w \in {"info", "scan", "link"}
      PROVE  StartOrQueue(without(w), w, up) \in Hud
  <2>1. without(w) \in Hud
    BY <1>1 DEF Wants
  <2> HIDE DEF without
  <2> QED BY <2>1, StartOrQueueType
<1>5. StartOrQueue(without("info"), "info", up) \in Hud
  BY <1>4
<1>6. StartOrQueue(without("scan"), "scan", up) \in Hud
  BY <1>4
<1>7. StartOrQueue(without("link"), "link", up) \in Hud
  BY <1>4
<1> QED BY <1>3, <1>5, <1>6, <1>7 DEF KickPending
-----------------------------------------------------------------------------
LEMMA ClearLiveType ==
  ASSUME NEW h \in Hud
  PROVE  ClearLive(h) \in Hud
BY DEF ClearLive, Hud, SsidsOrNone

LEMMA ParseInfoType ==
  ASSUME NEW h \in Hud, NEW nm
  PROVE  ParseInfo(h, nm) \in Hud
<1> DEFINE g == [h EXCEPT !.connected = (nm = "up"), !.busy = (nm = "busy")]
<1>1. g \in Hud
  BY DEF Hud
<1>2. [ClearLive(g) EXCEPT !.busy = FALSE] \in Hud
  <2>1. \A k \in Hud : [k EXCEPT !.busy = FALSE] \in Hud
    BY DEF Hud
  <2> HIDE DEF g
  <2> QED BY <1>1, <2>1, ClearLiveType
<1>3. [g EXCEPT !.hold = NoSsid] \in Hud
  <2>1. \A k \in Hud : [k EXCEPT !.hold = NoSsid] \in Hud
    BY DEF Hud, SsidsOrNone
  <2> HIDE DEF g
  <2> QED BY <1>1, <2>1
<1> QED BY <1>1, <1>2, <1>3 DEF ParseInfo

LEMMA ParseScanType ==
  ASSUME NEW h \in Hud, NEW list \in SUBSET Ssids, NEW ap,
         NEW first \in SsidsOrNone
  PROVE  ParseScan(h, list, ap, first) \in Hud
<1> DEFINE act == IF ap \in list /\ ap # h.hold THEN ap ELSE NoSsid
           g == [h EXCEPT !.seen = list, !.active = act]
<1>1. act \in SsidsOrNone
  BY DEF SsidsOrNone
<1>2. g \in Hud
  BY <1>1 DEF Hud
<1>3. ApplyWifiSsid(g, first) \in Hud
  BY <1>2, ApplyWifiSsidType
<1> QED BY <1>2, <1>3 DEF ParseScan

LEMMA FirstRowsType ==
  ASSUME NEW h \in Hud, NEW first \in FirstRows(h)
  PROVE  first \in SsidsOrNone
<1>1. h.job.obs.list \in SUBSET Ssids
  BY DEF Hud, Job, Obs
<1> QED BY <1>1 DEF FirstRows, SsidsOrNone

LEMMA FinishQueryType ==
  ASSUME NEW h \in Hud, NEW obs \in Obs, NEW first \in SsidsOrNone
  PROVE  /\ FinishInfo(h, obs) \in Hud
         /\ FinishScan(h, obs, first) \in Hud
         /\ FinishLink(h, obs) \in Hud
         /\ FinishRadio(h) \in Hud
<1> obs.list \in SUBSET Ssids /\ obs.ap \in SsidsOrNone
  BY DEF Obs
<1>1. \A k \in Hud, w \in Wants : [k EXCEPT !.want = @ \union {w}] \in Hud
  BY DEF Hud
<1>2. FinishInfo(h, obs) \in Hud
  <2> DEFINE g == ParseInfo(h, obs.nm)
  <2>1. g \in Hud
    BY ParseInfoType
  <2>2. [g EXCEPT !.want = @ \union {"link"}] \in Hud
    BY <2>1, <1>1 DEF Wants
  <2> QED BY <2>1, <2>2, MaybeConfirmJoinType DEF FinishInfo
<1>3. FinishScan(h, obs, first) \in Hud
  BY ParseScanType, MaybeConfirmJoinType DEF FinishScan
<1>4. FinishLink(h, obs) \in Hud
  <2> DEFINE g == MaybeConfirmJoin(ApplyWifiSsid(h, obs.ap))
  <2>1. g \in Hud
    BY ApplyWifiSsidType, MaybeConfirmJoinType
  <2>2. [g EXCEPT !.want = @ \union {"info"}] \in Hud
    BY <2>1, <1>1 DEF Wants
  <2> QED BY <2>1, <2>2 DEF FinishLink
<1>5. FinishRadio(h) \in Hud
  BY DEF FinishRadio, Hud, Wants
<1> QED BY <1>2, <1>3, <1>4, <1>5
-----------------------------------------------------------------------------
LEMMA OnConnectJobActs ==
  ASSUME NEW in
  PROVE  OnConnectJob(in) \in ConnectActs
BY DEF OnConnectJob, ConnectActs

LEMMA JoinSucceededType ==
  ASSUME NEW h \in Hud
  PROVE  JoinSucceeded(h) \in Hud
<1> DEFINE dropped == IF DropPending(TRUE, h.target, h.pendSsid)
                      THEN {"connect"} ELSE {}
           g == [h EXCEPT !.wait = "fresh",
                          !.connecting = TRUE, !.busy = TRUE,
                          !.want = (@ \ dropped) \union {"info", "link"},
                          !.sheet = IF @ = "PASS" THEN "DETAIL" ELSE @]
<1>1. (h.want \ dropped) \union {"info", "link"} \in SUBSET Wants
  BY DEF Hud, Wants
<1>2. g \in Hud
  <2> HIDE DEF dropped
  <2> QED BY <1>1 DEF Hud, Sheets
<1> QED BY <1>2, MaybeConfirmJoinType DEF JoinSucceeded

LEMMA JoinRetryPskType ==
  ASSUME NEW h \in Hud, NEW up
  PROVE  JoinRetryPsk(h, up) \in Hud
<1>1. [h EXCEPT !.want = @ \ {"connect"}] \in Hud
  BY DEF Hud
<1>2. h.target \in SsidsOrNone /\ h.knownPsk \in PassOrNone
  BY DEF Hud
<1>3. /\ WifiConnect(h, h.target, h.knownPsk, up) \in Hud
      /\ WifiConnect([h EXCEPT !.want = @ \ {"connect"}], h.target, h.knownPsk, up) \in Hud
  <2>1. \A k \in Hud : WifiConnect(k, h.target, h.knownPsk, up) \in Hud
    BY <1>2, WifiConnectType
  <2> QED BY <1>1, <2>1
<1> QED BY <1>3 DEF JoinRetryPsk

LEMMA FinishConnectType ==
  ASSUME NEW h \in Hud, NEW obs, NEW up
  PROVE  FinishConnect(h, obs, up) \in Hud
<1> DEFINE act == OnConnectJob(ConnectIn(h, obs))
           idle == JoinOver(h)
<1>1. idle \in Hud
  BY DEF JoinOver, Hud
<1>2. act \in ConnectActs
  BY OnConnectJobActs
<1>3. JoinSucceeded(idle) \in Hud
  BY <1>1, JoinSucceededType
<1>4. JoinRetryPsk(idle, up) \in Hud
  BY <1>1, JoinRetryPskType
<1>5. \A k \in Hud : AskPassword(k) \in Hud
  BY DEF AskPassword, Hud, Sheets
<1>6. ForgetPsk(idle, idle.target) \in Hud
  <2>1. \A k \in Hud : k.target \in SsidsOrNone
    BY DEF Hud
  <2>2. PassOrNone # {}
    BY DEF PassOrNone
  <2> QED BY <1>1, <2>1, <2>2, PskType
<1>7. \A k \in Hud : JoinFailed(k) \in Hud
  BY DEF JoinFailed, Hud, Sheets
<1> HIDE DEF act, idle
<1>8. FinishConnect(h, obs, up) =
        CASE act = "SUCCESS"      -> JoinSucceeded(idle)
          [] act = "RETRY_PSK"    -> JoinRetryPsk(idle, up)
          [] act = "WRONG_PASS"   -> AskPassword(ForgetPsk(idle, idle.target))
          [] act = "OPEN_PASS"    -> AskPassword(idle)
          [] act = "WAIT_PENDING" -> idle
          [] act = "FAIL"         -> JoinFailed(idle)
  BY DEF FinishConnect, act, idle
<1> QED
  BY <1>1, <1>2, <1>3, <1>4, <1>5, <1>6, <1>7, <1>8 DEF ConnectActs

LEMMA FinishForgetType ==
  ASSUME NEW h \in Hud, NEW obs
  PROVE  FinishForget(h, obs) \in Hud
<1> DEFINE gone == IF h.hold # NoSsid THEN h.hold ELSE h.sel
           g == MarkApInactive([h EXCEPT !.forgetting = FALSE], gone)
           shown == \/ SsidEq(g.live, g.sel) \/ SsidEq(g.live, g.hold)
                    \/ ForgetHoldConnected(g.hold, TRUE, g.live)
           k == IF shown THEN ClearLive(g) ELSE g
<1>1. [h EXCEPT !.forgetting = FALSE] \in Hud
  BY DEF Hud
<1>2. g \in Hud
  BY <1>1, MarkApInactiveType
<1>3. k \in Hud
  <2> HIDE DEF g
  <2> QED BY <1>2, ClearLiveType
<1>4. ForgetPsk(k, k.sel) \in Hud
  <2> HIDE DEF k
  <2>1. k.sel \in SsidsOrNone
    BY <1>3 DEF Hud
  <2>2. PassOrNone # {}
    BY DEF PassOrNone
  <2> QED BY <1>3, <2>1, <2>2, PskType
<1>5. [ForgetPsk(k, k.sel) EXCEPT !.sheet = "LIST",
                                  !.want = @ \union {"info", "scan"}] \in Hud
  <2>1. \A l \in Hud : [l EXCEPT !.sheet = "LIST",
                                 !.want = @ \union {"info", "scan"}] \in Hud
    BY DEF Hud, Sheets, Wants
  <2> HIDE DEF k
  <2> QED BY <1>4, <2>1
<1>6. [h EXCEPT !.forgetting = FALSE, !.sheet = "DETAIL"] \in Hud
  BY DEF Hud, Sheets
<1> QED BY <1>5, <1>6 DEF FinishForget

LEMMA FinishJobType ==
  ASSUME NEW h \in Hud, NEW job \in Job, job.kind # "none",
         NEW first \in SsidsOrNone, NEW up
  PROVE  FinishJob(h, job, first, up) \in Hud
<1>1. job.kind \in Kinds /\ job.obs \in Obs
  BY DEF Job
<1> QED
  BY <1>1, FinishQueryType, FinishConnectType, FinishForgetType
  DEF FinishJob, Kinds
-----------------------------------------------------------------------------
(* The actions.                                                            *)

LEMMA LoopType == TypeOK /\ Loop => TypeOK'
<1> SUFFICES ASSUME TypeOK, Loop PROVE TypeOK'
  OBVIOUS
<1> USE DEF TypeOK
<1>1. CASE PollJob
  <2> SUFFICES ASSUME NEW up \in LaunchSets, NEW first \in FirstRows(hud),
                      hud' = KickPending(FinishJob(CloseJob(hud), hud.job, first, up), up)
               PROVE  hud' \in Hud /\ radio' \in Radio
    BY <1>1 DEF PollJob
  <2>1. CloseJob(hud) \in Hud /\ first \in SsidsOrNone
    BY CloseJobType, FirstRowsType
  <2>2. hud.job \in Job /\ hud.job.kind # "none"
    BY <1>1 DEF PollJob, JobRunning, Hud
  <2>3. FinishJob(CloseJob(hud), hud.job, first, up) \in Hud
    BY <2>1, <2>2, FinishJobType
  <2> QED BY <1>1, <2>3, KickPendingType DEF PollJob
<1>2. CASE ConfirmTick
  BY <1>2, MaybeConfirmJoinType DEF ConfirmTick
<1>3. CASE KickTick
  BY <1>3, KickPendingType DEF KickTick
<1>4. CASE PeriodicScan
  BY <1>4, StartOrQueueType DEF PeriodicScan, Periodic
<1>5. CASE PeriodicInfo
  BY <1>5, StartOrQueueType DEF PeriodicInfo, Periodic
<1> QED BY <1>1, <1>2, <1>3, <1>4, <1>5 DEF Loop

LEMMA HoldForgottenType ==
  ASSUME NEW h \in Hud, NEW ssid \in SsidsOrNone
  PROVE  HoldForgotten(h, ssid) \in Hud
<1> DEFINE g == MarkApInactive([h EXCEPT !.hold = ssid], ssid)
<1>1. [h EXCEPT !.hold = ssid] \in Hud
  BY DEF Hud
<1>2. g \in Hud
  BY <1>1, MarkApInactiveType
<1> HIDE DEF g
<1>3. ClearLive(g) \in Hud
  BY <1>2, ClearLiveType
<1> QED BY <1>2, <1>3 DEF HoldForgotten, g

LEMMA TapsType == TypeOK /\ Taps => TypeOK'
<1> SUFFICES ASSUME TypeOK, Taps PROVE TypeOK'
  OBVIOUS
<1> USE DEF TypeOK
<1>1. \A s \in Sheets : [hud EXCEPT !.sheet = s] \in Hud
  BY DEF Hud
<1>2. CASE TapHomeCard
  <2>1. [hud EXCEPT !.sheet = "LIST"] \in Hud
    BY DEF Hud, Sheets
  <2>2. \A up : StartOrQueue([hud EXCEPT !.sheet = "LIST"], "scan", up) \in Hud
    BY <2>1, StartOrQueueType
  <2> QED BY <1>2, <2>1, <2>2 DEF TapHomeCard, OnSheet
<1>3. CASE TapListClose
  BY <1>1, <1>3 DEF TapListClose, OnSheet, Sheets
<1>4. CASE TapRefresh
  BY <1>4, StartOrQueueType DEF TapRefresh, OnSheet
<1>5. CASE \E s \in Ssids : TapRow(s)
  <2> PICK s \in Ssids : TapRow(s)
    BY <1>5
  <2> DEFINE sheet == IF hud.connecting \/ hud.forgetting
                      THEN hud.sheet ELSE "DETAIL"
  <2>1. sheet \in Sheets
    BY DEF Hud, Sheets
  <2>2. [hud EXCEPT !.sel = s, !.sheet = sheet] \in Hud
    <3> HIDE DEF sheet
    <3> QED BY <2>1 DEF Hud, SsidsOrNone
  <2> QED BY <2>2 DEF TapRow, OnSheet
<1>6. CASE TapDetailBack
  BY <1>1, <1>6 DEF TapDetailBack, OnSheet, Sheets
<1>7. CASE TapJoin
  <2> DEFINE session == JoinUseSessionPsk(hud.sel, hud.knownSsid, hud.knownPsk)
             pass == IF session THEN hud.knownPsk ELSE NoPass
             g == [hud EXCEPT !.usedPass = session]
  <2>1. session \in BOOLEAN
    BY DEF JoinUseSessionPsk, SsidEq
  <2>2. pass \in PassOrNone /\ hud.sel \in SsidsOrNone
    BY DEF Hud, PassOrNone
  <2>3. g \in Hud
    <3> HIDE DEF session
    <3> QED BY <2>1 DEF Hud
  <2>4. \A up : WifiConnect(g, hud.sel, pass, up) \in Hud
    <3> HIDE DEF g, pass
    <3> QED BY <2>2, <2>3, WifiConnectType
  <2> QED BY <1>7, <2>4 DEF TapJoin, OnSheet
<1>8. CASE TapForget
  <2> DEFINE g == [hud EXCEPT !.wait = "none", !.connecting = FALSE, !.busy = FALSE,
                              !.want = {}, !.forgetting = TRUE]
             m == AbortJob(HoldForgotten(g, g.sel))
  <2>1. g \in Hud
    BY DEF Hud
  <2>2. m \in Hud
    <3>1. \A k \in Hud : k.sel \in SsidsOrNone
      BY DEF Hud
    <3> HIDE DEF g
    <3> QED BY <2>1, <3>1, HoldForgottenType, CloseJobType DEF AbortJob
  <2> HIDE DEF m
  <2>3. [m EXCEPT !.forgetting = FALSE] \in Hud
    BY <2>2 DEF Hud
  <2>4. \A up : StartNmcli(m, "forget", m.sel, NoPass, up) \in Hud
    <3>1. m.sel \in SsidsOrNone /\ NoPass \in PassOrNone /\ "forget" \in Kinds
      BY <2>2 DEF Hud, PassOrNone, Kinds
    <3> QED BY <2>2, <3>1, StartNmcliType
  <2> QED BY <1>8, <2>3, <2>4 DEF TapForget, OnSheet, m
<1>9. CASE \E p \in PassOrNone : TypePassword(p)
  BY <1>9 DEF TypePassword, OnSheet, Hud
<1>10. CASE TapCancel
  BY <1>1, <1>10 DEF TapCancel, OnSheet, Sheets
<1>11. CASE TapSubmit
  <2> DEFINE ssid == PassSsid(hud.target, hud.sel)
             u == [hud EXCEPT !.usedPass = TRUE]
             g == RememberPsk(u, ssid, hud.typed)
  <2>1. ssid \in SsidsOrNone /\ hud.typed \in PassOrNone
    BY DEF PassSsid, Hud
  <2>2. u \in Hud
    BY DEF Hud
  <2>3. g \in Hud
    <3> HIDE DEF u, ssid
    <3> QED BY <2>1, <2>2, PskType
  <2> HIDE DEF g, ssid
  <2>4. [g EXCEPT !.pendSsid = ssid, !.pendPass = hud.typed,
                  !.want = @ \union {"connect"}] \in Hud
    BY <2>1, <2>3 DEF Hud, Wants
  <2>5. \A up : WifiConnect(g, ssid, hud.typed, up) \in Hud
    BY <2>1, <2>3, WifiConnectType
  <2> QED BY <1>11, <2>4, <2>5 DEF TapSubmit, OnSheet, g, ssid
<1> QED BY <1>2, <1>3, <1>4, <1>5, <1>6, <1>7, <1>8, <1>9, <1>10, <1>11 DEF Taps

LEMMA ExitType ==
  ASSUME hud \in Hud, NEW obs \in Obs, Exit(obs)
  PROVE  hud' \in Hud
BY DEF Exit, Hud, Job

LEMMA OutsideType == TypeOK /\ Outside => TypeOK'
<1> SUFFICES ASSUME TypeOK, Outside PROVE TypeOK'
  OBVIOUS
<1> USE DEF TypeOK
<1>1. CASE RadioStep
  BY <1>1 DEF RadioStep, Radio, NmState, SsidsOrNone
<1>2. /\ \A nm \in NmState : [NoObs EXCEPT !.nm = nm] \in Obs
      /\ \A ap \in SsidsOrNone : [NoObs EXCEPT !.ap = ap] \in Obs
      /\ \A list \in SUBSET Ssids, ap \in SsidsOrNone :
           [NoObs EXCEPT !.list = list, !.ap = ap] \in Obs
      /\ \A rc \in 0..3 : [NoObs EXCEPT !.rc = rc] \in Obs
      /\ \A rc \in 0..3, says \in SUBSET Marks :
           [NoObs EXCEPT !.rc = rc, !.says = says] \in Obs
      /\ \A says \in SUBSET Marks : [NoObs EXCEPT !.says = says] \in Obs
  BY NoObsType DEF Obs
<1>3. radio.nm \in NmState /\ radio.ap \in SsidsOrNone
  BY DEF Radio
<1>4. CASE RadioExit
  BY <1>4, NoObsType, ExitType DEF RadioExit, QueryExit
<1>5. CASE InfoExit
  BY <1>2, <1>3, <1>5, ExitType DEF InfoExit, QueryExit
<1>6. CASE InfoError
  BY <1>6, NoObsType, ExitType DEF InfoError, QueryExit
<1>7. CASE ScanExit
  <2> PICK list \in ScanLists :
         QueryExit("scan", [NoObs EXCEPT !.list = list, !.ap = radio.ap])
    BY <1>7 DEF ScanExit
  <2>1. list \in SUBSET Ssids
    BY WifiAssumption
  <2>2. [NoObs EXCEPT !.list = list, !.ap = radio.ap] \in Obs
    BY <1>2, <1>3, <2>1
  <2> QED BY <2>2, ExitType DEF QueryExit
<1>8. CASE LinkExit
  BY <1>2, <1>3, <1>8, ExitType DEF LinkExit, QueryExit
<1>9. CASE ConnectExit
  <2>1. /\ [NoObs EXCEPT !.says = {"joined"}] \in Obs
        /\ [NoObs EXCEPT !.rc = 2, !.says = {"need"}] \in Obs
        /\ [NoObs EXCEPT !.rc = 3, !.says = {"wrong"}] \in Obs
        /\ [NoObs EXCEPT !.rc = 1] \in Obs
    <3>1. /\ {"joined"} \in SUBSET Marks /\ {"need"} \in SUBSET Marks
          /\ {"wrong"} \in SUBSET Marks
      BY DEF Marks
    <3>2. 1 \in 0..3 /\ 2 \in 0..3 /\ 3 \in 0..3
      OBVIOUS
    <3> QED BY <1>2, <3>1, <3>2, Zenon
  <2>2. \E obs \in Obs : Exit(obs)
    BY <1>9, <2>1 DEF ConnectExit
  <2>3. UNCHANGED radio
    BY <1>9 DEF ConnectExit
  <2> QED BY <2>2, <2>3, ExitType
<1>10. CASE ForgetExit
  <2>1. [NoObs EXCEPT !.rc = 1] \in Obs
    BY NoObsType DEF Obs
  <2>2. [nm |-> "down", ap |-> NoSsid] \in Radio
    BY DEF Radio, NmState, SsidsOrNone
  <2> QED BY <1>10, <2>1, <2>2, NoObsType, ExitType DEF ForgetExit
<1>11. CASE JoinOverdue
  BY <1>11 DEF JoinOverdue, Hud
<1> QED
  BY <1>1, <1>4, <1>5, <1>6, <1>7, <1>8, <1>9, <1>10, <1>11 DEF Outside, JobExit

LEMMA InitType == Init => TypeOK
<1> SUFFICES ASSUME Init PROVE TypeOK
  OBVIOUS
<1>1. radio \in Radio
  BY DEF Init, Radio, NmState, SsidsOrNone
<1> DEFINE h == [job |-> NoJob, want |-> {}, pendSsid |-> NoSsid, pendPass |-> NoPass,
                 connecting |-> FALSE, wait |-> "none",
                 target |-> NoSsid, usedPass |-> FALSE,
                 knownSsid |-> NoSsid, knownPsk |-> NoPass,
                 forgetting |-> FALSE, hold |-> NoSsid,
                 connected |-> FALSE, busy |-> FALSE, live |-> NoSsid,
                 seen |-> {}, active |-> NoSsid,
                 sheet |-> "NONE", sel |-> NoSsid, typed |-> NoPass,
                 screenOff |-> FALSE]
<1>2. h \in Hud
  BY NoJobType DEF Hud, SsidsOrNone, PassOrNone, Sheets
<1>3. [h EXCEPT !.want = {"info"}] \in Hud
  BY NoJobType DEF Hud, SsidsOrNone, PassOrNone, Sheets, Wants
<1>4. \A up : StartNmcli(h, "radio", NoSsid, NoPass, up) \in Hud
  <2> HIDE DEF h
  <2> QED BY <1>2, StartNmcliType DEF Kinds, SsidsOrNone, PassOrNone
<1>5. hud \in Hud
  BY <1>3, <1>4 DEF Init
<1> QED BY <1>1, <1>5 DEF TypeOK

(* Every variable keeps its type in every behaviour.                       *)
THEOREM TypeCorrect == Spec => []TypeOK
<1>1. TypeOK /\ [Next]_vars => TypeOK'
  <2> SUFFICES ASSUME TypeOK, [Next]_vars PROVE TypeOK'
    OBVIOUS
  <2>1. CASE PowerKey
    BY <2>1 DEF TypeOK, PowerKey, Hud
  <2>2. CASE IdleOff
    BY <2>2 DEF TypeOK, IdleOff, Hud
  <2>3. CASE UNCHANGED vars
    BY <2>3 DEF TypeOK, vars
  <2> QED BY <2>1, <2>2, <2>3, LoopType, TapsType, OutsideType DEF Next
<1> QED BY <1>1, InitType, PTL DEF Spec
=============================================================================
