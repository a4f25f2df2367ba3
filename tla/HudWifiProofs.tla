---------------------------- MODULE HudWifiProofs ---------------------------
(***************************************************************************)
(* The safety of the HUD's Wi-Fi job engine, for every set of SSIDs,       *)
(* passwords and scan lists, and whichever children fail to start.         *)
(*                                                                         *)
(* Inv holds between handlers.  Inside poll_job it is broken for a moment: *)
(* a failed join is no longer "connecting" while a password for it is      *)
(* still queued; Mid says what holds there, and kick_pending leads from    *)
(* Mid back to Inv.                                                        *)
(***************************************************************************)
EXTENDS HudWifiTypes, HudWifiHistory

(* No child is running.                                                    *)
Quiet(h) == Inv(h) /\ h.job.kind = "none"

(* Inv, but the queued join need not be running any more.                  *)
Mid(h) ==
  /\ SlotInv(h) /\ ForgetInv(h) /\ SheetInv(h) /\ HoldInv(h) /\ TargetInv(h)
  /\ "connect" \in h.want =>
       /\ ~JoinWait(h) /\ h.sheet # "NONE"
       /\ h.target # NoSsid /\ h.pendSsid = h.target /\ h.pendPass # NoPass
       /\ JobRunning(h) => h.connecting

LEMMA InvIsMid ==
  ASSUME NEW h \in Hud, Inv(h)
  PROVE  Mid(h)
BY DEF Inv, Mid, QueueInv, SheetInv, TargetInv

LEMMA CloseJobQuiet ==
  ASSUME NEW h \in Hud, Inv(h), h.job.kind # "forget"
  PROVE  Quiet(CloseJob(h))
<1> DEFINE g == CloseJob(h)
<1>1. g.job.kind = "none"
  BY DEF CloseJob, NoJob, Hud
<1> QED
  BY <1>1 DEF Hud, CloseJob, NoJob, Quiet, Inv, SlotInv, QueueInv, ForgetInv, SheetInv, HoldInv,
              TargetInv, JoinWait

LEMMA WantQuiet ==
  ASSUME NEW h \in Hud, Quiet(h), NEW w \in SUBSET {"info", "scan", "link"}
  PROVE  Quiet([h EXCEPT !.want = @ \union w])
BY DEF Hud, Quiet, Inv, SlotInv, QueueInv, ForgetInv, SheetInv, HoldInv, TargetInv, JoinWait

LEMMA MaybeConfirmJoinInv ==
  ASSUME NEW h \in Hud, Inv(h)
  PROVE  Inv(MaybeConfirmJoin(h)) /\ MaybeConfirmJoin(h).job = h.job
<1> DEFINE ok == [MarkApActive(h, h.target) EXCEPT
                    !.wait = "none", !.connecting = FALSE, !.busy = FALSE,
                    !.sheet = "NONE", !.want = @ \union {"scan"}]
           fail == [h EXCEPT !.wait = "none", !.connecting = FALSE, !.busy = FALSE,
                             !.sheet = IF @ = "NONE" THEN "DETAIL" ELSE @]
<1>1. CASE ~JoinWait(h)
  BY <1>1 DEF MaybeConfirmJoin
<1>2. CASE JoinWait(h)
  <2>1. Inv(ok) /\ ok.job = h.job
    BY <1>2 DEF MarkApActive, Hud, Inv, SlotInv, QueueInv, ForgetInv, SheetInv, HoldInv,
                TargetInv, JoinWait
  <2>2. Inv(fail) /\ fail.job = h.job
    BY <1>2 DEF Hud, Inv, SlotInv, QueueInv, ForgetInv, SheetInv, HoldInv,
                TargetInv, JoinWait
  <2> QED BY <2>1, <2>2 DEF MaybeConfirmJoin
<1> QED BY <1>1, <1>2

LEMMA StartOrQueueInv ==
  ASSUME NEW h \in Hud, Quiet(h), NEW kind \in {"info", "scan", "link"}, NEW up
  PROVE  Inv(StartOrQueue(h, kind, up))
<1> USE DEF Hud, Quiet, Inv, SlotInv, QueueInv, ForgetInv, SheetInv, HoldInv,
            TargetInv, JoinWait
<1>1. Inv([h EXCEPT !.want = @ \union {kind}])
  OBVIOUS
<1>2. Inv(StartNmcli(h, kind, NoSsid, NoPass, up))
  <2> DEFINE job == [NoJob EXCEPT !.kind = kind, !.ssid = NoSsid, !.pass = NoPass]
  <2>1. job.kind = kind
    BY DEF NoJob
  <2>2. Inv([h EXCEPT !.job = job])
    <3> HIDE DEF job
    <3> QED BY <2>1
  <2> QED BY <2>2 DEF StartNmcli
<1> QED BY <1>1, <1>2 DEF StartOrQueue

(* A tap may queue a query behind a running child.                         *)
LEMMA StartOrQueueBusyInv ==
  ASSUME NEW h \in Hud, Inv(h), ~h.forgetting,
         NEW kind \in {"info", "scan", "link"}, NEW up
  PROVE  Inv(StartOrQueue(h, kind, up))
<1>1. CASE JobRunning(h)
  <2>1. StartOrQueue(h, kind, up) = [h EXCEPT !.want = @ \union {kind}]
    BY <1>1 DEF StartOrQueue, CanStart
  <2>2. Inv([h EXCEPT !.want = @ \union {kind}])
    BY DEF Hud, Inv, SlotInv, QueueInv, ForgetInv, SheetInv, HoldInv,
           TargetInv, JoinWait
  <2> QED BY <2>1, <2>2
<1>2. CASE ~JobRunning(h)
  BY <1>2, StartOrQueueInv DEF JobRunning, Quiet
<1> QED BY <1>1, <1>2

(* wifi_connect when the running child, if any, is a query.                *)
LEMMA WifiConnectInv ==
  ASSUME NEW h \in Hud, NEW ssid \in SsidsOrNone, NEW pass \in PassOrNone, NEW up,
         ssid # NoSsid, ssid \notin Enterprise,
         h.job.kind \notin {"connect", "forget"},
         ~h.forgetting, "connect" \notin h.want, h.sheet # "NONE"
  PROVE  Inv(WifiConnect(h, ssid, pass, up))
<1> DEFINE g == [h EXCEPT !.hold = NoSsid, !.connecting = TRUE, !.wait = "none",
                          !.busy = TRUE, !.target = ssid]
           k == AbortJob(g)
           job == [NoJob EXCEPT !.kind = "connect", !.ssid = ssid, !.pass = pass]
<1>1. g.job.kind # "connect"
  BY DEF Hud
<1>2. /\ k.job.kind = "none" /\ k.connecting /\ k.wait = "none" /\ k.target = ssid
      /\ ~k.forgetting /\ "connect" \notin k.want /\ k.sheet # "NONE"
      /\ k.hold = NoSsid /\ k \in Hud
  <2>1. g \in Hud
    BY DEF Hud, SsidsOrNone
  <2>2. k \in Hud
    BY <2>1, CloseJobType DEF AbortJob
  <2> QED BY <2>2 DEF AbortJob, CloseJob, NoJob, Hud
<1>3. WifiConnect(h, ssid, pass, up) = StartNmcli(k, "connect", ssid, pass, up)
  BY <1>1, <1>2 DEF WifiConnect, JobRunning
<1>4. job.kind = "connect" /\ job.ssid = ssid
  BY DEF NoJob
<1> HIDE DEF k, job
<1>5. Inv(k) /\ Inv([k EXCEPT !.job = job])
  BY <1>2, <1>4 DEF Hud, Inv, SlotInv, QueueInv, ForgetInv, SheetInv, HoldInv,
                    TargetInv, JoinWait
<1> QED BY <1>3, <1>5 DEF StartNmcli, job

(* kick_pending, from inside poll_job or from the main loop.               *)
LEMMA KickPendingInv ==
  ASSUME NEW h \in Hud, Mid(h), NEW up
  PROVE  Inv(KickPending(h, up))
<1> DEFINE without(w) == [h EXCEPT !.want = @ \ {w}]
<1>1. \A w \in Wants : without(w) \in Hud
  BY DEF Hud
<1>2. CASE JobRunning(h)
  <2>1. Inv(h)
    BY <1>2 DEF Mid, Inv, QueueInv
  <2> QED BY <1>2, <2>1 DEF KickPending
<1>3. CASE ~JobRunning(h) /\ "connect" \in h.want
  <2> DEFINE g == without("connect")
  <2>1. g \in Hud
    BY <1>1 DEF Wants
  <2>2. /\ g.job.kind = "none" /\ ~g.forgetting /\ "connect" \notin g.want
        /\ g.sheet # "NONE" /\ h.pendSsid # NoSsid /\ h.pendSsid \notin Enterprise
        /\ h.pendSsid \in SsidsOrNone /\ h.pendPass \in PassOrNone
    BY <1>3 DEF Hud, Mid, JobRunning, ForgetInv, TargetInv
  <2> HIDE DEF g
  <2>3. Inv(WifiConnect(g, h.pendSsid, h.pendPass, up))
    BY <2>1, <2>2, WifiConnectInv
  <2> QED BY <1>3, <2>3 DEF KickPending, g
<1>4. CASE ~JobRunning(h) /\ "connect" \notin h.want
  <2>1. ASSUME NEW w \in {"info", "scan", "link"}
        PROVE  Inv(StartOrQueue(without(w), w, up))
    <3>1. without(w) \in Hud
      BY <1>1 DEF Wants
    <3>2. Quiet(without(w))
      BY <1>4 DEF Hud, Mid, JobRunning, Quiet, Inv, SlotInv, QueueInv, ForgetInv,
                  SheetInv, HoldInv, TargetInv, JoinWait
    <3> HIDE DEF without
    <3> QED BY <3>1, <3>2, StartOrQueueInv
  <2>2. Inv(h)
    BY <1>4 DEF Mid, Inv, QueueInv
  <2>3. Inv(StartOrQueue(without("info"), "info", up))
    BY <2>1
  <2>4. Inv(StartOrQueue(without("scan"), "scan", up))
    BY <2>1
  <2>5. Inv(StartOrQueue(without("link"), "link", up))
    BY <2>1
  <2> QED BY <1>4, <2>2, <2>3, <2>4, <2>5 DEF KickPending
<1> QED BY <1>2, <1>3, <1>4
-----------------------------------------------------------------------------
(* The results of the query jobs.                                          *)

LEMMA ApplyWifiSsidQuiet ==
  ASSUME NEW h \in Hud, Quiet(h), NEW ssid \in SsidsOrNone
  PROVE  Quiet(ApplyWifiSsid(h, ssid))
<1> USE DEF Hud, Quiet, Inv, SlotInv, QueueInv, ForgetInv, SheetInv, HoldInv,
            TargetInv, JoinWait
<1>1. Quiet([h EXCEPT !.hold = NoSsid])
  OBVIOUS
<1>2. Quiet([h EXCEPT !.hold = NoSsid, !.live = ssid])
  OBVIOUS
<1> QED BY <1>1, <1>2 DEF ApplyWifiSsid

LEMMA ParseInfoQuiet ==
  ASSUME NEW h \in Hud, Quiet(h), NEW nm
  PROVE  Quiet(ParseInfo(h, nm))
<1> DEFINE g == [h EXCEPT !.connected = (nm = "up"), !.busy = (nm = "busy")]
<1> USE DEF Quiet, Inv, SlotInv, QueueInv, ForgetInv, SheetInv, HoldInv,
            TargetInv, JoinWait
<1>1. g \in Hud
  BY DEF Hud
<1>2. Quiet(g)
  BY DEF Hud
<1> HIDE DEF g
<1>3. Quiet([ClearLive(g) EXCEPT !.busy = FALSE])
  BY <1>1, <1>2 DEF ClearLive, Hud
<1>4. Quiet([g EXCEPT !.hold = NoSsid])
  BY <1>1, <1>2 DEF Hud
<1> HIDE DEF Quiet
<1> QED BY <1>2, <1>3, <1>4 DEF ParseInfo, g

LEMMA ParseScanQuiet ==
  ASSUME NEW h \in Hud, Quiet(h), NEW list \in SUBSET Ssids, NEW ap,
         NEW first \in SsidsOrNone
  PROVE  Quiet(ParseScan(h, list, ap, first))
<1> DEFINE act == IF ap \in list /\ ap # h.hold THEN ap ELSE NoSsid
           g == [h EXCEPT !.seen = list, !.active = act]
<1>1. act \in SsidsOrNone
  BY DEF SsidsOrNone
<1>2. g \in Hud
  BY <1>1 DEF Hud
<1>3. Quiet(g)
  BY DEF Hud, Quiet, Inv, SlotInv, QueueInv, ForgetInv, SheetInv, HoldInv,
         TargetInv, JoinWait
<1> HIDE DEF g
<1>4. Quiet(ApplyWifiSsid(g, first))
  BY <1>2, <1>3, ApplyWifiSsidQuiet
<1> QED BY <1>3, <1>4 DEF ParseScan, g

LEMMA FinishQueryQuiet ==
  ASSUME NEW h \in Hud, Quiet(h), NEW obs \in Obs, NEW first \in SsidsOrNone
  PROVE  /\ Quiet(FinishInfo(h, obs))
         /\ Quiet(FinishScan(h, obs, first))
         /\ Quiet(FinishLink(h, obs))
         /\ Quiet(FinishRadio(h))
<1> obs.list \in SUBSET Ssids /\ obs.ap \in SsidsOrNone
  BY DEF Obs
<1>1. ASSUME NEW k \in Hud, Quiet(k)
      PROVE  Quiet(MaybeConfirmJoin(k))
  BY <1>1, MaybeConfirmJoinInv DEF Quiet
<1>2. Quiet(FinishInfo(h, obs))
  <2> DEFINE g == ParseInfo(h, obs.nm)
             l == [g EXCEPT !.want = @ \union {"link"}]
  <2>1. g \in Hud /\ Quiet(g)
    BY ParseInfoType, ParseInfoQuiet
  <2>2. l \in Hud /\ Quiet(l)
    <3> HIDE DEF g
    <3>1. l \in Hud
      BY <2>1 DEF Hud, Wants
    <3>2. Quiet(l)
      BY <2>1, WantQuiet
    <3> QED BY <3>1, <3>2
  <2> HIDE DEF g, l
  <2>3. Quiet(MaybeConfirmJoin(g)) /\ Quiet(MaybeConfirmJoin(l))
    BY <1>1, <2>1, <2>2
  <2> QED BY <2>3 DEF FinishInfo, g, l
<1>3. Quiet(FinishScan(h, obs, first))
  <2> DEFINE g == ParseScan(h, obs.list, obs.ap, first)
  <2>1. g \in Hud /\ Quiet(g)
    BY ParseScanType, ParseScanQuiet
  <2> HIDE DEF g
  <2>2. Quiet(MaybeConfirmJoin(g))
    BY <1>1, <2>1
  <2> QED BY <2>2 DEF FinishScan, g
<1>4. Quiet(FinishLink(h, obs))
  <2> DEFINE f == ApplyWifiSsid(h, obs.ap)
             g == MaybeConfirmJoin(f)
  <2>1. f \in Hud /\ Quiet(f)
    BY ApplyWifiSsidType, ApplyWifiSsidQuiet
  <2>2. g \in Hud /\ Quiet(g)
    <3> HIDE DEF f
    <3> QED BY <1>1, <2>1, MaybeConfirmJoinType
  <2> HIDE DEF g
  <2>3. Quiet([g EXCEPT !.want = @ \union {"info"}])
    BY <2>2, WantQuiet
  <2> QED BY <2>2, <2>3 DEF FinishLink, g
<1>5. Quiet(FinishRadio(h))
  BY WantQuiet DEF FinishRadio
<1> QED BY <1>2, <1>3, <1>4, <1>5
-----------------------------------------------------------------------------
(* The result of a join.                                                   *)

(* With a password queued for the network, the job is never answered by    *)
(* asking for a password or by retrying the old one.                       *)
LEMMA QueuedAct ==
  ASSUME NEW h \in Hud, QueueInv(h), TargetInv(h), "connect" \in h.want, NEW obs
  PROVE  OnConnectJob(ConnectIn(h, obs)) \in {"SUCCESS", "WAIT_PENDING", "FAIL"}
<1> DEFINE in == ConnectIn(h, obs)
           already == AlreadyOn(in.connected, in.live, in.target)
           need == JobNeedPw(in.rc, in.says)
           wrong == JobWrongPw(in.rc, in.says)
           pendPw == in.wantConnect /\ in.pendHasPass /\ SsidEq(in.pendSsid, in.target)
<1>1. pendPw
  BY DEF ConnectIn, QueueInv, TargetInv, SsidEq
<1>2. CASE need \/ wrong
  BY <1>1, <1>2 DEF OnConnectJob
<1>3. CASE ~need /\ ~wrong
  BY <1>3 DEF OnConnectJob, OpenPass
<1> QED BY <1>2, <1>3

LEMMA FinishConnectMid ==
  ASSUME NEW h \in Hud, Quiet(h), h.connecting, ~JoinWait(h), NEW obs, NEW up
  PROVE  Mid(FinishConnect(h, obs, up))
<1> DEFINE act == OnConnectJob(ConnectIn(h, obs))
           idle == JoinOver(h)
<1>1. act \in ConnectActs
  BY OnConnectJobActs
<1>2. /\ idle \in Hud
      /\ idle = [h EXCEPT !.connecting = FALSE, !.busy = FALSE]
  BY DEF JoinOver, Hud
<1>3. /\ idle.job.kind = "none" /\ ~idle.connecting /\ ~idle.forgetting
      /\ idle.wait = "none" /\ idle.want = h.want /\ idle.sheet # "NONE"
      /\ idle.target # NoSsid /\ idle.target \notin Enterprise
      /\ idle.target \in SsidsOrNone
      /\ idle.hold # NoSsid => idle.live # idle.hold
      /\ "connect" \in idle.want => idle.pendSsid = idle.target /\ idle.pendPass # NoPass
  BY DEF JoinOver, Hud, Quiet, Inv, QueueInv, ForgetInv, SheetInv, HoldInv, TargetInv, JoinWait
<1>4. "connect" \in idle.want => act \in {"SUCCESS", "WAIT_PENDING", "FAIL"}
  BY <1>3, QueuedAct DEF Quiet, Inv
<1>5. FinishConnect(h, obs, up) =
        CASE act = "SUCCESS"      -> JoinSucceeded(idle)
          [] act = "RETRY_PSK"    -> JoinRetryPsk(idle, up)
          [] act = "WRONG_PASS"   -> AskPassword(ForgetPsk(idle, idle.target))
          [] act = "OPEN_PASS"    -> AskPassword(idle)
          [] act = "WAIT_PENDING" -> idle
          [] act = "FAIL"         -> JoinFailed(idle)
  BY DEF FinishConnect
<1> HIDE DEF act, idle
<1> USE DEF JoinWait
<1>6. Mid(JoinSucceeded(idle))
  <2> DEFINE dropped == IF DropPending(TRUE, idle.target, idle.pendSsid)
                        THEN {"connect"} ELSE {}
             want == (idle.want \ dropped) \union {"info", "link"}
             sheet == IF idle.sheet = "PASS" THEN "DETAIL" ELSE idle.sheet
             g == [idle EXCEPT !.wait = "fresh", !.connecting = TRUE, !.busy = TRUE,
                               !.want = want, !.sheet = sheet]
  <2>1. "connect" \notin want /\ want \in SUBSET Wants
    BY <1>2, <1>3 DEF DropPending, SsidEq, Hud, Wants
  <2>2. sheet \in Sheets \ {"NONE", "PASS"}
    BY <1>2, <1>3 DEF Hud, Sheets
  <2>3. JoinSucceeded(idle) = MaybeConfirmJoin(g)
    BY DEF JoinSucceeded
  <2> HIDE DEF want, sheet
  <2>4. g \in Hud
    <3>1. idle \in Hud
      BY <1>2
    <3>2. sheet \in Sheets
      BY <2>2
    <3> QED BY <2>1, <3>1, <3>2 DEF Hud
  <2>5. /\ g.job = idle.job /\ g.forgetting = idle.forgetting /\ g.wait = "fresh"
        /\ g.want = want /\ g.connecting /\ g.sheet = sheet
        /\ g.target = idle.target /\ g.hold = idle.hold /\ g.live = idle.live
    BY <1>2 DEF Hud
  <2> HIDE DEF g
  <2>6. Inv(g)
    BY <1>3, <2>1, <2>2, <2>5
    DEF Inv, SlotInv, QueueInv, ForgetInv, SheetInv, HoldInv, TargetInv
  <2> QED BY <2>3, <2>4, <2>6, MaybeConfirmJoinInv, MaybeConfirmJoinType, InvIsMid
<1>7. CASE act = "RETRY_PSK"
  <2> DEFINE g == [idle EXCEPT !.want = @ \ {"connect"}]
  <2>1. g \in Hud
    <3>1. idle \in Hud
      BY <1>2
    <3> QED BY <3>1 DEF Hud
  <2>2. idle.knownPsk \in PassOrNone
    BY <1>2 DEF Hud
  <2>3. "connect" \notin idle.want
    BY <1>4, <1>7
  <2>4. /\ g.job.kind = "none" /\ ~g.forgetting /\ "connect" \notin g.want
        /\ g.sheet # "NONE"
    BY <1>2, <1>3 DEF Hud
  <2> HIDE DEF g
  <2>5. /\ Inv(WifiConnect(idle, idle.target, idle.knownPsk, up))
        /\ Inv(WifiConnect(g, idle.target, idle.knownPsk, up))
    BY <1>2, <1>3, <2>1, <2>2, <2>3, <2>4, WifiConnectInv
  <2>6. Inv(JoinRetryPsk(idle, up)) /\ JoinRetryPsk(idle, up) \in Hud
    BY <1>2, <2>5, JoinRetryPskType DEF JoinRetryPsk, g
  <2> QED BY <1>5, <1>7, <2>6, InvIsMid
<1>8. ASSUME NEW k \in Hud, "connect" \notin k.want, k.job.kind = "none",
             ~k.connecting, ~k.forgetting, k.wait = "none",
             k.target \notin Enterprise, k.hold # NoSsid => k.live # k.hold
      PROVE  Mid(AskPassword(k))
  BY <1>8 DEF AskPassword, Hud, Mid, SlotInv, ForgetInv, SheetInv, HoldInv, TargetInv,
              JobRunning
<1>9. CASE act = "WRONG_PASS"
  <2> DEFINE k == ForgetPsk(idle, idle.target)
  <2>1. k \in Hud
    BY <1>2, <1>3, PskType DEF PassOrNone
  <2>2. /\ "connect" \notin k.want /\ k.job.kind = "none"
        /\ ~k.connecting /\ ~k.forgetting /\ k.wait = "none"
        /\ k.target \notin Enterprise
        /\ k.hold # NoSsid => k.live # k.hold
    BY <1>2, <1>3, <1>4, <1>9 DEF ForgetPsk, Hud
  <2> HIDE DEF k
  <2>3. Mid(AskPassword(k))
    BY <1>8, <2>1, <2>2
  <2> QED BY <1>5, <1>9, <2>3 DEF k
<1>10. CASE act = "OPEN_PASS"
  BY <1>2, <1>3, <1>4, <1>5, <1>8, <1>10
<1>11. Mid(idle)
  BY <1>2, <1>3 DEF Hud, Mid, SlotInv, ForgetInv, SheetInv, HoldInv, TargetInv, JobRunning
<1>12. Mid(JoinFailed(idle))
  <2> DEFINE sheet == IF idle.sheet = "NONE" THEN idle.sheet
                      ELSE IF idle.usedPass THEN "PASS" ELSE "DETAIL"
  <2>1. sheet # "NONE"
    BY <1>3
  <2>2. JoinFailed(idle) = [idle EXCEPT !.sheet = sheet]
    BY DEF JoinFailed
  <2> HIDE DEF sheet
  <2> DEFINE g == [idle EXCEPT !.sheet = sheet]
  <2>3. /\ g.sheet # "NONE" /\ g.job = idle.job /\ g.want = idle.want
        /\ g.connecting = idle.connecting /\ g.wait = idle.wait
        /\ g.forgetting = idle.forgetting /\ g.target = idle.target
        /\ g.hold = idle.hold /\ g.live = idle.live
        /\ g.pendSsid = idle.pendSsid /\ g.pendPass = idle.pendPass
    BY <1>2, <2>1 DEF Hud
  <2> HIDE DEF g
  <2>4. Mid(g)
    BY <1>3, <2>3 DEF Mid, SlotInv, ForgetInv, SheetInv, HoldInv, TargetInv, JobRunning
  <2> QED BY <2>2, <2>4 DEF g
<1> QED
  BY <1>1, <1>5, <1>6, <1>7, <1>9, <1>10, <1>11, <1>12 DEF ConnectActs

(* The result of a forget: h is the state with the finished job closed.    *)
LEMMA FinishForgetQuiet ==
  ASSUME NEW g \in Hud, Inv(g), g.job.kind = "forget", NEW obs
  PROVE  Quiet(FinishForget(CloseJob(g), obs))
<1> DEFINE h == CloseJob(g)
           gone == IF h.hold # NoSsid THEN h.hold ELSE h.sel
           open == [h EXCEPT !.forgetting = FALSE]
           k == MarkApInactive(open, gone)
<1> USE DEF JoinWait
<1>1. /\ h \in Hud /\ h.job.kind = "none" /\ h.want = {} /\ ~h.connecting
      /\ h.wait = "none" /\ h.sheet = "DETAIL" /\ h.target \notin Enterprise
      /\ h.hold # NoSsid => h.live # h.hold
  BY CloseJobType DEF CloseJob, NoJob, Hud, Inv, ForgetInv, SheetInv, HoldInv, TargetInv
<1> HIDE DEF h
<1> DEFINE Over(l) == /\ l.job.kind = "none" /\ l.want = {} /\ ~l.connecting
                      /\ ~l.forgetting /\ l.wait = "none" /\ l.target \notin Enterprise
                      /\ l.hold # NoSsid => l.live # l.hold
<1>2. open \in Hud /\ Over(open)
  BY <1>1 DEF Hud
<1> HIDE DEF open
<1>3. k \in Hud /\ Over(k)
  <2>1. k \in Hud
    BY <1>2, MarkApInactiveType
  <2> QED BY <1>2, <2>1 DEF MarkApInactive, Hud
<1> HIDE DEF k
<1>4. ClearLive(k) \in Hud /\ Over(ClearLive(k))
  BY <1>3, ClearLiveType DEF ClearLive, Hud
<1>5. ASSUME NEW l \in Hud, Over(l)
      PROVE  Quiet([ForgetPsk(l, l.sel) EXCEPT !.sheet = "LIST",
                                        !.want = @ \union {"info", "scan"}])
  <2>1. ForgetPsk(l, l.sel) \in Hud /\ Over(ForgetPsk(l, l.sel))
    <3>1. l.sel \in SsidsOrNone /\ NoPass \in PassOrNone
      BY DEF Hud, PassOrNone
    <3>2. ForgetPsk(l, l.sel) \in Hud
      BY <3>1, PskType
    <3> QED BY <1>5, <3>2 DEF ForgetPsk, Hud
  <2>2. ASSUME NEW m \in Hud, Over(m)
        PROVE  Quiet([m EXCEPT !.sheet = "LIST", !.want = @ \union {"info", "scan"}])
    BY <2>2 DEF Hud, Quiet, Inv, SlotInv, QueueInv, ForgetInv, SheetInv, HoldInv, TargetInv
  <2> HIDE DEF Over
  <2> QED BY <2>1, <2>2
<1>6. Quiet([h EXCEPT !.forgetting = FALSE, !.sheet = "DETAIL"])
  BY <1>1 DEF Hud, Quiet, Inv, SlotInv, QueueInv, ForgetInv, SheetInv, HoldInv, TargetInv
<1> HIDE DEF Over
<1>7. /\ Quiet([ForgetPsk(k, k.sel) EXCEPT !.sheet = "LIST",
                                        !.want = @ \union {"info", "scan"}])
      /\ Quiet([ForgetPsk(ClearLive(k), ClearLive(k).sel) EXCEPT
                  !.sheet = "LIST", !.want = @ \union {"info", "scan"}])
  BY <1>3, <1>4, <1>5
<1> HIDE DEF Quiet
<1> QED BY <1>6, <1>7 DEF FinishForget, k, open, h
-----------------------------------------------------------------------------
(* The actions.                                                            *)

LEMMA FinishJobMid ==
  ASSUME NEW g \in Hud, Inv(g), JobRunning(g), NEW first \in SsidsOrNone, NEW up
  PROVE  /\ FinishJob(CloseJob(g), g.job, first, up) \in Hud
         /\ Mid(FinishJob(CloseJob(g), g.job, first, up))
<1> DEFINE h == CloseJob(g)
           k == FinishJob(h, g.job, first, up)
<1>1. h \in Hud /\ g.job \in Job /\ g.job.kind \in Kinds /\ g.job.obs \in Obs
  BY CloseJobType DEF JobRunning, Hud, Job
<1>2. k \in Hud
  BY <1>1, FinishJobType DEF JobRunning
<1>3. CASE g.job.kind = "connect"
  <2>1. Quiet(h) /\ h.connecting /\ ~JoinWait(h)
    BY <1>3, CloseJobQuiet DEF CloseJob, Hud, Inv, SlotInv, JoinWait
  <2>2. k = FinishConnect(h, g.job.obs, up)
    BY <1>3 DEF FinishJob
  <2> HIDE DEF h, k
  <2> QED BY <1>1, <1>2, <2>1, <2>2, FinishConnectMid DEF h, k
<1>4. CASE g.job.kind = "forget"
  <2>1. Quiet(k)
    BY <1>4, FinishForgetQuiet DEF FinishJob
  <2> QED BY <1>2, <2>1, InvIsMid DEF Quiet
<1>5. CASE g.job.kind \in {"radio", "info", "scan", "link"}
  <2>1. Quiet(h)
    BY <1>5, CloseJobQuiet
  <2> HIDE DEF h
  <2>2. Quiet(k)
    BY <1>1, <1>5, <2>1, FinishQueryQuiet DEF FinishJob
  <2> QED BY <1>2, <2>2, InvIsMid DEF Quiet, h
<1> QED BY <1>1, <1>2, <1>3, <1>4, <1>5 DEF Kinds

LEMMA LoopInv == TypeOK /\ IndInv /\ Loop => IndInv'
<1> SUFFICES ASSUME TypeOK, IndInv, Loop PROVE IndInv'
  OBVIOUS
<1> USE DEF TypeOK, IndInv
<1>1. CASE PollJob
  <2> PICK up \in LaunchSets, first \in FirstRows(hud) :
         hud' = KickPending(FinishJob(CloseJob(hud), hud.job, first, up), up)
    BY <1>1 DEF PollJob
  <2>1. first \in SsidsOrNone /\ JobRunning(hud)
    BY <1>1, FirstRowsType DEF PollJob
  <2> DEFINE h == FinishJob(CloseJob(hud), hud.job, first, up)
  <2>2. h \in Hud /\ Mid(h)
    BY <2>1, FinishJobMid
  <2> HIDE DEF h
  <2>3. Inv(KickPending(h, up))
    BY <2>2, KickPendingInv
  <2> QED BY <2>3 DEF h
<1>2. CASE ConfirmTick
  BY <1>2, MaybeConfirmJoinInv DEF ConfirmTick
<1>3. CASE KickTick
  BY <1>3, InvIsMid, KickPendingInv DEF KickTick
<1>4. CASE PeriodicScan \/ PeriodicInfo
  <2>1. PICK kind \in {"info", "scan"} : Periodic(kind)
    BY <1>4 DEF PeriodicScan, PeriodicInfo
  <2>2. Quiet(hud)
    BY <2>1 DEF Periodic, JobRunning, Quiet
  <2> QED BY <2>1, <2>2, StartOrQueueInv DEF Periodic
<1> QED BY <1>1, <1>2, <1>3, <1>4 DEF Loop

LEMMA TapsInv == TypeOK /\ IndInv /\ Taps => IndInv'
<1> SUFFICES ASSUME TypeOK, IndInv, Taps PROVE IndInv'
  OBVIOUS
<1> USE DEF TypeOK, IndInv
<1>1. CASE TapHomeCard
  <2> DEFINE g == [hud EXCEPT !.sheet = "LIST"]
  <2>1. g \in Hud
    BY DEF Hud, Sheets
  <2>2. Inv(g) /\ ~g.forgetting
    BY <1>1 DEF TapHomeCard, OnSheet, Hud, Inv, SlotInv, QueueInv, ForgetInv, SheetInv,
                HoldInv, TargetInv, JoinWait
  <2> HIDE DEF g
  <2>3. \A up : Inv(StartOrQueue(g, "scan", up))
    BY <2>1, <2>2, StartOrQueueBusyInv
  <2> QED BY <1>1, <2>2, <2>3 DEF TapHomeCard, g
<1>2. CASE TapRefresh
  <2>1. ~hud.forgetting
    BY <1>2 DEF TapRefresh, OnSheet, Inv, ForgetInv
  <2> QED BY <1>2, <2>1, StartOrQueueBusyInv DEF TapRefresh
<1>3. CASE TapListClose
  BY <1>3 DEF TapListClose, OnSheet, Hud, Inv, SlotInv, QueueInv, ForgetInv, SheetInv,
              HoldInv, TargetInv, JoinWait
<1>4. CASE \E s \in Ssids : TapRow(s)
  <2> PICK s \in Ssids : TapRow(s)
    BY <1>4
  <2> DEFINE sheet == IF hud.connecting \/ hud.forgetting
                      THEN hud.sheet ELSE "DETAIL"
  <2>1. /\ hud.sheet = "LIST" /\ sheet \in {"LIST", "DETAIL"}
        /\ hud' = [hud EXCEPT !.sel = s, !.sheet = sheet]
    BY DEF TapRow, OnSheet
  <2> HIDE DEF sheet
  <2> QED BY <2>1 DEF Hud, Inv, SlotInv, QueueInv, ForgetInv, SheetInv,
                      HoldInv, TargetInv, JoinWait
<1>5. CASE TapDetailBack
  BY <1>5 DEF TapDetailBack, OnSheet, Hud, Inv, SlotInv, QueueInv, ForgetInv, SheetInv,
              HoldInv, TargetInv, JoinWait
<1>6. CASE TapJoin
  <2> DEFINE session == JoinUseSessionPsk(hud.sel, hud.knownSsid, hud.knownPsk)
             pass == IF session THEN hud.knownPsk ELSE NoPass
             g == [hud EXCEPT !.usedPass = session]
  <2>1. session \in BOOLEAN
    BY DEF JoinUseSessionPsk, SsidEq
  <2>2. pass \in PassOrNone /\ hud.sel \in SsidsOrNone
    BY DEF Hud, PassOrNone
  <2> HIDE DEF session, pass
  <2>3. ~hud.connecting /\ ~hud.forgetting
    BY <1>6 DEF TapJoin, AllowJoin
  <2>4. /\ g \in Hud /\ g.job.kind \notin {"connect", "forget"} /\ ~g.forgetting
        /\ "connect" \notin g.want /\ g.sheet # "NONE"
    BY <1>6, <2>1, <2>3 DEF TapJoin, OnSheet, Hud, Inv, SlotInv, QueueInv, ForgetInv
  <2>5. hud.sel # NoSsid /\ hud.sel \notin Enterprise
    BY <1>6, <2>3 DEF TapJoin, PickedSsid
  <2> HIDE DEF g
  <2>6. \A up : Inv(WifiConnect(g, hud.sel, pass, up))
    BY <2>2, <2>4, <2>5, WifiConnectInv
  <2> QED BY <1>6, <2>6 DEF TapJoin, g, pass, session
<1>7. CASE TapForget
  <2> DEFINE g == [hud EXCEPT !.wait = "none", !.connecting = FALSE, !.busy = FALSE,
                              !.want = {}, !.forgetting = TRUE]
             f == HoldForgotten(g, g.sel)
             m == AbortJob(f)
             Held(l) == /\ l.sheet = "DETAIL" /\ ~l.connecting /\ l.want = {}
                        /\ l.wait = "none" /\ l.forgetting /\ l.hold = l.sel
                        /\ l.sel \in SsidsOrNone /\ l.live # l.hold
                        /\ l.target \notin Enterprise
  <2>1. /\ g \in Hud /\ g.sel # NoSsid /\ g.sel \in SsidsOrNone
        /\ g.sheet = "DETAIL" /\ ~g.connecting /\ g.want = {}
        /\ g.wait = "none" /\ g.forgetting /\ g.target \notin Enterprise
    BY <1>7 DEF TapForget, OnSheet, Hud, Inv, TargetInv
  <2> HIDE DEF g
  <2>2. f \in Hud /\ Held(f)
    <3>1. f \in Hud
      BY <2>1, HoldForgottenType
    <3> QED
      BY <2>1, <3>1 DEF HoldForgotten, MarkApInactive, ClearLive, SsidEq, Hud
  <2> HIDE DEF f
  <2>3. m \in Hud /\ Held(m) /\ m.job.kind = "none"
    <3>1. m \in Hud
      BY <2>2, CloseJobType DEF AbortJob
    <3> QED BY <2>2, <3>1 DEF AbortJob, CloseJob, NoJob, Hud
  <2> HIDE DEF m
  <2>4. Inv([m EXCEPT !.forgetting = FALSE])
    BY <2>3 DEF Hud, Inv, SlotInv, QueueInv, ForgetInv, SheetInv, HoldInv, TargetInv,
                JoinWait
  <2>5. \A up : CanStart(m, "forget", up) =>
                  Inv(StartNmcli(m, "forget", m.sel, NoPass, up))
    <3> DEFINE job == [NoJob EXCEPT !.kind = "forget", !.ssid = m.sel, !.pass = NoPass]
    <3>1. job.kind = "forget" /\ job.ssid = m.sel
      BY DEF NoJob
    <3>2. Inv([m EXCEPT !.job = job])
      <4> HIDE DEF job
      <4> QED BY <2>3, <3>1 DEF Hud, Inv, SlotInv, QueueInv, ForgetInv, SheetInv, HoldInv,
                                TargetInv, JoinWait
    <3> QED BY <3>2 DEF StartNmcli
  <2> HIDE DEF Held
  <2> QED BY <1>7, <2>4, <2>5 DEF TapForget, g, f, m
<1>8. CASE \E p \in PassOrNone : TypePassword(p)
  BY <1>8 DEF TypePassword, OnSheet, Hud, Inv, SlotInv, QueueInv, ForgetInv, SheetInv,
              HoldInv, TargetInv, JoinWait
<1>9. CASE TapCancel
  <2> DEFINE sheet == IF hud.sel # NoSsid THEN "DETAIL" ELSE "LIST"
  <2>1. /\ hud.sheet = "PASS" /\ sheet \in {"LIST", "DETAIL"}
        /\ hud' = [hud EXCEPT !.sheet = sheet]
    BY <1>9 DEF TapCancel, OnSheet
  <2> HIDE DEF sheet
  <2> QED BY <2>1 DEF Hud, Inv, SlotInv, QueueInv, ForgetInv, SheetInv,
                      HoldInv, TargetInv, JoinWait
<1>10. CASE TapSubmit
  <2> DEFINE ssid == PassSsid(hud.target, hud.sel)
             u == [hud EXCEPT !.usedPass = TRUE]
             g == RememberPsk(u, ssid, hud.typed)
  <2>1. /\ ssid \in SsidsOrNone /\ ssid # NoSsid /\ hud.typed \in PassOrNone
        /\ hud.typed # NoPass /\ hud.sheet = "PASS"
        /\ hud.connecting => ssid = hud.target
        /\ ~hud.connecting => hud.sel \notin Enterprise
    BY <1>10 DEF TapSubmit, OnSheet, PassSsid, PickedSsid, Hud, Inv, TargetInv
  <2>2. ssid \notin Enterprise
    BY <1>10, <2>1 DEF PassSsid, Inv, TargetInv
  <2> HIDE DEF ssid
  <2>3. u \in Hud /\ g \in Hud
    <3>1. u \in Hud
      BY DEF Hud
    <3> HIDE DEF u
    <3> QED BY <2>1, <3>1, PskType
  <2>4. /\ g.job = hud.job /\ g.connecting = hud.connecting /\ g.wait = hud.wait
        /\ g.want = hud.want /\ g.forgetting = hud.forgetting /\ g.sheet = "PASS"
        /\ g.target = hud.target /\ g.hold = hud.hold /\ g.live = hud.live
        /\ g.sel = hud.sel
    BY <2>1 DEF RememberPsk, Hud
  <2> HIDE DEF g
  <2>5. CASE hud.connecting
    <3> DEFINE q == [g EXCEPT !.pendSsid = ssid, !.pendPass = hud.typed,
                              !.want = @ \union {"connect"}]
    <3>1. hud' = q
      BY <1>10, <2>5 DEF TapSubmit, g, ssid
    <3>2. /\ q.job = hud.job /\ q.connecting /\ q.wait = hud.wait
          /\ q.want = hud.want \union {"connect"} /\ q.forgetting = hud.forgetting
          /\ q.sheet = "PASS" /\ q.target = hud.target /\ q.hold = hud.hold
          /\ q.live = hud.live /\ q.pendSsid = ssid /\ q.pendPass = hud.typed
      BY <2>3, <2>4, <2>5 DEF Hud
    <3> HIDE DEF q
    <3>3. Inv(q)
      BY <2>1, <2>5, <3>2
      DEF Inv, SlotInv, QueueInv, ForgetInv, SheetInv, HoldInv, TargetInv, JoinWait
    <3> QED BY <3>1, <3>3
  <2>6. CASE ~hud.connecting
    <3>1. PICK up : hud' = WifiConnect(g, ssid, hud.typed, up)
      BY <1>10, <2>6 DEF TapSubmit, g, ssid
    <3>2. /\ g.job.kind \notin {"connect", "forget"} /\ ~g.forgetting
          /\ "connect" \notin g.want
      BY <2>1, <2>4, <2>6 DEF Inv, SlotInv, QueueInv, ForgetInv
    <3>3. Inv(WifiConnect(g, ssid, hud.typed, up))
      BY <2>1, <2>2, <2>3, <2>4, <3>2, WifiConnectInv
    <3> QED BY <3>1, <3>3
  <2> QED BY <2>5, <2>6
<1> QED BY <1>1, <1>2, <1>3, <1>4, <1>5, <1>6, <1>7, <1>8, <1>9, <1>10 DEF Taps

LEMMA OutsideInv == TypeOK /\ IndInv /\ Outside => IndInv'
<1> SUFFICES ASSUME TypeOK, IndInv, Outside PROVE IndInv'
  OBVIOUS
<1> USE DEF TypeOK, IndInv
<1>1. CASE RadioStep
  BY <1>1 DEF RadioStep
<1>2. CASE JobExit
  <2>1. PICK obs : Exit(obs)
    BY <1>2 DEF JobExit, RadioExit, InfoExit, InfoError, ScanExit, LinkExit, QueryExit,
                ConnectExit, ForgetExit
  <2> DEFINE job == [hud.job EXCEPT !.exited = TRUE, !.obs = obs]
  <2>2. job.kind = hud.job.kind /\ job.ssid = hud.job.ssid
    BY DEF Hud, Job
  <2>3. hud' = [hud EXCEPT !.job = job]
    BY <2>1 DEF Exit
  <2> HIDE DEF job
  <2> QED BY <2>2, <2>3 DEF Hud, Inv, SlotInv, QueueInv, ForgetInv, SheetInv,
                            HoldInv, TargetInv, JoinWait
<1>3. CASE JoinOverdue
  BY <1>3 DEF JoinOverdue, Hud, Inv, SlotInv, QueueInv, ForgetInv, SheetInv,
              HoldInv, TargetInv, JoinWait
<1> QED BY <1>1, <1>2, <1>3 DEF Outside

LEMMA InitInv == Init => IndInv
<1> SUFFICES ASSUME Init PROVE IndInv
  OBVIOUS
<1> DEFINE h == [job |-> NoJob, want |-> {}, pendSsid |-> NoSsid, pendPass |-> NoPass,
                 connecting |-> FALSE, wait |-> "none",
                 target |-> NoSsid, usedPass |-> FALSE,
                 knownSsid |-> NoSsid, knownPsk |-> NoPass,
                 forgetting |-> FALSE, hold |-> NoSsid,
                 connected |-> FALSE, busy |-> FALSE, live |-> NoSsid,
                 seen |-> {}, active |-> NoSsid,
                 sheet |-> "NONE", sel |-> NoSsid, typed |-> NoPass,
                 screenOff |-> FALSE]
           job == [NoJob EXCEPT !.kind = "radio", !.ssid = NoSsid, !.pass = NoPass]
<1> USE DEF Inv, SlotInv, QueueInv, ForgetInv, SheetInv, HoldInv, TargetInv, JoinWait
<1>1. NoSsid \notin Enterprise
  BY WifiAssumption
<1>2. Inv([h EXCEPT !.want = {"info"}])
  BY <1>1 DEF NoJob
<1>3. job.kind = "radio"
  BY DEF NoJob
<1>4. Inv([h EXCEPT !.job = job])
  <2> HIDE DEF job
  <2> QED BY <1>1, <1>3
<1>5. Inv(h)
  BY <1>1 DEF NoJob
<1> HIDE DEF Inv
<1> QED BY <1>2, <1>4, <1>5 DEF Init, IndInv, StartNmcli

LEMMA NextInv == TypeOK /\ IndInv /\ [Next]_vars => IndInv'
<1> SUFFICES ASSUME TypeOK, IndInv, [Next]_vars PROVE IndInv'
  OBVIOUS
<1>1. CASE PowerKey \/ IdleOff
  BY <1>1 DEF PowerKey, IdleOff, TypeOK, IndInv, Hud, Inv, SlotInv, QueueInv, ForgetInv,
              SheetInv, HoldInv, TargetInv, JoinWait
<1>2. CASE UNCHANGED vars
  BY <1>2 DEF vars, IndInv
<1> QED BY <1>1, <1>2, LoopInv, TapsInv, OutsideInv DEF Next

(* The inductive invariant holds in every state between two handlers.      *)
THEOREM Invariance == Spec => []IndInv
BY InitInv, NextInv, TypeCorrect, PTL DEF Spec

(* A running join script is the one for connect_ssid, before its           *)
(* confirmation (poll_job reads connect_ssid, not the job's argument).     *)
THEOREM JobServes == Spec => []JobServesTarget
<1>1. IndInv => JobServesTarget
  BY DEF IndInv, Inv, JobServesTarget, SlotInv, TargetInv
<1> QED BY <1>1, Invariance, PTL

(* A queued join is for the network that is being joined (wifi_submit_pass *)
(* and kick_pending).                                                      *)
THEOREM QueuedForTarget == Spec => []QueuedJoinIsForTarget
<1>1. IndInv => QueuedJoinIsForTarget
  BY DEF IndInv, Inv, QueuedJoinIsForTarget, QueueInv
<1> QED BY <1>1, Invariance, PTL

(* The forget spinner turns exactly while the forget script runs.          *)
THEOREM ForgetShown == Spec => []ForgetSpinner
<1>1. IndInv => ForgetSpinner
  BY DEF IndInv, Inv, ForgetSpinner, ForgetInv
<1> QED BY <1>1, Invariance, PTL

(* A sheet is open until the join has ended, and asks for no password      *)
(* while the join is being confirmed (tap, maybe_confirm_join).            *)
THEOREM SheetStaysOpen == Spec => []SheetOpenWhileJoining
<1>1. IndInv => SheetOpenWhileJoining
  BY DEF IndInv, Inv, SheetOpenWhileJoining, SheetInv
<1> QED BY <1>1, Invariance, PTL

(* The live name is never the one that was just forgotten (apply_wifi_ssid *)
(* drops the late answers that say so).                                    *)
THEOREM ForgottenHidden == Spec => []ForgottenIsNotLive
<1>1. IndInv => ForgottenIsNotLive
  BY DEF IndInv, Inv, ForgottenIsNotLive, HoldInv
<1> QED BY <1>1, Invariance, PTL

(* No join script is started for an 802.1X network (wifi_connect and       *)
(* wifi_submit_pass look at the security that picked_sec returns).         *)
THEOREM EnterpriseRefused == Spec => []EnterpriseNeverTried
<1>1. IndInv => EnterpriseNeverTried
  BY DEF IndInv, Inv, EnterpriseNeverTried, TargetInv, SlotInv
<1> QED BY <1>1, Invariance, PTL
-----------------------------------------------------------------------------
(* What the operators leave alone, and what they end with.                 *)

(* The fields that a query and its start leave alone.                      *)
SameJoin(h, r) ==
  /\ r.wait = h.wait /\ r.connecting = h.connecting /\ r.target = h.target
  /\ r.connected = h.connected /\ r.live = h.live
  /\ r.hold = h.hold /\ r.sheet = h.sheet

LEMMA WifiConnectKeeps ==
  ASSUME NEW h \in Hud, NEW ssid \in SsidsOrNone, NEW pass \in PassOrNone, NEW up
  PROVE  LET r == WifiConnect(h, ssid, pass, up)
         IN  /\ r.wait = "none" /\ r.connecting /\ r.target = ssid
             /\ r.connected = h.connected /\ r.live = h.live /\ r.sheet = h.sheet
             /\ "connect" \in up => r.job.kind = "connect"
             /\ h.job.kind # "connect" => ~r.job.exited
<1> DEFINE g == [h EXCEPT !.hold = NoSsid, !.connecting = TRUE, !.wait = "none",
                          !.busy = TRUE, !.target = ssid]
           k == IF g.job.kind # "connect" THEN AbortJob(g) ELSE g
           job == [NoJob EXCEPT !.kind = "connect", !.ssid = ssid, !.pass = pass]
           Join(r) == /\ r.wait = "none" /\ r.connecting /\ r.target = ssid
                      /\ r.connected = h.connected /\ r.live = h.live /\ r.sheet = h.sheet
<1>1. g \in Hud /\ g.job = h.job /\ Join(g)
  <2>1. g \in Hud
    BY DEF Hud, SsidsOrNone
  <2>2. g.job = h.job
    BY DEF Hud
  <2>3. Join(g)
    BY DEF Hud
  <2> QED BY <2>1, <2>2, <2>3
<1>2. k \in Hud
  <2> HIDE DEF g
  <2>1. CloseJob(g) \in Hud
    BY <1>1, CloseJobType
  <2> QED BY <1>1, <2>1 DEF AbortJob
<1>3. /\ Join(k)
      /\ h.job.kind # "connect" => k.job.kind = "none" /\ ~k.job.exited
      /\ h.job.kind = "connect" => k.job.kind = "connect"
  <2> HIDE DEF g
  <2>1. CASE h.job.kind = "connect"
    BY <1>1, <2>1
  <2>2. CASE h.job.kind # "connect"
    <3>1. k = [g EXCEPT !.job = NoJob]
      BY <1>1, <2>2 DEF AbortJob, CloseJob
    <3>2. NoJob.kind = "none" /\ ~NoJob.exited
      BY DEF NoJob
    <3> QED BY <1>1, <2>2, <3>1, <3>2 DEF Hud
  <2> QED BY <2>1, <2>2
<1>4. job.kind = "connect" /\ ~job.exited
  BY DEF NoJob
<1> DEFINE s == [k EXCEPT !.job = job]
           q == [k EXCEPT !.pendSsid = ssid, !.pendPass = pass, !.want = @ \union {"connect"}]
<1>5. WifiConnect(h, ssid, pass, up) \in {k, q} \/ WifiConnect(h, ssid, pass, up) = s
  BY DEF WifiConnect, StartNmcli
<1>6. /\ ~JobRunning(k) /\ "connect" \in up => WifiConnect(h, ssid, pass, up) = s
      /\ ~JobRunning(k) => WifiConnect(h, ssid, pass, up) \in {k, s}
  BY DEF WifiConnect, StartNmcli, CanStart
<1> HIDE DEF g, k, job
<1>7. Join(s) /\ s.job = job /\ Join(q) /\ q.job = k.job
  BY <1>2, <1>3 DEF Hud
<1> HIDE DEF s, q
<1>8. CASE h.job.kind = "connect"
  <2>1. k.job.kind = "connect"
    BY <1>3, <1>8
  <2> QED BY <1>3, <1>4, <1>5, <1>7, <1>8, <2>1
<1>9. CASE h.job.kind # "connect"
  <2>1. ~JobRunning(k)
    BY <1>3, <1>9 DEF JobRunning
  <2> QED BY <1>3, <1>4, <1>6, <1>7, <1>9, <2>1
<1> QED BY <1>8, <1>9

LEMMA StartOrQueueKeeps ==
  ASSUME NEW h \in Hud, NEW kind \in {"info", "scan", "link"}, NEW up
  PROVE  LET r == StartOrQueue(h, kind, up)
         IN  /\ SameJoin(h, r) /\ r.screenOff = h.screenOff
             /\ \/ r.job = h.job /\ r.want = h.want \union {kind}
                \/ ~JobRunning(h) /\ r.job.kind = kind /\ ~r.job.exited /\ r.want = h.want
             /\ ~JobRunning(h) /\ kind \in up => r.job.kind = kind
<1> DEFINE job == [NoJob EXCEPT !.kind = kind, !.ssid = NoSsid, !.pass = NoPass]
           s == [h EXCEPT !.job = job]
           q == [h EXCEPT !.want = @ \union {kind}]
<1>1. job.kind = kind /\ ~job.exited
  BY DEF NoJob
<1>2. StartOrQueue(h, kind, up) = IF CanStart(h, kind, up) THEN s ELSE q
  BY DEF StartOrQueue, StartNmcli
<1> HIDE DEF job
<1>3. SameJoin(h, s) /\ s.screenOff = h.screenOff /\ s.job = job /\ s.want = h.want
  BY DEF SameJoin, Hud
<1>4. SameJoin(h, q) /\ q.screenOff = h.screenOff /\ q.job = h.job /\ q.want = h.want \union {kind}
  BY DEF SameJoin, Hud
<1> HIDE DEF s, q
<1> QED BY <1>1, <1>2, <1>3, <1>4 DEF CanStart

(* While a join is confirmed, a query runs or is queued.                   *)
PollInv(h) ==
  JoinWait(h) => \/ h.job.kind \in {"info", "link"}
                 \/ "info" \in h.want \/ "link" \in h.want

(* kick_pending: with no join queued it only starts a query.               *)
LEMMA KickPendingKeeps ==
  ASSUME NEW h \in Hud, NEW up, JobRunning(h) \/ "connect" \notin h.want
  PROVE  LET r == KickPending(h, up)
         IN  /\ SameJoin(h, r)
             /\ r.job = h.job \/ (r.job.kind \in {"info", "scan", "link"} /\ ~r.job.exited)
             /\ JobRunning(h) => r = h
             /\ "connect" \notin h.want => "connect" \notin r.want
             /\ PollInv(h) => PollInv(r)
<1> DEFINE r == KickPending(h, up)
           without(w) == [h EXCEPT !.want = @ \ {w}]
<1>1. SameJoin(h, h)
  BY DEF SameJoin
<1>2. CASE r = h
  BY <1>1, <1>2
<1>3. ASSUME NEW w \in {"info", "scan", "link"}, ~JobRunning(h), "connect" \notin h.want,
             w \in h.want, r = StartOrQueue(without(w), w, up)
      PROVE  /\ SameJoin(h, r)
             /\ r.job = h.job \/ (r.job.kind \in {"info", "scan", "link"} /\ ~r.job.exited)
             /\ "connect" \notin h.want => "connect" \notin r.want
             /\ PollInv(h) => PollInv(r)
  <2> DEFINE g == without(w)
  <2>1. /\ g \in Hud /\ g.want = h.want \ {w} /\ g.job = h.job
        /\ SameJoin(h, g)
    BY DEF Hud, Wants, SameJoin
  <2>2. r = StartOrQueue(g, w, up)
    BY <1>3
  <2> HIDE DEF g, r
  <2>3. /\ SameJoin(g, r)
        /\ \/ r.job = h.job /\ r.want = g.want \union {w}
           \/ r.job.kind = w /\ ~r.job.exited /\ r.want = g.want
    BY <2>1, <2>2, StartOrQueueKeeps
  <2>4. SameJoin(h, r)
    BY <2>1, <2>3 DEF SameJoin
  <2>5. PollInv(h) => PollInv(r)
    BY <1>3, <2>1, <2>3, <2>4 DEF PollInv, JoinWait, SameJoin, JobRunning
  <2> QED BY <1>3, <2>1, <2>3, <2>4, <2>5
<1>4. CASE JobRunning(h)
  BY <1>2, <1>4 DEF KickPending
<1>5. CASE ~JobRunning(h) /\ "connect" \notin h.want
  <2>1. \/ r = h
        \/ "scan" \in h.want /\ r = StartOrQueue(without("scan"), "scan", up)
        \/ "link" \in h.want /\ r = StartOrQueue(without("link"), "link", up)
        \/ "info" \in h.want /\ r = StartOrQueue(without("info"), "info", up)
    BY <1>5 DEF KickPending
  <2> HIDE DEF without
  <2> QED BY <1>2, <1>3, <1>5, <2>1
<1> QED BY <1>4, <1>5

(* kick_pending with a queued join starts it.                              *)
LEMMA KickPendingJoins ==
  ASSUME NEW h \in Hud, NEW up, ~JobRunning(h), "connect" \in h.want
  PROVE  LET r == KickPending(h, up)
         IN  /\ r.wait = "none" /\ r.connecting /\ r.target = h.pendSsid
             /\ r.connected = h.connected /\ r.live = h.live /\ r.sheet = h.sheet
             /\ "connect" \in up => r.job.kind = "connect"
             /\ ~r.job.exited
<1> DEFINE g == [h EXCEPT !.want = @ \ {"connect"}]
<1>1. /\ g \in Hud /\ g.job = h.job /\ g.connected = h.connected /\ g.live = h.live
      /\ g.sheet = h.sheet
  BY DEF Hud
<1>2. h.pendSsid \in SsidsOrNone /\ h.pendPass \in PassOrNone
  BY DEF Hud
<1>3. KickPending(h, up) = WifiConnect(g, h.pendSsid, h.pendPass, up)
  BY DEF KickPending
<1> HIDE DEF g
<1> QED BY <1>1, <1>2, <1>3, WifiConnectKeeps DEF JobRunning

(* maybe_confirm_join: nothing happens, or the join is over.               *)
LEMMA MaybeConfirmJoinKeeps ==
  ASSUME NEW h \in Hud
  PROVE  LET r == MaybeConfirmJoin(h)
         IN  /\ r = h \/ (JoinWait(h) /\ ~JoinWait(r) /\ ~r.connecting)
             /\ r.job = h.job /\ r.target = h.target /\ r.connected = h.connected
             /\ r.live = h.live /\ r.hold = h.hold
             /\ r.want = h.want \/ r.want = h.want \union {"scan"}
<1> DEFINE m == MarkApActive(h, h.target)
           ok == [m EXCEPT !.wait = "none", !.connecting = FALSE, !.busy = FALSE,
                           !.sheet = "NONE", !.want = @ \union {"scan"}]
           fail == [h EXCEPT !.wait = "none", !.connecting = FALSE, !.busy = FALSE,
                             !.sheet = IF @ = "NONE" THEN "DETAIL" ELSE @]
           Over(r) == /\ r.wait = "none" /\ ~r.connecting
                      /\ r.job = h.job /\ r.target = h.target /\ r.connected = h.connected
                      /\ r.live = h.live /\ r.hold = h.hold
                      /\ r.want = h.want \/ r.want = h.want \union {"scan"}
<1>1. MaybeConfirmJoin(h) = h \/ (JoinWait(h) /\ MaybeConfirmJoin(h) \in {ok, fail})
  BY DEF MaybeConfirmJoin
<1>2. /\ m \in Hud /\ m.job = h.job /\ m.target = h.target /\ m.connected = h.connected
      /\ m.live = h.live /\ m.hold = h.hold /\ m.want = h.want
  <2>1. m \in Hud
    BY MarkApActiveType DEF Hud
  <2> QED BY <2>1 DEF MarkApActive, Hud
<1> HIDE DEF m
<1>3. Over(ok)
  BY <1>2 DEF Hud
<1>4. Over(fail)
  BY DEF Hud
<1> HIDE DEF ok, fail
<1> QED BY <1>1, <1>3, <1>4 DEF JoinWait

(* The queries: their results change neither the join that runs nor, but   *)
(* by a confirmation, its wait.                                            *)
LEMMA ApplyWifiSsidKeeps ==
  ASSUME NEW h \in Hud, NEW ssid \in SsidsOrNone
  PROVE  LET r == ApplyWifiSsid(h, ssid)
         IN  /\ r.wait = h.wait /\ r.connecting = h.connecting /\ r.target = h.target
             /\ r.job = h.job /\ r.want = h.want
<1>1. \A r \in {h, [h EXCEPT !.hold = NoSsid], [h EXCEPT !.hold = NoSsid, !.live = ssid]} :
        /\ r.wait = h.wait /\ r.connecting = h.connecting /\ r.target = h.target
        /\ r.job = h.job /\ r.want = h.want
  BY DEF Hud
<1> QED BY <1>1 DEF ApplyWifiSsid

LEMMA ParseInfoKeeps ==
  ASSUME NEW h \in Hud, NEW nm
  PROVE  LET r == ParseInfo(h, nm)
         IN  /\ r.wait = h.wait /\ r.connecting = h.connecting /\ r.target = h.target
             /\ r.job = h.job /\ r.want = h.want
             /\ r.live \in {h.live, NoSsid}
             /\ nm # "down" => r.hold = h.hold
<1> DEFINE g == [h EXCEPT !.connected = (nm = "up"), !.busy = (nm = "busy")]
           c == [ClearLive(g) EXCEPT !.busy = FALSE]
           d == [g EXCEPT !.hold = NoSsid]
           Same(r) == /\ r.wait = h.wait /\ r.connecting = h.connecting /\ r.target = h.target
                      /\ r.job = h.job /\ r.want = h.want /\ r.live \in {h.live, NoSsid}
<1>1. g \in Hud /\ Same(g) /\ g.hold = h.hold
  BY DEF Hud
<1>2. ParseInfo(h, nm) \in {h, g, c} \/ (nm = "down" /\ ParseInfo(h, nm) = d)
  BY DEF ParseInfo
<1> HIDE DEF g
<1>3. Same(c) /\ c.hold = h.hold
  BY <1>1 DEF ClearLive, Hud
<1>4. Same(d)
  BY <1>1 DEF Hud
<1> HIDE DEF c, d
<1> QED BY <1>1, <1>2, <1>3, <1>4

LEMMA ParseScanKeeps ==
  ASSUME NEW h \in Hud, NEW list \in SUBSET Ssids, NEW ap, NEW first \in SsidsOrNone
  PROVE  LET r == ParseScan(h, list, ap, first)
         IN  /\ r.wait = h.wait /\ r.connecting = h.connecting /\ r.target = h.target
             /\ r.job = h.job /\ r.want = h.want
             /\ first = NoSsid => r.hold = h.hold /\ r.live = h.live
<1> DEFINE act == IF ap \in list /\ ap # h.hold THEN ap ELSE NoSsid
           g == [h EXCEPT !.seen = list, !.active = act]
<1>1. act \in SsidsOrNone
  BY DEF SsidsOrNone
<1>2. /\ g \in Hud /\ g.wait = h.wait /\ g.connecting = h.connecting /\ g.target = h.target
      /\ g.job = h.job /\ g.want = h.want /\ g.hold = h.hold /\ g.live = h.live
  <2> HIDE DEF act
  <2> QED BY <1>1 DEF Hud
<1>3. ParseScan(h, list, ap, first) \in {g, ApplyWifiSsid(g, first)}
  BY DEF ParseScan
<1>4. first = NoSsid => ApplyWifiSsid(g, first) = g
  BY DEF ApplyWifiSsid
<1> HIDE DEF g
<1> QED BY <1>2, <1>3, <1>4, ApplyWifiSsidKeeps

LEMMA FinishQueryKeeps ==
  ASSUME NEW h \in Hud, NEW obs \in Obs, NEW first \in SsidsOrNone,
         NEW r \in {FinishInfo(h, obs), FinishScan(h, obs, first), FinishLink(h, obs),
                    FinishRadio(h)}
  PROVE  /\ r.job = h.job /\ r.target = h.target
         /\ "connect" \notin h.want => "connect" \notin r.want
         /\ ~JoinWait(h) => r.connecting = h.connecting /\ ~JoinWait(r)
         /\ JoinWait(h) /\ h.connecting => (JoinWait(r) <=> r.connecting)
<1> obs.list \in SUBSET Ssids /\ obs.ap \in SsidsOrNone
  BY DEF Obs
<1> DEFINE Same(k) == /\ k.wait = h.wait /\ k.connecting = h.connecting /\ k.target = h.target
                      /\ k.job = h.job /\ (k.want = h.want \/ \E w \in Wants \ {"connect"} :
                                                                k.want = h.want \union {w})
           Good(k) == /\ k.job = h.job /\ k.target = h.target
                      /\ "connect" \notin h.want => "connect" \notin k.want
                      /\ ~JoinWait(h) => k.connecting = h.connecting /\ ~JoinWait(k)
                      /\ JoinWait(h) /\ h.connecting => (JoinWait(k) <=> k.connecting)
<1>1. ASSUME NEW k \in Hud, Same(k)
      PROVE  Good(MaybeConfirmJoin(k))
  BY <1>1, MaybeConfirmJoinKeeps DEF JoinWait
<1>2. Good(FinishInfo(h, obs))
  <2> DEFINE g == ParseInfo(h, obs.nm)
             l == [g EXCEPT !.want = @ \union {"link"}]
  <2>1. g \in Hud /\ Same(g)
    BY ParseInfoType, ParseInfoKeeps
  <2> HIDE DEF g
  <2>2. l \in Hud /\ Same(l)
    BY <2>1, ParseInfoKeeps DEF Hud, Wants, g
  <2> HIDE DEF l
  <2>3. Good(MaybeConfirmJoin(g)) /\ Good(MaybeConfirmJoin(l))
    BY <1>1, <2>1, <2>2
  <2> QED BY <2>3 DEF FinishInfo, g, l
<1>3. Good(FinishScan(h, obs, first))
  <2> DEFINE g == ParseScan(h, obs.list, obs.ap, first)
  <2>1. g \in Hud /\ Same(g)
    BY ParseScanType, ParseScanKeeps
  <2> HIDE DEF g
  <2> QED BY <1>1, <2>1 DEF FinishScan, g
<1>4. Good(FinishLink(h, obs))
  <2> DEFINE f == ApplyWifiSsid(h, obs.ap)
             g == MaybeConfirmJoin(f)
  <2>1. f \in Hud /\ Same(f)
    BY ApplyWifiSsidType, ApplyWifiSsidKeeps
  <2> HIDE DEF f
  <2>2. g \in Hud /\ Good(g)
    BY <1>1, <2>1, MaybeConfirmJoinType
  <2> HIDE DEF g
  <2>3. Good([g EXCEPT !.want = @ \union {"info"}])
    BY <2>2 DEF Hud, JoinWait
  <2> HIDE DEF Good
  <2> QED BY <2>2, <2>3 DEF FinishLink, g, f
<1>5. Good(FinishRadio(h))
  BY DEF FinishRadio, Hud, JoinWait
<1> QED BY <1>2, <1>3, <1>4, <1>5

(* The answers of the queries keep the confirmation asking.                *)
LEMMA FinishQueryPolls ==
  ASSUME NEW h \in Hud, NEW obs \in Obs, NEW first \in SsidsOrNone
  PROVE  /\ PollInv(FinishInfo(h, obs))
         /\ PollInv(h) => PollInv(FinishScan(h, obs, first))
         /\ PollInv(FinishLink(h, obs))
         /\ PollInv(FinishRadio(h))
<1> obs.list \in SUBSET Ssids /\ obs.ap \in SsidsOrNone
  BY DEF Obs
<1>1. ASSUME NEW k \in Hud, PollInv(k)
      PROVE  PollInv(MaybeConfirmJoin(k))
  BY <1>1, MaybeConfirmJoinKeeps DEF PollInv
<1>2. PollInv(FinishInfo(h, obs))
  <2> DEFINE g == ParseInfo(h, obs.nm)
             l == [g EXCEPT !.want = @ \union {"link"}]
  <2>1. g \in Hud
    BY ParseInfoType
  <2> HIDE DEF g
  <2>2. l \in Hud /\ PollInv(l)
    BY <2>1 DEF Hud, Wants, PollInv
  <2>3. ~JoinWait(g) => PollInv(g)
    BY DEF PollInv
  <2> HIDE DEF l
  <2>4. PollInv(MaybeConfirmJoin(l)) /\ (~JoinWait(g) => PollInv(MaybeConfirmJoin(g)))
    BY <1>1, <2>1, <2>2, <2>3
  <2> QED BY <2>4 DEF FinishInfo, g, l
<1>3. PollInv(h) => PollInv(FinishScan(h, obs, first))
  <2> SUFFICES ASSUME PollInv(h) PROVE PollInv(FinishScan(h, obs, first))
    OBVIOUS
  <2> DEFINE g == ParseScan(h, obs.list, obs.ap, first)
  <2>1. g \in Hud /\ PollInv(g)
    BY ParseScanType, ParseScanKeeps DEF PollInv, JoinWait
  <2> HIDE DEF g
  <2> QED BY <1>1, <2>1 DEF FinishScan, g
<1>4. PollInv(FinishLink(h, obs))
  <2> DEFINE g == MaybeConfirmJoin(ApplyWifiSsid(h, obs.ap))
  <2>1. g \in Hud
    BY ApplyWifiSsidType, MaybeConfirmJoinType
  <2> HIDE DEF g
  <2>2. PollInv([g EXCEPT !.want = @ \union {"info"}])
    BY <2>1 DEF Hud, PollInv
  <2> QED BY <2>2 DEF FinishLink, PollInv, g
<1>5. PollInv(FinishRadio(h))
  BY DEF FinishRadio, Hud, PollInv
<1> QED BY <1>2, <1>3, <1>4, <1>5
-----------------------------------------------------------------------------
(* The results of a join and of a forget.                                  *)

(* The job that is polled says that the join succeeded.                    *)
Succeeds(h, obs) ==
  JobOk(obs.rc, obs.says) \/ AlreadyOn(h.connected, h.live, h.target)

LEMMA SuccessAct ==
  ASSUME NEW h \in Hud, NEW obs, OnConnectJob(ConnectIn(h, obs)) = "SUCCESS"
  PROVE  Succeeds(h, obs)
<1> DEFINE in == ConnectIn(h, obs)
<1>1. /\ in.rc = obs.rc /\ in.says = obs.says /\ in.connected = h.connected
      /\ in.live = h.live /\ in.target = h.target
  BY DEF ConnectIn
<1> HIDE DEF in
<1>2. JobOk(in.rc, in.says) \/ AlreadyOn(in.connected, in.live, in.target)
  BY DEF OnConnectJob, in
<1> QED BY <1>1, <1>2 DEF Succeeds

LEMMA JoinSucceededKeeps ==
  ASSUME NEW h \in Hud
  PROVE  LET r == JoinSucceeded(h)
         IN  /\ r.job = h.job /\ r.target = h.target
             /\ r.connected = h.connected /\ r.live = h.live
             /\ JoinWait(r) <=> r.connecting
             /\ "info" \in r.want
<1> DEFINE dropped == IF DropPending(TRUE, h.target, h.pendSsid)
                      THEN {"connect"} ELSE {}
           want == (h.want \ dropped) \union {"info", "link"}
           sheet == IF h.sheet = "PASS" THEN "DETAIL" ELSE h.sheet
           g == [h EXCEPT !.wait = "fresh", !.connecting = TRUE, !.busy = TRUE,
                          !.want = want, !.sheet = sheet]
<1>1. want \in SUBSET Wants /\ "info" \in want /\ sheet \in Sheets
  BY DEF Hud, Wants, Sheets
<1>2. JoinSucceeded(h) = MaybeConfirmJoin(g)
  BY DEF JoinSucceeded
<1> HIDE DEF want, sheet
<1>3. /\ g \in Hud /\ g.job = h.job /\ g.target = h.target /\ g.want = want
      /\ g.connected = h.connected /\ g.live = h.live /\ g.connecting /\ JoinWait(g)
  BY <1>1 DEF Hud, JoinWait
<1> HIDE DEF g
<1> QED BY <1>1, <1>2, <1>3, MaybeConfirmJoinKeeps

LEMMA JoinRetryPskKeeps ==
  ASSUME NEW h \in Hud, h.job = NoJob, NEW up
  PROVE  LET r == JoinRetryPsk(h, up)
         IN  /\ r.target = h.target /\ r.connected = h.connected /\ r.live = h.live
             /\ ~r.job.exited /\ ~JoinWait(r) /\ r.sheet = h.sheet
             /\ "connect" \in up => r.job.kind = "connect"
<1> DEFINE g == [h EXCEPT !.want = @ \ {"connect"}]
<1>1. h.job.kind = "none"
  BY DEF NoJob
<1>2. /\ g \in Hud /\ g.job = h.job /\ g.connected = h.connected /\ g.live = h.live
      /\ g.sheet = h.sheet
  BY DEF Hud
<1>3. h.target \in SsidsOrNone /\ h.knownPsk \in PassOrNone
  BY DEF Hud
<1>4. JoinRetryPsk(h, up) \in {WifiConnect(h, h.target, h.knownPsk, up),
                               WifiConnect(g, h.target, h.knownPsk, up)}
  BY DEF JoinRetryPsk
<1> HIDE DEF g
<1> QED BY <1>1, <1>2, <1>3, <1>4, WifiConnectKeeps DEF JoinWait

LEMMA FinishConnectKeeps ==
  ASSUME NEW h \in Hud, h.job = NoJob, h.sheet # "NONE", ~JoinWait(h), NEW obs, NEW up
  PROVE  LET r == FinishConnect(h, obs, up)
         IN  /\ r.target = h.target /\ r.connected = h.connected /\ r.live = h.live
             /\ ~r.job.exited
             /\ JoinWait(r) => "info" \in r.want
             /\ JoinWait(r) \/ r.sheet = "NONE" => Succeeds(h, obs)
             /\ "connect" \in up /\ r.connecting => r.job.kind = "connect" \/ JoinWait(r)
<1> DEFINE act == OnConnectJob(ConnectIn(h, obs))
           idle == JoinOver(h)
           Same(r) == /\ r.target = h.target /\ r.connected = h.connected /\ r.live = h.live
                      /\ ~r.job.exited
           Over(r) == Same(r) /\ ~r.connecting /\ ~JoinWait(r) /\ r.sheet # "NONE"
           Good(r) == /\ Same(r)
                      /\ JoinWait(r) => "info" \in r.want
                      /\ JoinWait(r) \/ r.sheet = "NONE" => Succeeds(h, obs)
                      /\ "connect" \in up /\ r.connecting => r.job.kind = "connect" \/ JoinWait(r)
<1>1. act \in ConnectActs
  BY OnConnectJobActs
<1>2. act = "SUCCESS" => Succeeds(h, obs)
  BY SuccessAct
<1>3. idle \in Hud /\ idle.job = NoJob /\ Over(idle)
  <2>1. idle \in Hud
    BY DEF JoinOver, Hud
  <2>2. ~NoJob.exited
    BY DEF NoJob
  <2>3. idle = [h EXCEPT !.connecting = FALSE, !.busy = FALSE]
    BY DEF JoinOver
  <2> HIDE DEF act, idle
  <2> QED BY <2>1, <2>2, <2>3 DEF Hud, JoinWait
<1>4. FinishConnect(h, obs, up) =
        CASE act = "SUCCESS"      -> JoinSucceeded(idle)
          [] act = "RETRY_PSK"    -> JoinRetryPsk(idle, up)
          [] act = "WRONG_PASS"   -> AskPassword(ForgetPsk(idle, idle.target))
          [] act = "OPEN_PASS"    -> AskPassword(idle)
          [] act = "WAIT_PENDING" -> idle
          [] act = "FAIL"         -> JoinFailed(idle)
  BY DEF FinishConnect
<1> HIDE DEF act, idle
<1>5. ASSUME act = "SUCCESS"
      PROVE  Good(JoinSucceeded(idle))
  BY <1>2, <1>3, <1>5, JoinSucceededKeeps DEF NoJob
<1>6. Good(JoinRetryPsk(idle, up))
  BY <1>3, JoinRetryPskKeeps
<1>7. ASSUME NEW k \in Hud, Over(k)
      PROVE  Over(AskPassword(k))
  BY <1>7 DEF AskPassword, Hud, JoinWait
<1>8. ForgetPsk(idle, idle.target) \in Hud /\ Over(ForgetPsk(idle, idle.target))
  <2>1. ForgetPsk(idle, idle.target) \in Hud
    BY <1>3, PskType DEF Hud, PassOrNone
  <2> QED BY <1>3, <2>1 DEF ForgetPsk, Hud, JoinWait
<1>9. Over(JoinFailed(idle))
  <2> DEFINE sheet == IF idle.sheet = "NONE" THEN idle.sheet
                      ELSE IF idle.usedPass THEN "PASS" ELSE "DETAIL"
  <2>1. sheet # "NONE" /\ JoinFailed(idle) = [idle EXCEPT !.sheet = sheet]
    BY <1>3 DEF JoinFailed
  <2> HIDE DEF sheet
  <2> QED BY <1>3, <2>1 DEF Hud, JoinWait
<1>10. \A r : Over(r) => Good(r)
  OBVIOUS
<1>11. Over(AskPassword(ForgetPsk(idle, idle.target))) /\ Over(AskPassword(idle))
  BY <1>3, <1>7, <1>8
<1> HIDE DEF Over, Good
<1>12. Good(FinishConnect(h, obs, up))
  BY <1>1, <1>3, <1>4, <1>5, <1>6, <1>9, <1>10, <1>11 DEF ConnectActs
<1> QED BY <1>12 DEF Good

LEMMA FinishForgetKeeps ==
  ASSUME NEW h \in Hud, NEW obs
  PROVE  LET r == FinishForget(h, obs)
         IN  /\ r.wait = h.wait /\ r.connecting = h.connecting /\ r.hold = h.hold
             /\ r.job = h.job /\ r.live \in {h.live, NoSsid}
             /\ "connect" \in r.want => "connect" \in h.want
<1> DEFINE gone == IF h.hold # NoSsid THEN h.hold ELSE h.sel
           open == [h EXCEPT !.forgetting = FALSE]
           g == MarkApInactive(open, gone)
           Good(r) == /\ r.wait = h.wait /\ r.connecting = h.connecting /\ r.hold = h.hold
                      /\ r.job = h.job /\ r.live \in {h.live, NoSsid}
                      /\ "connect" \in r.want => "connect" \in h.want
           last(k) == [ForgetPsk(k, k.sel) EXCEPT !.sheet = "LIST",
                                                  !.want = @ \union {"info", "scan"}]
           failed == [h EXCEPT !.forgetting = FALSE, !.sheet = "DETAIL"]
<1>1. open \in Hud /\ Good(open)
  BY DEF Hud
<1>2. FinishForget(h, obs) \in {failed, last(g), last(ClearLive(g))}
  BY DEF FinishForget
<1>3. Good(failed)
  BY DEF Hud
<1> HIDE DEF open, failed
<1>4. g \in Hud /\ Good(g)
  <2>1. g \in Hud
    BY <1>1, MarkApInactiveType
  <2> QED BY <1>1, <2>1 DEF MarkApInactive, Hud
<1> HIDE DEF g
<1>5. ClearLive(g) \in Hud /\ Good(ClearLive(g))
  BY <1>4, ClearLiveType DEF ClearLive, Hud
<1>6. ASSUME NEW k \in Hud, Good(k)
      PROVE  Good(last(k))
  <2> DEFINE m == ForgetPsk(k, k.sel)
  <2>1. m \in Hud
    BY PskType DEF Hud, PassOrNone
  <2>2. Good(m)
    BY <1>6, <2>1 DEF ForgetPsk, Hud
  <2> HIDE DEF m
  <2>3. Good([m EXCEPT !.sheet = "LIST", !.want = @ \union {"info", "scan"}])
    BY <2>1, <2>2 DEF Hud
  <2> QED BY <2>3 DEF m
<1> HIDE DEF last, Good
<1>7. Good(FinishForget(h, obs))
  BY <1>2, <1>3, <1>4, <1>5, <1>6
<1> QED BY <1>7 DEF Good
-----------------------------------------------------------------------------
(* The actions, by what they do to the join that runs.                     *)

(* Neither a join nor a forget is touched; a query may start in an empty   *)
(* slot.                                                                   *)
Others ==
  \/ PeriodicScan \/ PeriodicInfo \/ PowerKey \/ IdleOff \/ RadioStep
  \/ TapHomeCard \/ TapListClose \/ TapRefresh \/ TapDetailBack \/ TapCancel
  \/ (\E s \in Ssids : TapRow(s)) \/ (\E p \in PassOrNone : TypePassword(p))
  \/ UNCHANGED vars

SlotKept(h, r) ==
  /\ \/ r.job = h.job
     \/ ~JobRunning(h) /\ r.job.kind \in {"info", "scan"} /\ ~r.job.exited
  /\ h.want \subseteq r.want

Untouched ==
  /\ hud'.wait = hud.wait /\ hud'.connecting = hud.connecting
  /\ hud'.target = hud.target /\ hud'.connected = hud.connected
  /\ hud'.live = hud.live /\ hud'.hold = hud.hold
  /\ SlotKept(hud, hud')

(* Does every attempt to start the join script succeed?                    *)
JoinsLaunch == \A up \in LaunchSets : "connect" \in up

JoinBegins ==
  /\ ~hud.connecting /\ hud'.connecting /\ hud'.wait = "none"
  /\ hud'.connected = hud.connected /\ hud'.live = hud.live
  /\ ~hud'.job.exited
  /\ JoinsLaunch => hud'.job.kind = "connect"

LEMMA OthersKeep == TypeOK /\ Others => Untouched
<1> SUFFICES ASSUME TypeOK, Others PROVE Untouched
  OBVIOUS
<1> USE DEF TypeOK
<1>1. ASSUME NEW h \in Hud, SameJoin([h EXCEPT !.sheet = hud.sheet], hud),
             h.job = hud.job, h.want = hud.want, NEW kind \in {"info", "scan"}, NEW up,
             hud' = StartOrQueue(h, kind, up)
      PROVE  Untouched
  <2> DEFINE r == StartOrQueue(h, kind, up)
  <2>1. /\ SameJoin(h, r)
        /\ \/ r.job = h.job /\ r.want = h.want \union {kind}
           \/ ~JobRunning(h) /\ r.job.kind = kind /\ ~r.job.exited /\ r.want = h.want
    BY StartOrQueueKeeps
  <2>2. /\ hud.wait = h.wait /\ hud.connecting = h.connecting /\ hud.target = h.target
        /\ hud.connected = h.connected /\ hud.live = h.live /\ hud.hold = h.hold
    BY <1>1 DEF SameJoin, Hud
  <2>3. hud' = r
    BY <1>1
  <2> HIDE DEF r
  <2> QED BY <1>1, <2>1, <2>2, <2>3 DEF SameJoin, Untouched, SlotKept, JobRunning
<1>2. CASE PeriodicScan \/ PeriodicInfo \/ TapRefresh
  <2>1. SameJoin([hud EXCEPT !.sheet = hud.sheet], hud)
    BY DEF SameJoin, Hud
  <2>2. \E kind \in {"info", "scan"} : \E up : hud' = StartOrQueue(hud, kind, up)
    BY <1>2 DEF PeriodicScan, PeriodicInfo, Periodic, TapRefresh
  <2> QED BY <1>1, <2>1, <2>2
<1>3. CASE TapHomeCard
  <2> DEFINE g == [hud EXCEPT !.sheet = "LIST"]
  <2>1. /\ g \in Hud /\ SameJoin([g EXCEPT !.sheet = hud.sheet], hud)
        /\ g.job = hud.job /\ g.want = hud.want
    BY DEF Hud, Sheets, SameJoin
  <2>2. hud' = g \/ \E up : hud' = StartOrQueue(g, "scan", up)
    BY <1>3 DEF TapHomeCard
  <2>3. hud' = g => Untouched
    BY DEF Hud, Untouched, SlotKept
  <2> HIDE DEF g
  <2> QED BY <1>1, <2>1, <2>2, <2>3
<1>4. CASE PowerKey \/ IdleOff
  BY <1>4 DEF PowerKey, IdleOff, Hud, Untouched, SlotKept
<1>5. CASE RadioStep \/ UNCHANGED vars
  BY <1>5 DEF RadioStep, vars, Untouched, SlotKept
<1>6. CASE \/ TapListClose \/ TapDetailBack \/ TapCancel
           \/ \E s \in Ssids : TapRow(s)
  <2>1. \E sel, sheet : hud' = [hud EXCEPT !.sel = sel, !.sheet = sheet]
    <3>1. ASSUME NEW sheet, hud' = [hud EXCEPT !.sheet = sheet]
          PROVE  hud' = [hud EXCEPT !.sel = hud.sel, !.sheet = sheet]
      BY <3>1 DEF Hud
    <3> QED BY <1>6, <3>1 DEF TapListClose, TapDetailBack, TapCancel, TapRow
  <2> QED BY <2>1 DEF Hud, Untouched, SlotKept
<1>7. CASE \E p \in PassOrNone : TypePassword(p)
  BY <1>7 DEF TypePassword, Hud, Untouched, SlotKept
<1> QED BY <1>2, <1>3, <1>4, <1>5, <1>6, <1>7 DEF Others

LEMMA TapJoinBegins == TypeOK /\ IndInv /\ TapJoin => JoinBegins
<1> SUFFICES ASSUME TypeOK, IndInv, TapJoin PROVE JoinBegins
  OBVIOUS
<1> USE DEF TypeOK
<1> DEFINE session == JoinUseSessionPsk(hud.sel, hud.knownSsid, hud.knownPsk)
           pass == IF session THEN hud.knownPsk ELSE NoPass
           g == [hud EXCEPT !.usedPass = session]
<1>1. session \in BOOLEAN /\ pass \in PassOrNone /\ hud.sel \in SsidsOrNone
  BY DEF JoinUseSessionPsk, SsidEq, Hud, PassOrNone
<1>2. ~hud.connecting
  BY DEF TapJoin, AllowJoin
<1>3. hud.job.kind # "connect"
  BY <1>2 DEF IndInv, Inv, SlotInv
<1>4. PICK up \in LaunchSets : hud' = WifiConnect(g, hud.sel, pass, up)
  BY DEF TapJoin
<1> HIDE DEF session, pass
<1>5. /\ g \in Hud /\ g.job = hud.job /\ g.connected = hud.connected
      /\ g.live = hud.live
  BY <1>1 DEF Hud
<1> HIDE DEF g
<1> QED BY <1>1, <1>2, <1>3, <1>4, <1>5, WifiConnectKeeps DEF JoinBegins, JoinsLaunch

LEMMA TapSubmitKeeps ==
  TypeOK /\ IndInv /\ TapSubmit => JoinBegins \/ (hud.connecting /\ Untouched)
<1> SUFFICES ASSUME TypeOK, IndInv, TapSubmit
             PROVE  JoinBegins \/ (hud.connecting /\ Untouched)
  OBVIOUS
<1> USE DEF TypeOK
<1> DEFINE ssid == PassSsid(hud.target, hud.sel)
           u == [hud EXCEPT !.usedPass = TRUE]
           g == RememberPsk(u, ssid, hud.typed)
           q == [g EXCEPT !.pendSsid = ssid, !.pendPass = hud.typed,
                          !.want = @ \union {"connect"}]
<1>1. ssid \in SsidsOrNone /\ hud.typed \in PassOrNone
  BY DEF PassSsid, Hud
<1>2. PICK up \in LaunchSets :
        hud' = IF hud.connecting THEN q ELSE WifiConnect(g, ssid, hud.typed, up)
  BY DEF TapSubmit
<1>3. u \in Hud /\ g \in Hud
  <2>1. u \in Hud
    BY DEF Hud
  <2> HIDE DEF u, ssid
  <2> QED BY <1>1, <2>1, PskType
<1> HIDE DEF ssid
<1>4. /\ g.job = hud.job /\ g.connecting = hud.connecting /\ g.wait = hud.wait
      /\ g.want = hud.want /\ g.target = hud.target /\ g.hold = hud.hold
      /\ g.live = hud.live /\ g.connected = hud.connected
  BY DEF RememberPsk, Hud
<1> HIDE DEF g
<1>5. CASE hud.connecting
  <2>1. hud' = q
    BY <1>2, <1>5
  <2> QED BY <1>3, <1>4, <1>5, <2>1 DEF Hud, Untouched, SlotKept
<1>6. CASE ~hud.connecting
  <2>1. hud' = WifiConnect(g, ssid, hud.typed, up) /\ hud.job.kind # "connect"
    BY <1>2, <1>6 DEF IndInv, Inv, SlotInv
  <2> HIDE DEF q
  <2> QED BY <1>1, <1>3, <1>4, <1>6, <2>1, WifiConnectKeeps DEF JoinBegins, JoinsLaunch
<1> QED BY <1>5, <1>6

(* A forget holds the name back and clears it from the screen.             *)
LEMMA TapForgetKeeps ==
  TypeOK /\ TapForget =>
    /\ ~hud'.connecting /\ ~JoinWait(hud') /\ ~hud'.job.exited
    /\ hud'.sheet = "DETAIL" /\ hud'.hold # NoSsid /\ radio' = radio
    /\ hud.live \in {hud'.hold, NoSsid} => hud'.live = NoSsid
<1> SUFFICES ASSUME TypeOK, TapForget
             PROVE  /\ ~hud'.connecting /\ ~JoinWait(hud') /\ ~hud'.job.exited
                    /\ hud'.sheet = "DETAIL" /\ hud'.hold # NoSsid /\ radio' = radio
                    /\ hud.live \in {hud'.hold, NoSsid} => hud'.live = NoSsid
  OBVIOUS
<1> USE DEF TypeOK
<1> DEFINE g == [hud EXCEPT !.wait = "none", !.connecting = FALSE, !.busy = FALSE,
                            !.want = {}, !.forgetting = TRUE]
           f == HoldForgotten(g, g.sel)
           m == AbortJob(f)
           Held(l) == /\ ~l.connecting /\ l.wait = "none" /\ l.hold # NoSsid
                      /\ l.sheet = "DETAIL"
                      /\ hud.live \in {l.hold, NoSsid} => l.live = NoSsid
<1>1. /\ g \in Hud /\ g.sel # NoSsid /\ g.sel \in SsidsOrNone
      /\ ~g.connecting /\ g.wait = "none" /\ g.live = hud.live /\ g.sheet = "DETAIL"
  BY DEF TapForget, OnSheet, Hud
<1>2. PICK up : hud' = IF CanStart(m, "forget", up)
                       THEN StartNmcli(m, "forget", m.sel, NoPass, up)
                       ELSE [m EXCEPT !.forgetting = FALSE]
  BY DEF TapForget
<1> HIDE DEF g
<1>3. f \in Hud /\ Held(f)
  <2>1. f \in Hud
    BY <1>1, HoldForgottenType
  <2> QED BY <1>1, <2>1 DEF HoldForgotten, MarkApInactive, ClearLive, SsidEq, Hud
<1> HIDE DEF f
<1>4. m \in Hud /\ Held(m) /\ ~m.job.exited
  <2>1. m \in Hud
    BY <1>3, CloseJobType DEF AbortJob
  <2> QED BY <1>3, <2>1 DEF AbortJob, CloseJob, NoJob, Hud
<1> HIDE DEF m
<1> DEFINE job == [NoJob EXCEPT !.kind = "forget", !.ssid = m.sel, !.pass = NoPass]
<1>5. ~job.exited
  BY DEF NoJob
<1>6. hud' = [m EXCEPT !.job = job] \/ hud' = [m EXCEPT !.forgetting = FALSE]
  BY <1>2 DEF StartNmcli
<1> HIDE DEF job
<1>7. Held(hud') /\ ~hud'.job.exited
  BY <1>4, <1>5, <1>6 DEF Hud
<1>8. radio' = radio
  BY DEF TapForget, OnSheet
<1> QED BY <1>7, <1>8 DEF JoinWait
-----------------------------------------------------------------------------
(* The confirmation goes on asking.                                        *)

LEMMA PollInvPoll == TypeOK /\ IndInv /\ PollInv(hud) /\ PollJob => PollInv(hud')
<1> SUFFICES ASSUME TypeOK, IndInv, PollInv(hud), PollJob PROVE PollInv(hud')
  OBVIOUS
<1> USE DEF TypeOK, IndInv
<1> PICK up \in LaunchSets, first \in FirstRows(hud) :
       hud' = KickPending(FinishJob(CloseJob(hud), hud.job, first, up), up)
  BY DEF PollJob
<1> DEFINE h == CloseJob(hud)
           r == FinishJob(h, hud.job, first, up)
<1>1. first \in SsidsOrNone /\ JobRunning(hud)
  BY FirstRowsType DEF PollJob
<1>2. r \in Hud /\ Mid(r)
  BY <1>1, FinishJobMid
<1>3. /\ h \in Hud /\ h.job = NoJob /\ h.wait = hud.wait /\ h.want = hud.want
      /\ h.connecting = hud.connecting /\ h.sheet = hud.sheet
  BY CloseJobType DEF CloseJob, Hud
<1>4. hud.job.obs \in Obs /\ hud.job.kind \in Kinds
  BY <1>1 DEF Hud, Job, JobRunning
<1>5. hud' = KickPending(r, up)
  OBVIOUS
<1> HIDE DEF h
<1>6. PollInv(r)
  <2>1. CASE hud.job.kind = "connect"
    <3>1. h.sheet # "NONE" /\ ~JoinWait(h)
      BY <1>3, <2>1 DEF Inv, SlotInv, SheetInv, JoinWait
    <3>2. r = FinishConnect(h, hud.job.obs, up)
      BY <2>1 DEF FinishJob
    <3> HIDE DEF r
    <3> QED BY <1>3, <3>1, <3>2, FinishConnectKeeps DEF PollInv
  <2>2. CASE hud.job.kind = "forget"
    <3>1. ~JoinWait(h)
      BY <1>3, <2>2 DEF Inv, ForgetInv, SheetInv, JoinWait
    <3>2. r = FinishForget(h, hud.job.obs)
      BY <2>2 DEF FinishJob
    <3> HIDE DEF r
    <3> QED BY <1>3, <3>1, <3>2, FinishForgetKeeps DEF PollInv, JoinWait
  <2>3. CASE hud.job.kind \in {"radio", "info", "scan", "link"}
    <3>1. hud.job.kind = "scan" => PollInv(h)
      BY <1>3 DEF PollInv, JoinWait
    <3>2. CASE hud.job.kind = "scan"
      <4>1. r = FinishScan(h, hud.job.obs, first)
        BY <3>2 DEF FinishJob
      <4> HIDE DEF r
      <4> QED BY <1>1, <1>3, <1>4, <3>1, <3>2, <4>1, FinishQueryPolls
    <3>3. CASE hud.job.kind # "scan"
      <4>1. r \in {FinishRadio(h), FinishInfo(h, hud.job.obs), FinishLink(h, hud.job.obs)}
        BY <2>3, <3>3 DEF FinishJob
      <4> HIDE DEF r
      <4> QED BY <1>1, <1>3, <1>4, <4>1, FinishQueryPolls
    <3> QED BY <3>2, <3>3
  <2> QED BY <1>4, <2>1, <2>2, <2>3 DEF Kinds
<1> HIDE DEF r
<1>7. CASE JobRunning(r) \/ "connect" \notin r.want
  BY <1>2, <1>5, <1>6, <1>7, KickPendingKeeps
<1>8. CASE ~JobRunning(r) /\ "connect" \in r.want
  BY <1>2, <1>5, <1>8, KickPendingJoins DEF PollInv, JoinWait
<1> QED BY <1>7, <1>8

LEMMA PollInvStep == TypeOK /\ IndInv /\ PollInv(hud) /\ [Next]_vars => PollInv(hud')
<1> SUFFICES ASSUME TypeOK, IndInv, PollInv(hud), [Next]_vars PROVE PollInv(hud')
  OBVIOUS
<1> USE DEF TypeOK
<1>1. CASE PollJob
  BY <1>1, PollInvPoll
<1>2. CASE ConfirmTick
  BY <1>2, MaybeConfirmJoinKeeps DEF ConfirmTick, PollInv
<1>3. CASE KickTick
  <2> PICK up \in LaunchSets : hud' = KickPending(hud, up)
    BY <1>3 DEF KickTick
  <2>1. CASE JobRunning(hud) \/ "connect" \notin hud.want
    BY <2>1, KickPendingKeeps
  <2>2. CASE ~JobRunning(hud) /\ "connect" \in hud.want
    BY <2>2, KickPendingJoins DEF PollInv, JoinWait
  <2> QED BY <2>1, <2>2
<1>4. Untouched => PollInv(hud')
  BY DEF Untouched, SlotKept, PollInv, JoinWait, JobRunning
<1>5. JoinBegins => PollInv(hud')
  BY DEF JoinBegins, PollInv, JoinWait
<1>6. CASE TapForget
  BY <1>6, TapForgetKeeps DEF PollInv
<1>7. CASE JobExit \/ JoinOverdue
  <2>1. \/ \E obs : Exit(obs)
        \/ hud.wait = "fresh" /\ hud' = [hud EXCEPT !.wait = "overdue"]
    BY <1>7 DEF JobExit, RadioExit, InfoExit, InfoError, ScanExit, LinkExit, QueryExit,
                ConnectExit, ForgetExit, JoinOverdue
  <2>2. ASSUME NEW obs, Exit(obs)
        PROVE  PollInv(hud')
    <3> DEFINE job == [hud.job EXCEPT !.exited = TRUE, !.obs = obs]
    <3>1. job.kind = hud.job.kind
      BY DEF Hud, Job
    <3>2. hud' = [hud EXCEPT !.job = job]
      BY <2>2 DEF Exit
    <3> HIDE DEF job
    <3> QED BY <3>1, <3>2 DEF Hud, PollInv, JoinWait
  <2>3. hud.wait = "fresh" /\ hud' = [hud EXCEPT !.wait = "overdue"] => PollInv(hud')
    BY DEF Hud, PollInv, JoinWait
  <2> QED BY <2>1, <2>2, <2>3
<1> QED
  BY <1>1, <1>2, <1>3, <1>4, <1>5, <1>6, <1>7, OthersKeep, TapJoinBegins, TapSubmitKeeps
  DEF Next, Loop, Taps, Outside, Others

(* While a join is confirmed with the screen on, the next turn of the loop *)
(* has a query to start: the chain of want_info and want_link in poll_job  *)
(* and kick_pending never breaks, whichever children fail to start.        *)
THEOREM ConfirmationPolls == Spec => []ConfirmPolls
<1>1. Init => PollInv(hud)
  <2> SUFFICES ASSUME Init PROVE hud.wait = "none"
    BY DEF PollInv, JoinWait
  <2> QED BY DEF Init, StartNmcli
<1>2. TypeOK /\ IndInv /\ PollInv(hud) => ConfirmPolls
  <2> SUFFICES ASSUME TypeOK, IndInv, PollInv(hud), JoinWait(hud), ~JobRunning(hud),
                      ~hud.screenOff
               PROVE  JobRunning(KickPending(hud, Kinds))
    BY DEF ConfirmPolls
  <2>1. "connect" \notin hud.want
    BY DEF IndInv, Inv, QueueInv
  <2>2. "info" \in hud.want \/ "link" \in hud.want
    BY DEF PollInv, JobRunning
  <2> DEFINE without(w) == [hud EXCEPT !.want = @ \ {w}]
  <2>3. ASSUME NEW w \in {"info", "scan", "link"}
        PROVE  JobRunning(StartOrQueue(without(w), w, Kinds))
    <3> DEFINE g == without(w)
    <3>1. g \in Hud /\ ~JobRunning(g) /\ w \in Kinds /\ w # "none"
      BY DEF TypeOK, Hud, JobRunning, Kinds
    <3> HIDE DEF g
    <3>2. StartOrQueue(g, w, Kinds).job.kind = w
      BY <3>1, StartOrQueueKeeps
    <3> QED BY <3>1, <3>2 DEF JobRunning, g
  <2>4. KickPending(hud, Kinds) \in {StartOrQueue(without("info"), "info", Kinds),
                                     StartOrQueue(without("scan"), "scan", Kinds),
                                     StartOrQueue(without("link"), "link", Kinds)}
    BY <2>1, <2>2 DEF KickPending
  <2> HIDE DEF without
  <2> QED BY <2>3, <2>4
<1>3. TypeOK /\ IndInv /\ PollInv(hud) /\ [Next]_vars => PollInv(hud)'
  BY PollInvStep DEF PollInv, JoinWait
<1> QED BY <1>1, <1>2, <1>3, TypeCorrect, Invariance, PTL DEF Spec
-----------------------------------------------------------------------------
(* The spinner, and what it takes for a join to end as joined.             *)

(* Somebody works on the join that is shown.                               *)
SpinInv(h) == h.connecting => h.job.kind = "connect" \/ JoinWait(h)

(* The finished join job says that the join succeeded.                     *)
JoinDone ==
  /\ hud.job.kind = "connect" /\ hud.job.exited
  /\ Succeeds(hud, hud.job.obs)

JoinMoves ==
  /\ SpinInv(hud')
  /\ hud'.connecting => hud.connecting \/ JoinBegins
  /\ hud.connecting /\ hud'.sheet = "NONE" => JoinWait(hud) \/ JoinDone
  /\ hud.connecting /\ hud'.connecting =>
       /\ hud'.target = hud.target
       /\ JoinWait(hud') => JoinWait(hud) \/ JoinDone
       /\ ~JoinWait(hud') => /\ ~JoinWait(hud)
                             /\ hud'.connected = hud.connected /\ hud'.live = hud.live
       /\ hud'.job.kind = "connect" /\ hud'.job.exited =>
            \/ hud'.job = hud.job
            \/ JobOk(hud'.job.obs.rc, hud'.job.obs.says) => radio'.ap = hud'.job.ssid

LEMMA ExitKeeps ==
  ASSUME hud \in Hud, NEW obs, Exit(obs)
  PROVE  /\ hud'.wait = hud.wait /\ hud'.connecting = hud.connecting
         /\ hud'.target = hud.target /\ hud'.connected = hud.connected
         /\ hud'.live = hud.live /\ hud'.hold = hud.hold
         /\ hud'.job.kind = hud.job.kind /\ hud'.job.ssid = hud.job.ssid
         /\ hud'.job.obs = obs
<1> DEFINE job == [hud.job EXCEPT !.exited = TRUE, !.obs = obs]
<1>1. job.kind = hud.job.kind /\ job.ssid = hud.job.ssid /\ job.obs = obs
  BY DEF Hud, Job
<1>2. hud' = [hud EXCEPT !.job = job]
  BY DEF Exit
<1> HIDE DEF job
<1> QED BY <1>1, <1>2 DEF Hud

LEMMA JoinMovesPoll ==
  TypeOK /\ IndInv /\ SpinInv(hud) /\ JoinsLaunch /\ PollJob => JoinMoves
<1> SUFFICES ASSUME TypeOK, IndInv, SpinInv(hud), JoinsLaunch, PollJob PROVE JoinMoves
  OBVIOUS
<1> USE DEF TypeOK, IndInv
<1> PICK up \in LaunchSets, first \in FirstRows(hud) :
       hud' = KickPending(FinishJob(CloseJob(hud), hud.job, first, up), up)
  BY DEF PollJob
<1> DEFINE h == CloseJob(hud)
           r == FinishJob(h, hud.job, first, up)
<1>1. first \in SsidsOrNone /\ JobRunning(hud) /\ hud.job.exited /\ "connect" \in up
  BY FirstRowsType DEF PollJob, JoinsLaunch
<1>2. r \in Hud /\ Mid(r)
  BY <1>1, FinishJobMid
<1>3. /\ h \in Hud /\ h.job = NoJob /\ h.wait = hud.wait /\ h.want = hud.want
      /\ h.connecting = hud.connecting /\ h.sheet = hud.sheet /\ h.target = hud.target
      /\ h.connected = hud.connected /\ h.live = hud.live
  BY CloseJobType DEF CloseJob, Hud
<1>4. hud.job.obs \in Obs /\ hud.job.kind \in Kinds
  BY <1>1 DEF Hud, Job, JobRunning
<1>5. hud' = KickPending(r, up)
  OBVIOUS
<1>6. NoJob.kind = "none" /\ ~NoJob.exited
  BY DEF NoJob
<1> HIDE DEF h
<1>7. CASE hud.job.kind = "connect"
  <2>1. h.sheet # "NONE" /\ ~JoinWait(h) /\ h.connecting
    BY <1>3, <1>7 DEF Inv, SlotInv, SheetInv, JoinWait
  <2>2. r = FinishConnect(h, hud.job.obs, up)
    BY <1>7 DEF FinishJob
  <2> HIDE DEF r
  <2>3. Succeeds(h, hud.job.obs) <=> JoinDone
    BY <1>1, <1>3, <1>7 DEF Succeeds, JoinDone
  <2>4. /\ r.target = h.target /\ r.connected = h.connected /\ r.live = h.live
        /\ ~r.job.exited
        /\ JoinWait(r) \/ r.sheet = "NONE" => JoinDone
        /\ r.connecting => r.job.kind = "connect" \/ JoinWait(r)
    BY <1>1, <1>3, <2>1, <2>2, <2>3, FinishConnectKeeps
  <2>5. CASE JobRunning(r) \/ "connect" \notin r.want
    <3>1. /\ SameJoin(r, hud')
          /\ hud'.job = r.job \/ (hud'.job.kind \in {"info", "scan", "link"} /\ ~hud'.job.exited)
          /\ JobRunning(r) => hud' = r
      BY <1>2, <1>5, <2>5, KickPendingKeeps
    <3>2. SpinInv(hud')
      BY <2>4, <3>1 DEF SpinInv, SameJoin, JobRunning, JoinWait
    <3> QED
      BY <1>3, <2>1, <2>4, <3>1, <3>2 DEF JoinMoves, SameJoin, JoinWait
  <2>6. CASE ~JobRunning(r) /\ "connect" \in r.want
    <3>1. /\ hud'.wait = "none" /\ hud'.connecting /\ hud'.target = r.pendSsid
          /\ hud'.connected = r.connected /\ hud'.live = r.live /\ hud'.sheet = r.sheet
          /\ hud'.job.kind = "connect" /\ ~hud'.job.exited
      BY <1>1, <1>2, <1>5, <2>6, KickPendingJoins
    <3>2. r.pendSsid = r.target /\ r.sheet # "NONE"
      BY <1>2, <2>6 DEF Mid
    <3> QED
      BY <1>3, <2>1, <2>4, <3>1, <3>2 DEF JoinMoves, SpinInv, JoinWait
  <2> QED BY <2>5, <2>6
<1>8. CASE hud.job.kind # "connect"
  <2>1. "connect" \notin hud.want
    BY <1>8 DEF SpinInv, Inv, QueueInv
  <2>2. /\ "connect" \notin r.want /\ r.job = h.job
        /\ ~hud.connecting => ~r.connecting /\ ~JoinWait(r)
        /\ hud.connecting => /\ JoinWait(hud) /\ r.target = h.target
                             /\ JoinWait(r) <=> r.connecting
    <3>1. CASE hud.job.kind = "forget"
      <4>1. ~hud.connecting /\ ~JoinWait(hud)
        BY <3>1 DEF Inv, ForgetInv, SheetInv
      <4>2. r = FinishForget(h, hud.job.obs)
        BY <3>1 DEF FinishJob
      <4> HIDE DEF r
      <4> QED BY <1>3, <2>1, <4>1, <4>2, FinishForgetKeeps DEF JoinWait
    <3>2. CASE hud.job.kind \in {"radio", "info", "scan", "link"}
      <4> DEFINE obs == hud.job.obs
      <4>1. /\ ~hud.connecting => ~JoinWait(h)
            /\ hud.connecting => JoinWait(hud) /\ JoinWait(h)
        BY <1>3, <1>8 DEF Inv, SheetInv, SpinInv, JoinWait
      <4>2. r \in {FinishInfo(h, obs), FinishScan(h, obs, first), FinishLink(h, obs),
                   FinishRadio(h)}
        BY <3>2 DEF FinishJob
      <4> HIDE DEF r
      <4> QED BY <1>1, <1>3, <1>4, <2>1, <4>1, <4>2, FinishQueryKeeps
    <3> QED BY <1>4, <1>8, <3>1, <3>2 DEF Kinds
  <2> HIDE DEF r
  <2>3. /\ SameJoin(r, hud')
        /\ hud'.job = r.job \/ (hud'.job.kind \in {"info", "scan", "link"} /\ ~hud'.job.exited)
    BY <1>2, <1>5, <2>2, KickPendingKeeps
  <2> QED
    BY <1>3, <1>6, <2>2, <2>3 DEF JoinMoves, SpinInv, SameJoin, JoinWait
<1> QED BY <1>7, <1>8

LEMMA JoinMovesStep ==
  TypeOK /\ IndInv /\ SpinInv(hud) /\ JoinsLaunch /\ [Next]_vars => JoinMoves
<1> SUFFICES ASSUME TypeOK, IndInv, SpinInv(hud), JoinsLaunch, [Next]_vars PROVE JoinMoves
  OBVIOUS
<1> USE DEF TypeOK
<1>1. /\ JoinWait(hud) => hud.connecting
      /\ hud.connecting /\ hud.job.kind # "connect" => JoinWait(hud)
      /\ "connect" \in hud.want => hud.connecting /\ ~JoinWait(hud)
      /\ hud.job.kind = "connect" => hud.connecting /\ ~JoinWait(hud)
  BY DEF IndInv, Inv, SheetInv, SlotInv, QueueInv, SpinInv
<1>2. hud'.connecting => hud'.sheet # "NONE"
  <2>1. Inv(hud')
    BY NextInv DEF IndInv
  <2> QED BY <2>1 DEF Inv, SheetInv
<1>3. CASE PollJob
  BY <1>3, JoinMovesPoll
<1>4. CASE ConfirmTick
  <2>1. /\ hud' = hud \/ (JoinWait(hud) /\ ~JoinWait(hud') /\ ~hud'.connecting)
        /\ hud'.job = hud.job
    BY <1>4, MaybeConfirmJoinKeeps DEF ConfirmTick
  <2> QED BY <1>1, <1>2, <2>1 DEF JoinMoves, SpinInv
<1>5. CASE KickTick
  <2> PICK up \in LaunchSets : hud' = KickPending(hud, up)
    BY <1>5 DEF KickTick
  <2>1. JobRunning(hud) \/ "connect" \notin hud.want
    BY <1>1 DEF JobRunning
  <2>2. /\ SameJoin(hud, hud')
        /\ hud'.job = hud.job \/ (hud'.job.kind \in {"info", "scan", "link"} /\ ~hud'.job.exited)
        /\ JobRunning(hud) => hud' = hud
    BY <2>1, KickPendingKeeps
  <2> QED BY <1>1, <1>2, <2>2 DEF JoinMoves, SpinInv, SameJoin, JoinWait, JobRunning
<1>6. Untouched => JoinMoves
  <2> SUFFICES ASSUME Untouched PROVE JoinMoves
    OBVIOUS
  <2>1. /\ hud'.wait = hud.wait /\ hud'.connecting = hud.connecting
        /\ hud'.target = hud.target /\ hud'.connected = hud.connected
        /\ hud'.live = hud.live
        /\ \/ hud'.job = hud.job
           \/ ~JobRunning(hud) /\ hud'.job.kind \in {"info", "scan"} /\ ~hud'.job.exited
    BY DEF Untouched, SlotKept
  <2> QED BY <1>1, <1>2, <2>1 DEF JoinMoves, SpinInv, JoinWait, JobRunning
<1>7. JoinBegins => JoinMoves
  BY DEF JoinMoves, JoinBegins, SpinInv
<1>8. CASE TapForget
  <2>1. ~hud'.connecting /\ hud'.sheet = "DETAIL"
    BY <1>8, TapForgetKeeps
  <2> QED BY <2>1 DEF JoinMoves, SpinInv
<1>9. CASE JobExit
  <2>1. PICK obs : /\ Exit(obs)
                   /\ hud.job.kind = "connect" /\ JobOk(obs.rc, obs.says)
                        => radio'.ap = hud.job.ssid
    <3>1. CASE hud.job.kind # "connect"
      BY <1>9, <3>1 DEF JobExit, RadioExit, InfoExit, InfoError, ScanExit, LinkExit, QueryExit,
                        ConnectExit, ForgetExit
    <3>2. CASE hud.job.kind = "connect"
      <4>1. ConnectExit
        BY <1>9, <3>2 DEF JobExit, RadioExit, InfoExit, InfoError, ScanExit, LinkExit,
                          QueryExit, ForgetExit
      <4> DEFINE need == [NoObs EXCEPT !.rc = 2, !.says = {"need"}]
                 wrong == [NoObs EXCEPT !.rc = 3, !.says = {"wrong"}]
                 other == [NoObs EXCEPT !.rc = 1]
      <4>2. /\ ~JobOk(need.rc, need.says) /\ ~JobOk(wrong.rc, wrong.says)
            /\ ~JobOk(other.rc, other.says)
        BY DEF JobOk, NoObs
      <4>3. /\ radio' = radio
            /\ \/ radio.ap = hud.job.ssid /\ Exit([NoObs EXCEPT !.says = {"joined"}])
               \/ Exit(need) \/ Exit(wrong) \/ Exit(other)
        BY <4>1 DEF ConnectExit
      <4> HIDE DEF need, wrong, other
      <4> QED BY <4>2, <4>3
    <3> QED BY <3>1, <3>2
  <2>2. /\ hud'.wait = hud.wait /\ hud'.connecting = hud.connecting
        /\ hud'.target = hud.target
        /\ hud'.connected = hud.connected /\ hud'.live = hud.live
        /\ hud'.job.kind = hud.job.kind /\ hud'.job.ssid = hud.job.ssid
        /\ hud'.job.obs = obs
    BY <2>1, ExitKeeps
  <2> QED BY <1>1, <1>2, <2>1, <2>2 DEF JoinMoves, SpinInv, JoinWait
<1>10. CASE JoinOverdue
  <2>1. hud.wait = "fresh" /\ hud' = [hud EXCEPT !.wait = "overdue"]
    BY <1>10 DEF JoinOverdue
  <2> QED BY <1>1, <1>2, <2>1 DEF Hud, JoinMoves, SpinInv, JoinWait
<1> QED
  BY <1>3, <1>4, <1>5, <1>6, <1>7, <1>8, <1>9, <1>10, OthersKeep, TapJoinBegins,
     TapSubmitKeeps
  DEF Next, Loop, Taps, Outside, Others

(* The spinner is never left turning with nobody at work, provided that    *)
(* every attempt to start the join script succeeds (wifi_connect sets      *)
(* "connecting" before start_nmcli, whose failure it does not look at).    *)
THEOREM SpinnerServed ==
  ASSUME JoinsLaunch
  PROVE  Spec => []NoStuckSpinner
<1>1. Init => SpinInv(hud)
  <2> SUFFICES ASSUME Init PROVE ~hud.connecting
    BY DEF SpinInv
  <2> QED BY DEF Init, StartNmcli
<1>2. TypeOK /\ IndInv /\ SpinInv(hud) /\ [Next]_vars => SpinInv(hud)'
  <2>1. SpinInv(hud') => SpinInv(hud)'
    BY DEF SpinInv, JoinWait
  <2> QED BY <2>1, JoinMovesStep DEF JoinMoves
<1>3. SpinInv(hud) => NoStuckSpinner
  BY DEF SpinInv, NoStuckSpinner
<1> QED BY <1>1, <1>2, <1>3, TypeCorrect, Invariance, PTL DEF Spec
-----------------------------------------------------------------------------
(* The histories.                                                          *)

(* What was seen of the target that is being joined.                       *)
Told == hud.target \in been \/ claimed

(* Whatever can end the join as joined tells of the target: the name on    *)
(* show before the confirmation, the confirmation, a script that succeeded.*)
JoinInv ==
  /\ hud.connecting /\ ~JoinWait(hud) /\ hud.connected /\ hud.live = hud.target => Told
  /\ JoinWait(hud) => Told
  /\ /\ hud.job.kind = "connect" /\ hud.job.exited
     /\ JobOk(hud.job.obs.rc, hud.job.obs.says)
     => hud.target \in been

LEMMA HistoryIsHud == HistorySpec => Spec
<1>1. [HistNext]_histVars => [Next]_vars
  BY DEF HistNext, histVars, vars
<1> QED BY <1>1, PTL DEF HistorySpec, Spec

LEMMA DoneIsTold == IndInv /\ JoinInv /\ JoinDone => Told
BY DEF IndInv, Inv, SlotInv, JoinInv, JoinDone, Succeeds, AlreadyOn, SsidEq, Told

LEMMA JoinInvStep ==
  /\ TypeOK /\ IndInv /\ SpinInv(hud) /\ JoinsLaunch /\ JoinInv
  /\ HistNext
  => JoinInv'
<1> SUFFICES ASSUME TypeOK, IndInv, SpinInv(hud), JoinsLaunch, JoinInv, HistNext
             PROVE  JoinInv'
  OBVIOUS
<1>1. JoinMoves
  BY JoinMovesStep DEF HistNext
<1>2. /\ JoinWait(hud)' => hud'.connecting
      /\ hud'.job.kind = "connect" => hud'.connecting /\ hud'.job.ssid = hud'.target
      /\ hud'.connecting => hud'.target # NoSsid
  <2>1. IndInv'
    BY NextInv DEF HistNext
  <2> QED BY <2>1 DEF IndInv, Inv, SheetInv, SlotInv, TargetInv
<1>3. JoinDone => Told
  BY DoneIsTold
<1>4. CASE ~hud'.connecting
  BY <1>2, <1>4 DEF JoinInv
<1>5. CASE hud'.connecting /\ ~hud.connecting
  <2>1. JoinBegins
    BY <1>1, <1>5 DEF JoinMoves
  <2>2. claimed' = (hud.connected /\ hud.live = hud'.target)
    BY <1>5 DEF HistNext, HistStep
  <2> QED BY <2>1, <2>2 DEF JoinBegins, JoinInv, JoinWait, Told
<1>6. CASE hud'.connecting /\ hud.connecting
  <2>1. /\ been' = been \union OnAp(radio') /\ claimed' = claimed
        /\ hud'.target = hud.target
    BY <1>1, <1>6 DEF HistNext, HistStep, JoinMoves
  <2>2. Told => Told'
    BY <2>1 DEF Told
  <2>3. JoinWait(hud)' => Told'
    BY <1>1, <1>3, <1>6, <2>2 DEF JoinMoves, JoinInv, JoinWait
  <2>4. ~JoinWait(hud)' /\ hud'.connected /\ hud'.live = hud'.target => Told'
    BY <1>1, <1>6, <2>1, <2>2 DEF JoinMoves, JoinInv, JoinWait
  <2>5. ASSUME hud'.job.kind = "connect", hud'.job.exited,
               JobOk(hud'.job.obs.rc, hud'.job.obs.says)
        PROVE  hud'.target \in been'
    <3>1. CASE hud'.job = hud.job
      BY <2>1, <2>5, <3>1 DEF JoinInv
    <3>2. CASE radio'.ap = hud'.job.ssid
      BY <1>2, <1>6, <2>1, <2>5, <3>2 DEF OnAp
    <3> QED BY <1>1, <1>6, <2>5, <3>1, <3>2 DEF JoinMoves
  <2>6. JobOk(hud.job.obs.rc, hud.job.obs.says)' = JobOk(hud'.job.obs.rc, hud'.job.obs.says)
    BY DEF JobOk
  <2> QED BY <2>3, <2>4, <2>5, <2>6 DEF JoinInv
<1> QED BY <1>4, <1>5, <1>6

(* A join closes the sheet as joined only if the radio was on the target   *)
(* since it began, or the target was the network on show before it         *)
(* (maybe_confirm_join and gw_on_connect_job believe nothing older).       *)
THEOREM JoinedThere ==
  ASSUME JoinsLaunch
  PROVE  HistorySpec => JoinedWasThere
<1>1. Init /\ HistInit => SpinInv(hud) /\ JoinInv
  <2> SUFFICES ASSUME Init, HistInit PROVE SpinInv(hud) /\ JoinInv
    OBVIOUS
  <2>1. ~hud.connecting /\ hud.wait = "none"
    BY DEF Init, StartNmcli
  <2>2. hud.job.kind # "connect"
    BY <2>1, InitInv DEF IndInv, Inv, SlotInv
  <2> QED BY <2>1, <2>2 DEF SpinInv, JoinInv, JoinWait
<1>2. TypeOK /\ IndInv /\ SpinInv(hud) /\ JoinInv /\ [HistNext]_histVars
        => SpinInv(hud)' /\ JoinInv'
  <2> SUFFICES ASSUME TypeOK, IndInv, SpinInv(hud), JoinInv, [HistNext]_histVars
               PROVE  SpinInv(hud)' /\ JoinInv'
    OBVIOUS
  <2>1. CASE HistNext
    <3>1. SpinInv(hud')
      BY <2>1, JoinMovesStep DEF HistNext, JoinMoves
    <3>2. SpinInv(hud)'
      BY <3>1 DEF SpinInv, JoinWait
    <3> QED BY <2>1, <3>2, JoinInvStep
  <2>2. CASE UNCHANGED histVars
    BY <2>2 DEF histVars, SpinInv, JoinInv, Told, JoinWait, JobOk
  <2> QED BY <2>1, <2>2
<1>3. TypeOK /\ IndInv /\ SpinInv(hud) /\ JoinInv /\ [HistNext]_histVars
        => [hud.connecting /\ hud'.sheet = "NONE" => hud.target \in been \/ claimed]_histVars
  <2> SUFFICES ASSUME TypeOK, IndInv, SpinInv(hud), JoinInv, HistNext,
                      hud.connecting, hud'.sheet = "NONE"
               PROVE  hud.target \in been \/ claimed
    OBVIOUS
  <2>1. JoinWait(hud) \/ JoinDone
    BY JoinMovesStep DEF HistNext, JoinMoves
  <2> QED BY <2>1, DoneIsTold DEF JoinInv, Told
<1> QED
  BY <1>1, <1>2, <1>3, HistoryIsHud, TypeCorrect, Invariance, PTL
  DEF HistorySpec, JoinedWasThere
-----------------------------------------------------------------------------
(* The network that was forgotten and that the radio has not left.         *)

(* The device is not down while the radio is on an AP.                     *)
RadioInv == radio.ap # NoSsid => radio.nm # "down"

(* The name is held back, and whatever the children that have exited say   *)
(* is about that AP.                                                       *)
LeftInv ==
  left # NoSsid =>
    /\ ~hud.connecting /\ hud.hold = left /\ hud.live = NoSsid
    /\ radio.ap = left
    /\ hud.job.exited =>
         /\ hud.job.kind = "info" => hud.job.obs.nm # "down"
         /\ hud.job.kind \in {"link", "scan"} => hud.job.obs.ap = left

LEMMA RadioInvStep == RadioInv /\ [Next]_vars => RadioInv'
<1> SUFFICES ASSUME RadioInv, [Next]_vars PROVE RadioInv'
  OBVIOUS
<1> DEFINE off == [nm |-> "down", ap |-> NoSsid]
<1>1. off.ap = NoSsid
  OBVIOUS
<1>2. CASE RadioStep
  <2>1. CASE radio' = off
    BY <1>1, <2>1 DEF RadioInv
  <2>2. CASE \E s \in Ssids : radio' = [nm |-> "busy", ap |-> s]
    BY <2>2 DEF RadioInv
  <2>3. CASE radio' = [radio EXCEPT !.nm = "up"]
    BY <2>3 DEF RadioInv
  <2> QED BY <1>2, <2>1, <2>2, <2>3 DEF RadioStep
<1>3. radio' = radio => RadioInv'
  BY DEF RadioInv
<1>4. radio' = off => RadioInv'
  BY <1>1 DEF RadioInv
<1>5. CASE JobExit \/ JoinOverdue
  BY <1>3, <1>4, <1>5 DEF JobExit, RadioExit, InfoExit, InfoError, ScanExit, LinkExit,
                          QueryExit, ConnectExit, ForgetExit, JoinOverdue
<1>6. CASE Taps
  BY <1>3, <1>6 DEF Taps, OnSheet, TapHomeCard, TapListClose, TapRefresh, TapRow,
                    TapDetailBack, TapJoin, TapForget, TypePassword, TapCancel, TapSubmit
<1>7. CASE Loop \/ PowerKey \/ IdleOff \/ UNCHANGED vars
  BY <1>3, <1>7 DEF Loop, PollJob, ConfirmTick, KickTick, PeriodicScan, PeriodicInfo,
                    Periodic, PowerKey, IdleOff, vars
<1> QED BY <1>2, <1>5, <1>6, <1>7 DEF Next, Outside

(* The answers that are about the held AP change neither the hold nor the  *)
(* name on show.                                                           *)
LEMMA HeldAnswers ==
  ASSUME NEW h \in Hud, h.hold # NoSsid, h.live = NoSsid, ~JoinWait(h),
         NEW obs \in Obs, NEW up
  PROVE  /\ obs.nm # "down" => /\ FinishInfo(h, obs).hold = h.hold
                               /\ FinishInfo(h, obs).live = NoSsid
         /\ obs.ap = h.hold => /\ FinishLink(h, obs).hold = h.hold
                               /\ FinishLink(h, obs).live = NoSsid
         /\ FinishScan(h, obs, NoSsid).hold = h.hold
         /\ FinishScan(h, obs, NoSsid).live = NoSsid
         /\ FinishRadio(h).hold = h.hold /\ FinishRadio(h).live = NoSsid
<1> obs.list \in SUBSET Ssids /\ obs.ap \in SsidsOrNone
  BY DEF Obs
<1>1. ASSUME NEW k \in Hud
      PROVE  MaybeConfirmJoin(k).hold = k.hold /\ MaybeConfirmJoin(k).live = k.live
  BY MaybeConfirmJoinKeeps
<1>2. ASSUME obs.nm # "down"
      PROVE  FinishInfo(h, obs).hold = h.hold /\ FinishInfo(h, obs).live = NoSsid
  <2> DEFINE g == ParseInfo(h, obs.nm)
             l == [g EXCEPT !.want = @ \union {"link"}]
  <2>1. g \in Hud /\ g.hold = h.hold /\ g.live = NoSsid
    BY <1>2, ParseInfoType, ParseInfoKeeps
  <2> HIDE DEF g
  <2>2. l \in Hud /\ l.hold = h.hold /\ l.live = NoSsid
    BY <2>1 DEF Hud, Wants
  <2> HIDE DEF l
  <2>3. FinishInfo(h, obs) \in {MaybeConfirmJoin(g), MaybeConfirmJoin(l)}
    BY DEF FinishInfo, g, l
  <2> QED BY <1>1, <2>1, <2>2, <2>3
<1>3. ASSUME obs.ap = h.hold
      PROVE  FinishLink(h, obs).hold = h.hold /\ FinishLink(h, obs).live = NoSsid
  <2> DEFINE g == MaybeConfirmJoin(ApplyWifiSsid(h, obs.ap))
  <2>1. ApplyWifiSsid(h, obs.ap) = h
    BY <1>3 DEF ApplyWifiSsid
  <2>2. g \in Hud /\ g.hold = h.hold /\ g.live = NoSsid
    BY <1>1, <2>1, MaybeConfirmJoinType
  <2> HIDE DEF g
  <2>3. FinishLink(h, obs) \in {g, [g EXCEPT !.want = @ \union {"info"}]}
    BY DEF FinishLink, g
  <2> QED BY <2>2, <2>3 DEF Hud
<1>4. FinishScan(h, obs, NoSsid).hold = h.hold /\ FinishScan(h, obs, NoSsid).live = NoSsid
  <2> DEFINE g == ParseScan(h, obs.list, obs.ap, NoSsid)
  <2>1. NoSsid \in SsidsOrNone
    BY DEF SsidsOrNone
  <2>2. g \in Hud /\ g.hold = h.hold /\ g.live = NoSsid
    BY <2>1, ParseScanType, ParseScanKeeps
  <2> HIDE DEF g
  <2> QED BY <1>1, <2>2 DEF FinishScan, g
<1>5. FinishRadio(h).hold = h.hold /\ FinishRadio(h).live = NoSsid
  BY DEF FinishRadio, Hud
<1> QED BY <1>2, <1>3, <1>4, <1>5

LEMMA LeftInvPoll ==
  /\ TypeOK /\ IndInv /\ LeftInv /\ left # NoSsid
  /\ PollJob
  => hud'.hold = left /\ hud'.live = NoSsid /\ ~hud'.job.exited
<1> SUFFICES ASSUME TypeOK, IndInv, LeftInv, left # NoSsid, PollJob
             PROVE  hud'.hold = left /\ hud'.live = NoSsid /\ ~hud'.job.exited
  OBVIOUS
<1> USE DEF TypeOK, IndInv
<1> PICK up \in LaunchSets, first \in FirstRows(hud) :
       hud' = KickPending(FinishJob(CloseJob(hud), hud.job, first, up), up)
  BY DEF PollJob
<1> DEFINE h == CloseJob(hud)
           obs == hud.job.obs
           r == FinishJob(h, hud.job, first, up)
<1>1. first \in SsidsOrNone /\ JobRunning(hud) /\ hud.job.exited
  BY FirstRowsType DEF PollJob
<1>2. r \in Hud /\ obs \in Obs /\ hud.job.kind \in Kinds
  BY <1>1, FinishJobMid DEF Hud, Job, JobRunning
<1>3. /\ ~hud.connecting /\ hud.job.kind # "connect" /\ "connect" \notin hud.want
      /\ ~JoinWait(hud)
      /\ hud.job.kind = "info" => obs.nm # "down"
      /\ hud.job.kind \in {"link", "scan"} => obs.ap = left
  BY <1>1 DEF LeftInv, Inv, SlotInv, QueueInv, SheetInv
<1>4. /\ h \in Hud /\ h.job = NoJob /\ h.want = hud.want /\ ~JoinWait(h)
      /\ h.hold = left /\ h.live = NoSsid
  BY <1>3, CloseJobType DEF CloseJob, Hud, LeftInv, JoinWait
<1>5. hud.job.kind = "scan" => first = NoSsid
  BY <1>3, WifiAssumption DEF FirstRows, LeftInv, Hud, Job, Obs
<1>6. hud' = KickPending(r, up)
  OBVIOUS
<1> HIDE DEF h, obs
<1>7. r.hold = left /\ r.live = NoSsid /\ r.job = NoJob /\ "connect" \notin r.want
  <2>1. CASE hud.job.kind = "forget"
    <3>1. r = FinishForget(h, obs)
      BY <2>1 DEF FinishJob, obs
    <3> HIDE DEF r
    <3> QED BY <1>3, <1>4, <3>1, FinishForgetKeeps
  <2>2. CASE hud.job.kind = "radio"
    <3>1. r = FinishRadio(h)
      BY <2>2 DEF FinishJob
    <3> HIDE DEF r
    <3> QED BY <1>1, <1>2, <1>3, <1>4, <3>1, HeldAnswers, FinishQueryKeeps
  <2>3. CASE hud.job.kind = "info"
    <3>1. r = FinishInfo(h, obs)
      BY <2>3 DEF FinishJob, obs
    <3> HIDE DEF r
    <3> QED BY <1>1, <1>2, <1>3, <1>4, <2>3, <3>1, HeldAnswers, FinishQueryKeeps
  <2>4. CASE hud.job.kind = "link"
    <3>1. r = FinishLink(h, obs)
      BY <2>4 DEF FinishJob, obs
    <3> HIDE DEF r
    <3> QED BY <1>1, <1>2, <1>3, <1>4, <2>4, <3>1, HeldAnswers, FinishQueryKeeps
  <2>5. CASE hud.job.kind = "scan"
    <3>1. r = FinishScan(h, obs, first)
      BY <2>5 DEF FinishJob, obs
    <3> HIDE DEF r
    <3> QED BY <1>1, <1>2, <1>3, <1>4, <1>5, <2>5, <3>1, HeldAnswers, FinishQueryKeeps
  <2> QED BY <1>2, <1>3, <2>1, <2>2, <2>3, <2>4, <2>5 DEF Kinds
<1>8. ~NoJob.exited
  BY DEF NoJob
<1> HIDE DEF r
<1> QED BY <1>2, <1>6, <1>7, <1>8, KickPendingKeeps DEF SameJoin

LEMMA LeftInvStep ==
  /\ TypeOK /\ IndInv /\ RadioInv /\ LeftInv
  /\ HistNext
  => LeftInv'
<1> SUFFICES ASSUME TypeOK, IndInv, RadioInv, LeftInv, HistNext, left' # NoSsid
             PROVE  LeftInv'
  BY DEF LeftInv
<1> USE DEF TypeOK
<1>1. CASE TapForget
  <2>1. /\ ~hud'.connecting /\ ~hud'.job.exited /\ hud'.hold # NoSsid /\ radio' = radio
        /\ hud.live \in {hud'.hold, NoSsid} => hud'.live = NoSsid
    BY <1>1, TapForgetKeeps
  <2>2. /\ radio.ap = hud'.hold /\ hud.live \in {hud'.hold, NoSsid} /\ left' = hud'.hold
    BY <1>1 DEF HistNext, HistStep
  <2> QED BY <2>1, <2>2 DEF LeftInv
<1>2. CASE ~TapForget
  <2>1. /\ left' = left /\ radio'.ap = left /\ ~(hud'.connecting /\ ~hud.connecting)
    BY <1>2 DEF HistNext, HistStep
  <2>2. /\ ~hud.connecting /\ ~hud'.connecting /\ ~JoinWait(hud) /\ "connect" \notin hud.want
        /\ hud.hold = left /\ hud.live = NoSsid /\ radio.ap = left /\ left # NoSsid
        /\ hud.job.kind # "connect" /\ radio.nm # "down"
    BY <2>1 DEF LeftInv, RadioInv, IndInv, Inv, SheetInv, QueueInv, SlotInv
  <2>3. ~JoinBegins
    BY <2>2 DEF JoinBegins
  <2> DEFINE Kept == /\ hud'.hold = left /\ hud'.live = NoSsid
                     /\ hud'.job = hud.job \/ ~hud'.job.exited
  <2>4. Kept => LeftInv'
    BY <2>1, <2>2 DEF LeftInv
  <2>5. CASE PollJob
    BY <2>2, <2>4, <2>5, LeftInvPoll
  <2>6. CASE ConfirmTick
    <3>1. Kept
      BY <2>2, <2>6, MaybeConfirmJoinKeeps DEF ConfirmTick
    <3> QED BY <2>4, <3>1
  <2>7. CASE KickTick
    <3>1. Kept
      BY <2>2, <2>7, KickPendingKeeps DEF KickTick, SameJoin
    <3> QED BY <2>4, <3>1
  <2>8. CASE Untouched
    <3>1. Kept
      BY <2>2, <2>8 DEF Untouched, SlotKept
    <3> QED BY <2>4, <3>1
  <2>9. CASE JobExit
    <3>1. PICK obs : /\ Exit(obs)
                     /\ hud.job.kind = "info" => obs.nm # "down"
                     /\ hud.job.kind \in {"link", "scan"} => obs.ap = radio.ap
      <4>1. CASE InfoExit
        <5>1. [NoObs EXCEPT !.nm = radio.nm].nm = radio.nm
          BY DEF NoObs
        <5> QED BY <2>2, <4>1, <5>1 DEF InfoExit, QueryExit
      <4>2. CASE InfoError
        BY <4>2 DEF InfoError, QueryExit, NoObs
      <4>3. CASE ScanExit
        <5>1. PICK list \in ScanLists :
                QueryExit("scan", [NoObs EXCEPT !.list = list, !.ap = radio.ap])
          BY <4>3 DEF ScanExit
        <5>2. [NoObs EXCEPT !.list = list, !.ap = radio.ap].ap = radio.ap
          BY DEF NoObs
        <5> QED BY <5>1, <5>2 DEF QueryExit
      <4>4. CASE LinkExit
        <5>1. [NoObs EXCEPT !.ap = radio.ap].ap = radio.ap
          BY DEF NoObs
        <5> QED BY <4>4, <5>1 DEF LinkExit, QueryExit
      <4>5. CASE RadioExit \/ ForgetExit
        BY <4>5 DEF RadioExit, ForgetExit, QueryExit
      <4> QED BY <2>2, <2>9, <4>1, <4>2, <4>3, <4>4, <4>5 DEF JobExit, ConnectExit
    <3>2. /\ hud'.live = hud.live /\ hud'.hold = hud.hold
          /\ hud'.job.kind = hud.job.kind /\ hud'.job.obs = obs
      BY <3>1, ExitKeeps
    <3> QED BY <2>1, <2>2, <3>1, <3>2 DEF LeftInv
  <2>10. CASE JoinOverdue
    BY <2>2, <2>10 DEF JoinOverdue, JoinWait
  <2> HIDE DEF Kept
  <2> QED
    BY <1>2, <2>3, <2>5, <2>6, <2>7, <2>8, <2>9, <2>10, OthersKeep, TapJoinBegins,
       TapSubmitKeeps
    DEF HistNext, Next, Loop, Taps, Outside, Others
<1> QED BY <1>1, <1>2

(* As long as the radio has not left a forgotten network, and the user     *)
(* joins no other, no late answer of nmcli or iw makes the HUD show it as  *)
(* connected again, whichever children fail to start.                      *)
THEOREM ForgottenHiddenWhileLeft == HistorySpec => []ForgottenStaysHidden
<1>1. Init /\ HistInit => RadioInv /\ LeftInv
  <2> SUFFICES ASSUME Init, HistInit PROVE RadioInv /\ LeftInv
    OBVIOUS
  <2>1. radio.ap # NoSsid => radio.nm # "down"
    BY DEF Init
  <2> QED BY <2>1 DEF HistInit, RadioInv, LeftInv
<1>2. TypeOK /\ IndInv /\ RadioInv /\ LeftInv /\ [HistNext]_histVars => RadioInv' /\ LeftInv'
  <2> SUFFICES ASSUME TypeOK, IndInv, RadioInv, LeftInv, [HistNext]_histVars
               PROVE  RadioInv' /\ LeftInv'
    OBVIOUS
  <2>1. CASE HistNext
    BY <2>1, RadioInvStep, LeftInvStep DEF HistNext
  <2>2. CASE UNCHANGED histVars
    BY <2>2 DEF histVars, RadioInv, LeftInv
  <2> QED BY <2>1, <2>2
<1>3. LeftInv => ForgottenStaysHidden
  BY DEF LeftInv, ForgottenStaysHidden, ApIsCurrent
<1> QED BY <1>1, <1>2, <1>3, HistoryIsHud, TypeCorrect, Invariance, PTL DEF HistorySpec
=============================================================================
