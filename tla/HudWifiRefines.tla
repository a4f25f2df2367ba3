--------------------------- MODULE HudWifiRefines ---------------------------
(***************************************************************************)
(* The HUD's Wi-Fi job engine implements WifiSession: seen from outside it *)
(* does one operation at a time, on one network.                           *)
(*                                                                         *)
(* Kept and Moved say what an operator of HudWifi does to the operation on *)
(* show; a handler is then a stutter or one step of the session.           *)
(***************************************************************************)
EXTENDS HudWifiProofs

(* The operation on show is the same.                                      *)
Kept(h, k) == Phase(k) = Phase(h) /\ Net(k) = Net(h)

(* A join on show ended: confirmed, or failed.                             *)
Ended(h, k) == /\ Phase(h) \in {"joining", "confirming"}
               /\ Phase(k) = "idle" /\ Net(k) = NoSsid

(* A step of the session from h to k, or none.                             *)
Moved(h, k) ==
  \/ Kept(h, k)
  \/ Ended(h, k)
  \/ Phase(h) = "idle" /\ Phase(k) = "joining" /\ Net(k) \in Ssids
  \/ Phase(h) = "joining" /\ Phase(k) = "confirming" /\ Net(k) = Net(h)
  \/ Phase(h) # "forgetting" /\ Phase(k) = "forgetting" /\ Net(k) \in Ssids
  \/ Phase(h) = "forgetting" /\ Phase(k) = "idle" /\ Net(k) = NoSsid

(* Moved is what the session may do.                                       *)
LEMMA MovedIsStep ==
  Moved(hud, hud') => [Session!Next]_<<SessionPhase, SessionNet>>
<1> SUFFICES ASSUME Moved(hud, hud')
             PROVE  [Session!Next]_<<SessionPhase, SessionNet>>
  OBVIOUS
<1>1. /\ SessionPhase = Phase(hud) /\ SessionNet = Net(hud)
      /\ SessionPhase' = Phase(hud') /\ SessionNet' = Net(hud')
  BY DEF SessionPhase, SessionNet
<1> QED
  BY <1>1 DEF Moved, Kept, Ended, Session!Next, Session!BeginJoin, Session!BeginConfirm,
              Session!EndJoin, Session!BeginForget, Session!EndForget

(* An operator that leaves these globals alone keeps the operation.        *)
LEMMA SameGlobals ==
  ASSUME NEW h, NEW k,
         k.forgetting = h.forgetting, k.wait = h.wait, k.connecting = h.connecting,
         k.target = h.target, k.hold = h.hold \/ ~h.forgetting
  PROVE  Kept(h, k)
BY DEF Kept, Phase, Net, JoinWait

(* wifi_info, wifi_scan and wifi_link touch the job slot and the queue.    *)
LEMMA StartOrQueueKept ==
  ASSUME NEW h \in Hud, NEW kind \in {"info", "scan", "link"}, NEW up
  PROVE  Kept(h, StartOrQueue(h, kind, up))
<1> DEFINE job == [NoJob EXCEPT !.kind = kind, !.ssid = NoSsid, !.pass = NoPass]
<1>1. StartOrQueue(h, kind, up) \in
        {h, [h EXCEPT !.job = job], [h EXCEPT !.want = @ \union {kind}]}
  BY DEF StartOrQueue, StartNmcli
<1> HIDE DEF job
<1> QED BY <1>1, SameGlobals DEF Hud

(* A join that is confirmed or has run out of time ends; any other is      *)
(* left as it is.                                                          *)
LEMMA MaybeConfirmJoinMoved ==
  ASSUME NEW h \in Hud, Inv(h)
  PROVE  Kept(h, MaybeConfirmJoin(h)) \/ Ended(h, MaybeConfirmJoin(h))
<1> DEFINE ok == [MarkApActive(h, h.target) EXCEPT
                    !.wait = "none", !.connecting = FALSE, !.busy = FALSE,
                    !.sheet = "NONE", !.want = @ \union {"scan"}]
           fail == [h EXCEPT !.wait = "none", !.connecting = FALSE, !.busy = FALSE,
                             !.sheet = IF @ = "NONE" THEN "DETAIL" ELSE @]
<1>1. CASE ~JoinWait(h)
  BY <1>1 DEF MaybeConfirmJoin, Kept
<1>2. CASE JoinWait(h)
  <2>1. ~h.forgetting
    BY <1>2 DEF Inv, SheetInv, ForgetInv
  <2>2. Ended(h, ok)
    BY <1>2, <2>1 DEF MarkApActive, Hud, Ended, Phase, Net, JoinWait
  <2>3. Ended(h, fail)
    BY <1>2, <2>1 DEF Hud, Ended, Phase, Net, JoinWait
  <2>4. MaybeConfirmJoin(h) \in {h, ok, fail}
    BY DEF MaybeConfirmJoin
  <2> QED BY <2>2, <2>3, <2>4 DEF Kept
<1> QED BY <1>1, <1>2

(* wifi_connect from any state without a join or a forget job.             *)
LEMMA WifiConnectJoins ==
  ASSUME NEW h \in Hud, NEW ssid \in SsidsOrNone, NEW pass \in PassOrNone, NEW up,
         h.job.kind \notin {"connect", "forget"}, ~h.forgetting
  PROVE  /\ Phase(WifiConnect(h, ssid, pass, up)) = "joining"
         /\ Net(WifiConnect(h, ssid, pass, up)) = ssid
<1> DEFINE g == [h EXCEPT !.hold = NoSsid, !.connecting = TRUE, !.wait = "none",
                          !.busy = TRUE, !.target = ssid]
           k == AbortJob(g)
           job == [NoJob EXCEPT !.kind = "connect", !.ssid = ssid, !.pass = pass]
<1>1. g.job.kind # "connect"
  BY DEF Hud
<1>2. /\ k.job.kind = "none" /\ k.connecting /\ k.wait = "none" /\ k.target = ssid
      /\ ~k.forgetting /\ k \in Hud
  <2>1. g \in Hud
    BY DEF Hud, SsidsOrNone
  <2>2. k \in Hud
    BY <2>1, CloseJobType DEF AbortJob
  <2> QED BY <2>2 DEF AbortJob, CloseJob, NoJob, Hud
<1>3. WifiConnect(h, ssid, pass, up) = StartNmcli(k, "connect", ssid, pass, up)
  BY <1>1, <1>2 DEF WifiConnect, JobRunning
<1> HIDE DEF k, job
<1>4. StartNmcli(k, "connect", ssid, pass, up) \in {k, [k EXCEPT !.job = job]}
  BY DEF StartNmcli, job
<1> QED BY <1>2, <1>3, <1>4 DEF Hud, Phase, Net, JoinWait

(* kick_pending keeps the operation on show, unless it starts the queued   *)
(* join, which is one for the same network.                                *)
LEMMA KickPendingMoves ==
  ASSUME NEW h \in Hud, Mid(h), NEW up
  PROVE  \/ Kept(h, KickPending(h, up))
         \/ /\ "connect" \in h.want /\ ~JobRunning(h)
            /\ Phase(KickPending(h, up)) = "joining"
            /\ Net(KickPending(h, up)) = h.target
<1> DEFINE without(w) == [h EXCEPT !.want = @ \ {w}]
<1>1. \A w \in Wants : without(w) \in Hud
  BY DEF Hud
<1>2. CASE JobRunning(h)
  BY <1>2 DEF KickPending, Kept
<1>3. CASE ~JobRunning(h) /\ "connect" \in h.want
  <2> DEFINE g == without("connect")
  <2>1. g \in Hud
    BY <1>1 DEF Wants
  <2>2. /\ g.job.kind \notin {"connect", "forget"} /\ ~g.forgetting
        /\ h.pendSsid = h.target
        /\ h.pendSsid \in SsidsOrNone /\ h.pendPass \in PassOrNone
    BY <1>3 DEF Hud, Mid, JobRunning, ForgetInv
  <2> HIDE DEF g
  <2>3. /\ Phase(WifiConnect(g, h.pendSsid, h.pendPass, up)) = "joining"
        /\ Net(WifiConnect(g, h.pendSsid, h.pendPass, up)) = h.target
    BY <2>1, <2>2, WifiConnectJoins
  <2> QED BY <1>3, <2>3 DEF KickPending, g
<1>4. CASE ~JobRunning(h) /\ "connect" \notin h.want
  <2>1. ASSUME NEW w \in {"info", "scan", "link"}
        PROVE  Kept(h, StartOrQueue(without(w), w, up))
    <3>1. without(w) \in Hud
      BY <1>1 DEF Wants
    <3>2. Kept(h, without(w))
      BY SameGlobals DEF Hud
    <3> HIDE DEF without
    <3> QED BY <3>1, <3>2, StartOrQueueKept DEF Kept
  <2>2. Kept(h, h)
    BY DEF Kept
  <2>3. Kept(h, StartOrQueue(without("info"), "info", up))
    BY <2>1
  <2>4. Kept(h, StartOrQueue(without("scan"), "scan", up))
    BY <2>1
  <2>5. Kept(h, StartOrQueue(without("link"), "link", up))
    BY <2>1
  <2> QED BY <1>4, <2>2, <2>3, <2>4, <2>5 DEF KickPending
<1> QED BY <1>2, <1>3, <1>4

(* A query that finished ends at most a join that was being confirmed.     *)
LEMMA FinishQueryMoves ==
  ASSUME NEW h \in Hud, Quiet(h), NEW obs \in Obs, NEW first \in SsidsOrNone,
         NEW k \in {FinishInfo(h, obs), FinishScan(h, obs, first),
                    FinishLink(h, obs), FinishRadio(h)}
  PROVE  Kept(h, k) \/ Ended(h, k)
<1> obs.list \in SUBSET Ssids /\ obs.ap \in SsidsOrNone
  BY DEF Obs
<1>1. ASSUME NEW g \in Hud, NEW ssid \in SsidsOrNone, ~g.forgetting
      PROVE  Kept(g, ApplyWifiSsid(g, ssid))
  <2>1. ApplyWifiSsid(g, ssid) \in
          {g, [g EXCEPT !.hold = NoSsid], [g EXCEPT !.hold = NoSsid, !.live = ssid]}
    BY DEF ApplyWifiSsid
  <2>2. /\ Kept(g, g)
        /\ Kept(g, [g EXCEPT !.hold = NoSsid])
        /\ Kept(g, [g EXCEPT !.hold = NoSsid, !.live = ssid])
    BY <1>1 DEF Hud, Kept, Phase, Net, JoinWait
  <2> QED BY <2>1, <2>2
<1>2. ~h.forgetting
  BY DEF Quiet, Inv, ForgetInv
<1>3. ASSUME NEW g \in Hud, Quiet(g), Kept(h, g)
      PROVE  \/ Kept(h, MaybeConfirmJoin(g))
             \/ Ended(h, MaybeConfirmJoin(g))
  BY <1>3, MaybeConfirmJoinMoved DEF Quiet, Kept, Ended
<1>4. CASE k = FinishInfo(h, obs)
  <2> DEFINE g == ParseInfo(h, obs.nm)
             l == [g EXCEPT !.want = @ \union {"link"}]
  <2>1. g \in Hud /\ Quiet(g)
    BY ParseInfoType, ParseInfoQuiet
  <2>2. Kept(h, g) /\ ~g.forgetting
    <3> DEFINE e == [h EXCEPT !.connected = (obs.nm = "up"), !.busy = (obs.nm = "busy")]
    <3>1. g \in {h, e, [ClearLive(e) EXCEPT !.busy = FALSE], [e EXCEPT !.hold = NoSsid]}
      BY DEF ParseInfo
    <3> DEFINE Same(x) == /\ x.forgetting = h.forgetting /\ x.connecting = h.connecting
                          /\ x.wait = h.wait /\ x.target = h.target
    <3>2. Same(h) /\ Same(e) /\ Same([e EXCEPT !.hold = NoSsid])
      BY DEF Hud
    <3>3. Same([ClearLive(e) EXCEPT !.busy = FALSE])
      BY DEF ClearLive, Hud
    <3>4. Same(g)
      BY <3>1, <3>2, <3>3
    <3> HIDE DEF g, e
    <3> QED BY <1>2, <3>4 DEF Kept, Phase, Net, JoinWait
  <2> HIDE DEF g
  <2>3. l \in Hud /\ Quiet(l) /\ Kept(h, l)
    <3>1. l \in Hud
      BY <2>1 DEF Hud, Wants
    <3>2. Quiet(l)
      BY <2>1, WantQuiet
    <3>3. Kept(g, l)
      BY <2>1, SameGlobals DEF Hud
    <3> QED BY <2>2, <3>1, <3>2, <3>3 DEF Kept
  <2>4. k = MaybeConfirmJoin(g) \/ k = MaybeConfirmJoin(l)
    BY <1>4 DEF FinishInfo, g
  <2> HIDE DEF l
  <2> QED BY <1>3, <2>1, <2>2, <2>3, <2>4
<1>5. CASE k = FinishScan(h, obs, first)
  <2> DEFINE act == IF obs.ap \in obs.list /\ obs.ap # h.hold THEN obs.ap ELSE NoSsid
             e == [h EXCEPT !.seen = obs.list, !.active = act]
             g == ParseScan(h, obs.list, obs.ap, first)
  <2>1. g \in Hud /\ Quiet(g)
    BY ParseScanType, ParseScanQuiet
  <2>2. e \in Hud /\ Kept(h, e) /\ ~e.forgetting
    <3>1. act \in SsidsOrNone
      BY DEF SsidsOrNone
    <3> HIDE DEF act
    <3> QED BY <1>2, <3>1 DEF Hud, Kept, Phase, Net, JoinWait
  <2>3. g \in {e, ApplyWifiSsid(e, first)}
    BY DEF ParseScan
  <2> HIDE DEF e, g
  <2>5. Kept(e, ApplyWifiSsid(e, first))
    BY <1>1, <2>2
  <2>6. Kept(h, g)
    BY <2>2, <2>3, <2>5 DEF Kept
  <2> QED BY <1>3, <1>5, <2>1, <2>6 DEF FinishScan, g
<1>6. CASE k = FinishLink(h, obs)
  <2> DEFINE f == ApplyWifiSsid(h, obs.ap)
             g == MaybeConfirmJoin(f)
  <2>1. f \in Hud /\ Quiet(f) /\ Kept(h, f)
    BY <1>1, <1>2, ApplyWifiSsidType, ApplyWifiSsidQuiet
  <2> HIDE DEF f
  <2>2. g \in Hud /\ (Kept(h, g) \/ Ended(h, g))
    BY <1>3, <2>1, MaybeConfirmJoinType
  <2> HIDE DEF g
  <2>3. Kept(g, [g EXCEPT !.want = @ \union {"info"}])
    BY <2>2, SameGlobals DEF Hud
  <2>4. k \in {g, [g EXCEPT !.want = @ \union {"info"}]}
    BY <1>6 DEF FinishLink, f, g
  <2> QED BY <2>2, <2>3, <2>4 DEF Kept, Ended
<1>7. CASE k = FinishRadio(h)
  BY <1>7, SameGlobals DEF FinishRadio, Hud
<1> QED BY <1>4, <1>5, <1>6, <1>7

(* What a finished join leads to; the target stays.                        *)
LEMMA FinishConnectMoves ==
  ASSUME NEW h \in Hud, Quiet(h), h.connecting, ~JoinWait(h), NEW obs, NEW up,
         NEW k, k = FinishConnect(h, obs, up)
  PROVE  /\ k.target = h.target
         /\ \/ Phase(k) = "joining" /\ Net(k) = h.target
            \/ Phase(k) = "confirming" /\ Net(k) = h.target
            \/ Phase(k) = "idle" /\ Net(k) = NoSsid
<1> DEFINE act == OnConnectJob(ConnectIn(h, obs))
           idle == JoinOver(h)
<1>1. act \in ConnectActs
  BY OnConnectJobActs
<1>2. /\ idle \in Hud /\ ~idle.connecting /\ ~idle.forgetting /\ idle.wait = "none"
      /\ idle.target = h.target /\ idle.target # NoSsid /\ idle.target \in SsidsOrNone
      /\ idle.job.kind = "none" /\ idle.sheet # "NONE"
      /\ idle.hold # NoSsid => idle.live # idle.hold
      /\ idle.target \notin Enterprise
      /\ "connect" \in idle.want => idle.pendSsid = idle.target
  BY DEF JoinOver, Hud, Quiet, Inv, QueueInv, ForgetInv, SheetInv, HoldInv, TargetInv, JoinWait
<1>3. k = CASE act = "SUCCESS"      -> JoinSucceeded(idle)
            [] act = "RETRY_PSK"    -> JoinRetryPsk(idle, up)
            [] act = "WRONG_PASS"   -> AskPassword(ForgetPsk(idle, idle.target))
            [] act = "OPEN_PASS"    -> AskPassword(idle)
            [] act = "WAIT_PENDING" -> idle
            [] act = "FAIL"         -> JoinFailed(idle)
  BY DEF FinishConnect
<1> HIDE DEF act, idle
<1>4. CASE act = "SUCCESS"
  <2> DEFINE dropped == IF DropPending(TRUE, idle.target, idle.pendSsid)
                        THEN {"connect"} ELSE {}
             want == (idle.want \ dropped) \union {"info", "link"}
             sheet == IF idle.sheet = "PASS" THEN "DETAIL" ELSE idle.sheet
             g == [idle EXCEPT !.wait = "fresh", !.connecting = TRUE, !.busy = TRUE,
                               !.want = want, !.sheet = sheet]
  <2>1. "connect" \notin want /\ want \in SUBSET Wants
    BY <1>2 DEF DropPending, SsidEq, Hud, Wants
  <2>2. sheet \in Sheets \ {"NONE", "PASS"}
    BY <1>2 DEF Hud, Sheets
  <2>3. k = MaybeConfirmJoin(g)
    BY <1>3, <1>4 DEF JoinSucceeded
  <2> HIDE DEF want, sheet
  <2>4. g \in Hud
    BY <1>2, <2>1, <2>2 DEF Hud
  <2>5. Inv(g)
    BY <1>2, <2>1, <2>2
    DEF Hud, Inv, SlotInv, QueueInv, ForgetInv, SheetInv, HoldInv, TargetInv, JoinWait
  <2>6. Phase(g) = "confirming" /\ Net(g) = h.target /\ g.target = h.target
    BY <1>2 DEF Hud, Phase, Net, JoinWait
  <2> HIDE DEF g
  <2>7. MaybeConfirmJoin(g).target = g.target
    BY <2>4 DEF MaybeConfirmJoin, MarkApActive, Hud
  <2> QED BY <2>3, <2>4, <2>5, <2>6, <2>7, MaybeConfirmJoinMoved DEF Kept, Ended
<1>5. CASE act = "RETRY_PSK"
  <2> DEFINE g == [idle EXCEPT !.want = @ \ {"connect"}]
             pass == idle.knownPsk
  <2>1. g \in Hud /\ pass \in PassOrNone
    BY <1>2 DEF Hud
  <2>2. g.job.kind = "none" /\ ~g.forgetting
    BY <1>2 DEF Hud
  <2>3. k \in {WifiConnect(idle, h.target, pass, up), WifiConnect(g, h.target, pass, up)}
    BY <1>2, <1>3, <1>5 DEF JoinRetryPsk
  <2> HIDE DEF g, pass
  <2>4. ASSUME NEW e \in Hud, e.job.kind = "none"
        PROVE  WifiConnect(e, h.target, pass, up).target = h.target
    <3> DEFINE w == [e EXCEPT !.hold = NoSsid, !.connecting = TRUE, !.wait = "none",
                              !.busy = TRUE, !.target = h.target]
               c == AbortJob(w)
               job == [NoJob EXCEPT !.kind = "connect", !.ssid = h.target, !.pass = pass]
    <3>1. w \in Hud /\ w.job.kind = "none" /\ w.target = h.target
      <4> DEFINE t == h.target
      <4>1. t \in SsidsOrNone /\ NoSsid \in SsidsOrNone
        BY <1>2 DEF SsidsOrNone
      <4> HIDE DEF t
      <4> QED BY <2>4, <4>1 DEF Hud, t
    <3> HIDE DEF w
    <3>2. c \in Hud /\ c.job.kind = "none" /\ c.target = h.target
      <4>1. c \in Hud
        BY <3>1, CloseJobType DEF AbortJob
      <4> QED BY <3>1, <4>1 DEF AbortJob, CloseJob, NoJob, Hud
    <3>3. WifiConnect(e, h.target, pass, up) \in {c, [c EXCEPT !.job = job]}
      BY <3>1, <3>2 DEF WifiConnect, JobRunning, StartNmcli, w
    <3> HIDE DEF c, job
    <3> QED BY <3>2, <3>3 DEF Hud
  <2> QED BY <1>2, <2>1, <2>2, <2>3, <2>4, WifiConnectJoins
<1>6. CASE act \in {"WRONG_PASS", "OPEN_PASS", "WAIT_PENDING", "FAIL"}
  <2>1. /\ k.target = h.target /\ ~k.forgetting /\ ~k.connecting /\ k.wait = "none"
    BY <1>2, <1>3, <1>6 DEF AskPassword, ForgetPsk, JoinFailed, Hud
  <2> QED BY <2>1 DEF Phase, Net, JoinWait
<1> QED BY <1>1, <1>4, <1>5, <1>6 DEF ConnectActs

(* poll_job on a forget always ends it.                                    *)
LEMMA FinishForgetMoves ==
  ASSUME NEW g \in Hud, Inv(g), g.job.kind = "forget", NEW obs
  PROVE  /\ Phase(FinishForget(CloseJob(g), obs)) = "idle"
         /\ Net(FinishForget(CloseJob(g), obs)) = NoSsid
         /\ "connect" \notin FinishForget(CloseJob(g), obs).want
<1> DEFINE h == CloseJob(g)
           k == FinishForget(h, obs)
           gone == IF h.hold # NoSsid THEN h.hold ELSE h.sel
           open == [h EXCEPT !.forgetting = FALSE]
           m == MarkApInactive(open, gone)
<1> DEFINE Over(l) == l.want = {} /\ ~l.connecting
<1>1. h \in Hud /\ Over(h)
  BY CloseJobType DEF CloseJob, Hud, Inv, ForgetInv
<1>2. Quiet(k)
  BY FinishForgetQuiet
<1> HIDE DEF h
<1>3. k \in Hud /\ k.want \subseteq {"info", "scan"} /\ ~k.connecting
  <2>1. open \in Hud /\ Over(open)
    BY <1>1 DEF Hud
  <2> HIDE DEF open
  <2>2. m \in Hud /\ Over(m)
    <3>1. m \in Hud
      BY <2>1, MarkApInactiveType
    <3>2. m.want = open.want /\ m.connecting = open.connecting
      BY <2>1 DEF MarkApInactive, Hud
    <3> QED BY <2>1, <3>1, <3>2
  <2> HIDE DEF m
  <2>3. ClearLive(m) \in Hud /\ Over(ClearLive(m))
    <3>1. ClearLive(m) \in Hud
      BY <2>2, ClearLiveType
    <3>2. ClearLive(m).want = m.want /\ ClearLive(m).connecting = m.connecting
      BY <2>2 DEF ClearLive, Hud
    <3> QED BY <2>2, <3>1, <3>2
  <2>4. ASSUME NEW l \in Hud, Over(l)
        PROVE  LET f == [ForgetPsk(l, l.sel) EXCEPT
                           !.sheet = "LIST", !.want = @ \union {"info", "scan"}]
               IN f \in Hud /\ f.want \subseteq {"info", "scan"} /\ ~f.connecting
    <3>1. ForgetPsk(l, l.sel) \in Hud /\ Over(ForgetPsk(l, l.sel))
      <4>1. l.sel \in SsidsOrNone /\ NoPass \in PassOrNone
        BY DEF Hud, PassOrNone
      <4>2. ForgetPsk(l, l.sel) \in Hud
        BY <4>1, PskType
      <4> QED BY <2>4, <4>2 DEF ForgetPsk, Hud
    <3> DEFINE f == ForgetPsk(l, l.sel)
    <3> HIDE DEF f
    <3> QED BY <3>1 DEF Hud, Sheets, Wants, f
  <2>5. CASE obs.rc = 0
    <3>1. \E l \in {m, ClearLive(m)} :
            k = [ForgetPsk(l, l.sel) EXCEPT !.sheet = "LIST",
                                            !.want = @ \union {"info", "scan"}]
      BY <2>5 DEF FinishForget, m, open
    <3> HIDE DEF k, Over
    <3> QED BY <2>2, <2>3, <2>4, <3>1
  <2>6. CASE obs.rc # 0
    <3>1. k = [h EXCEPT !.forgetting = FALSE, !.sheet = "DETAIL"]
      BY <2>6 DEF FinishForget
    <3> HIDE DEF k
    <3> QED BY <1>1, <3>1 DEF Hud, Sheets
  <2> QED BY <2>5, <2>6
<1> HIDE DEF k
<1>4. ~k.forgetting /\ ~JoinWait(k) /\ "connect" \notin k.want
  BY <1>2, <1>3 DEF Quiet, Inv, ForgetInv, SheetInv
<1> QED BY <1>3, <1>4 DEF Phase, Net, k, h

LEMMA PollJobMoves == TypeOK /\ IndInv /\ PollJob => Moved(hud, hud')
<1> SUFFICES ASSUME TypeOK, IndInv, PollJob PROVE Moved(hud, hud')
  OBVIOUS
<1> USE DEF TypeOK, IndInv
<1> PICK up \in LaunchSets, first \in FirstRows(hud) :
       hud' = KickPending(FinishJob(CloseJob(hud), hud.job, first, up), up)
  BY DEF PollJob
<1> DEFINE h == CloseJob(hud)
           k == FinishJob(h, hud.job, first, up)
<1>1. /\ first \in SsidsOrNone /\ JobRunning(hud)
      /\ hud.job.kind \in Kinds /\ hud.job.obs \in Obs
  BY FirstRowsType DEF PollJob, JobRunning, Hud, Job
<1>2. h \in Hud /\ Kept(hud, h) /\ h.connecting = hud.connecting /\ h.wait = hud.wait
      /\ h.target = hud.target
  BY CloseJobType DEF CloseJob, Hud, Kept, Phase, Net, JoinWait
<1>3. k \in Hud /\ Mid(k)
  BY <1>1, FinishJobMid
<1>4. CASE hud.job.kind = "connect"
  <2>1. Quiet(h) /\ h.connecting /\ ~JoinWait(h) /\ ~h.forgetting /\ h.target \in SsidsOrNone
    BY <1>2, <1>4, CloseJobQuiet DEF Inv, SlotInv, JoinWait, Quiet, ForgetInv, Hud
  <2>2. k = FinishConnect(h, hud.job.obs, up)
    BY <1>4 DEF FinishJob
  <2> HIDE DEF h, k
  <2>3. /\ k.target = h.target
        /\ \/ Phase(k) = "joining" /\ Net(k) = h.target
           \/ Phase(k) = "confirming" /\ Net(k) = h.target
           \/ Phase(k) = "idle" /\ Net(k) = NoSsid
    BY <1>2, <2>1, <2>2, FinishConnectMoves
  <2>4. Phase(hud) = "joining" /\ Net(hud) = h.target
    BY <1>2, <2>1 DEF Kept, Phase, Net
  <2>5. \/ Kept(k, hud')
        \/ Phase(hud') = "joining" /\ Net(hud') = k.target
    BY <1>3, KickPendingMoves DEF h, k
  <2> QED BY <2>3, <2>4, <2>5 DEF Moved, Kept, Ended
<1>5. CASE hud.job.kind = "forget"
  <2>1. k = FinishForget(h, hud.job.obs)
    BY <1>5 DEF FinishJob
  <2>2. Phase(k) = "idle" /\ Net(k) = NoSsid /\ "connect" \notin k.want
    BY <1>5, <2>1, FinishForgetMoves
  <2>3. Phase(hud) = "forgetting"
    BY <1>5 DEF Inv, ForgetInv, Phase
  <2> HIDE DEF k
  <2>4. Kept(k, hud')
    BY <1>3, <2>2, KickPendingMoves DEF k
  <2> QED BY <2>2, <2>3, <2>4 DEF Moved, Kept
<1>6. CASE hud.job.kind \in {"radio", "info", "scan", "link"}
  <2>1. Quiet(h)
    BY <1>6, CloseJobQuiet
  <2>2. k \in {FinishInfo(h, hud.job.obs), FinishScan(h, hud.job.obs, first),
               FinishLink(h, hud.job.obs), FinishRadio(h)}
    BY <1>6 DEF FinishJob
  <2>3. Kept(h, k) \/ Ended(h, k)
    BY <1>1, <1>2, <2>1, <2>2, FinishQueryMoves
  <2>4. Quiet(k)
    <3> HIDE DEF h
    <3> QED BY <1>1, <1>2, <2>1, <2>2, FinishQueryQuiet
  <2> HIDE DEF h, k
  <2>5. "connect" \in k.want => Phase(k) = "joining" /\ Net(k) = k.target
    BY <2>4 DEF Quiet, Inv, QueueInv, ForgetInv, Phase, Net
  <2>6. Kept(k, hud')
    BY <1>3, <2>5, KickPendingMoves DEF h, k, Kept
  <2> QED BY <1>2, <2>3, <2>6 DEF Moved, Kept, Ended
<1> QED BY <1>1, <1>4, <1>5, <1>6 DEF Kinds

LEMMA LoopMoves == TypeOK /\ IndInv /\ Loop => Moved(hud, hud')
<1> SUFFICES ASSUME TypeOK, IndInv, Loop PROVE Moved(hud, hud')
  OBVIOUS
<1> USE DEF TypeOK, IndInv
<1>1. CASE PollJob
  BY <1>1, PollJobMoves
<1>2. CASE ConfirmTick
  BY <1>2, MaybeConfirmJoinMoved DEF ConfirmTick, Moved
<1>3. CASE KickTick
  <2>1. PICK up : hud' = KickPending(hud, up)
    BY <1>3 DEF KickTick
  <2>2. "connect" \in hud.want => Phase(hud) = "joining" /\ Net(hud) = hud.target
    BY DEF Inv, QueueInv, ForgetInv, Phase, Net
  <2> QED BY <2>1, <2>2, InvIsMid, KickPendingMoves DEF Moved, Kept
<1>4. CASE PeriodicScan \/ PeriodicInfo
  <2>1. PICK kind \in {"info", "scan"} : Periodic(kind)
    BY <1>4 DEF PeriodicScan, PeriodicInfo
  <2> QED BY <2>1, StartOrQueueKept DEF Periodic, Moved
<1> QED BY <1>1, <1>2, <1>3, <1>4 DEF Loop

LEMMA TapsMoves == TypeOK /\ IndInv /\ Taps => Moved(hud, hud')
<1> SUFFICES ASSUME TypeOK, IndInv, Taps PROVE Moved(hud, hud')
  OBVIOUS
<1> USE DEF TypeOK, IndInv
<1>1. CASE TapHomeCard
  <2> DEFINE g == [hud EXCEPT !.sheet = "LIST"]
  <2>1. g \in Hud /\ Kept(hud, g)
    BY SameGlobals DEF Hud, Sheets
  <2> HIDE DEF g
  <2>2. \A up : Kept(hud, StartOrQueue(g, "scan", up))
    BY <2>1, StartOrQueueKept DEF Kept
  <2> QED BY <1>1, <2>1, <2>2 DEF TapHomeCard, Moved, g
<1>2. CASE TapRefresh
  BY <1>2, StartOrQueueKept DEF TapRefresh, Moved
<1>3. CASE TapListClose \/ TapDetailBack \/ TapCancel \/ \E s \in Ssids : TapRow(s)
  <2>1. PICK sheet, sel : hud' = [hud EXCEPT !.sel = sel, !.sheet = sheet]
    <3>1. [hud EXCEPT !.sel = @] = hud
      BY DEF Hud
    <3>2. CASE TapListClose
      BY <3>1, <3>2 DEF TapListClose
    <3>3. CASE TapDetailBack
      BY <3>1, <3>3 DEF TapDetailBack
    <3>4. CASE TapCancel
      BY <3>1, <3>4 DEF TapCancel
    <3>5. CASE \E s \in Ssids : TapRow(s)
      BY <3>5 DEF TapRow
    <3> QED BY <1>3, <3>2, <3>3, <3>4, <3>5
  <2>2. Kept(hud, hud')
    BY <2>1 DEF Hud, Kept, Phase, Net, JoinWait
  <2> QED BY <2>2 DEF Moved
<1>4. CASE TapJoin
  <2> DEFINE session == JoinUseSessionPsk(hud.sel, hud.knownSsid, hud.knownPsk)
             pass == IF session THEN hud.knownPsk ELSE NoPass
             g == [hud EXCEPT !.usedPass = session]
  <2>1. session \in BOOLEAN
    BY DEF JoinUseSessionPsk, SsidEq
  <2>2. pass \in PassOrNone /\ hud.sel \in SsidsOrNone
    BY DEF Hud, PassOrNone
  <2> HIDE DEF session, pass
  <2>3. ~hud.connecting /\ ~hud.forgetting /\ hud.sel # NoSsid
    BY <1>4 DEF TapJoin, AllowJoin
  <2>4. g \in Hud /\ g.job.kind \notin {"connect", "forget"} /\ ~g.forgetting
    BY <2>1, <2>3 DEF Hud, Inv, SlotInv, ForgetInv
  <2> HIDE DEF g
  <2>5. PICK up : hud' = WifiConnect(g, hud.sel, pass, up)
    BY <1>4 DEF TapJoin, g, pass, session
  <2>6. Phase(hud') = "joining" /\ Net(hud') = hud.sel
    BY <2>2, <2>4, <2>5, WifiConnectJoins
  <2>7. Phase(hud) = "idle"
    BY <2>3 DEF Inv, SheetInv, Phase
  <2> QED BY <2>2, <2>3, <2>6, <2>7 DEF Moved, SsidsOrNone
<1>5. CASE TapForget
  <2> DEFINE g == [hud EXCEPT !.wait = "none", !.connecting = FALSE, !.busy = FALSE,
                              !.want = {}, !.forgetting = TRUE]
             f == HoldForgotten(g, g.sel)
             m == AbortJob(f)
             Held(l) == /\ l.forgetting /\ ~l.connecting /\ l.wait = "none"
                        /\ l.hold \in Ssids
  <2>1. /\ g \in Hud /\ g.sel \in Ssids
        /\ g.forgetting /\ ~g.connecting /\ g.wait = "none"
    <3>1. hud.sel \in Ssids
      BY <1>5 DEF TapForget, Hud, SsidsOrNone
    <3>2. g \in Hud
      BY DEF Hud
    <3>3. g.sel = hud.sel /\ g.forgetting /\ ~g.connecting /\ g.wait = "none"
      BY DEF Hud
    <3> QED BY <3>1, <3>2, <3>3
  <2> HIDE DEF g
  <2>2. f \in Hud /\ Held(f)
    <3>1. f \in Hud
      BY <2>1, HoldForgottenType DEF SsidsOrNone
    <3> QED BY <2>1, <3>1 DEF HoldForgotten, MarkApInactive, ClearLive, Hud
  <2> HIDE DEF f
  <2>3. m \in Hud /\ Held(m) /\ m.job.kind = "none"
    <3>1. m \in Hud
      BY <2>2, CloseJobType DEF AbortJob
    <3> QED BY <2>2, <3>1 DEF AbortJob, CloseJob, NoJob, Hud
  <2> HIDE DEF m
  <2>4. CASE Phase(hud') = "idle" /\ Net(hud') = NoSsid
    <3>1. ~hud.forgetting
      BY <1>5 DEF TapForget, ForgetCanStart, JobRunning, Inv, ForgetInv
    <3>2. \/ Phase(hud) = "idle" /\ Net(hud) = NoSsid
          \/ Phase(hud) \in {"joining", "confirming"}
      BY <3>1 DEF Phase, Net
    <3> QED BY <2>4, <3>2 DEF Moved, Kept, Ended
  <2>5. PICK up : hud' = IF CanStart(m, "forget", up)
                         THEN StartNmcli(m, "forget", m.sel, NoPass, up)
                         ELSE [m EXCEPT !.forgetting = FALSE]
    BY <1>5 DEF TapForget, g, f, m
  <2>6. CASE CanStart(m, "forget", up)
    <3> DEFINE job == [NoJob EXCEPT !.kind = "forget", !.ssid = m.sel, !.pass = NoPass]
    <3>1. hud' = [m EXCEPT !.job = job]
      BY <2>5, <2>6 DEF StartNmcli
    <3> HIDE DEF job
    <3>2. Phase(hud') = "forgetting" /\ Net(hud') \in Ssids
      BY <2>3, <3>1 DEF Hud, Phase, Net
    <3>3. ~hud.forgetting
      BY <1>5 DEF TapForget, ForgetCanStart, JobRunning, Inv, ForgetInv
    <3> QED BY <3>2, <3>3 DEF Moved, Phase
  <2>7. CASE ~CanStart(m, "forget", up)
    <3>1. hud' = [m EXCEPT !.forgetting = FALSE]
      BY <2>5, <2>7
    <3>2. Phase(hud') = "idle" /\ Net(hud') = NoSsid
      BY <2>3, <3>1 DEF Hud, Phase, Net, JoinWait
    <3> QED BY <2>4, <3>2
  <2> QED BY <2>6, <2>7
<1>6. CASE \E p \in PassOrNone : TypePassword(p)
  BY <1>6, SameGlobals DEF TypePassword, Hud, Moved
<1>7. CASE TapSubmit
  <2> DEFINE ssid == PassSsid(hud.target, hud.sel)
             u == [hud EXCEPT !.usedPass = TRUE]
             g == RememberPsk(u, ssid, hud.typed)
  <2>1. /\ ssid \in Ssids /\ hud.typed \in PassOrNone /\ ~hud.forgetting
        /\ hud.sheet = "PASS"
    BY <1>7 DEF TapSubmit, OnSheet, PassSsid, Hud, SsidsOrNone
  <2> HIDE DEF ssid
  <2>2. g \in Hud /\ u \in Hud
    <3>1. u \in Hud
      BY DEF Hud
    <3> HIDE DEF u
    <3> QED BY <2>1, <3>1, PskType DEF SsidsOrNone
  <2>3. /\ g.job = hud.job /\ g.connecting = hud.connecting /\ g.wait = hud.wait
        /\ ~g.forgetting /\ g.target = hud.target
    BY <2>1 DEF RememberPsk, Hud
  <2> HIDE DEF g
  <2>4. CASE hud.connecting
    <3>1. hud' = [g EXCEPT !.pendSsid = ssid, !.pendPass = hud.typed,
                           !.want = @ \union {"connect"}]
      BY <1>7, <2>4 DEF TapSubmit, g, ssid
    <3>2. Kept(g, hud')
      BY <2>2, <3>1 DEF Hud, Kept, Phase, Net, JoinWait
    <3>3. Kept(hud, g)
      BY <2>1, <2>3 DEF Kept, Phase, Net, JoinWait
    <3> QED BY <3>2, <3>3 DEF Moved, Kept
  <2>5. CASE ~hud.connecting
    <3>1. PICK up : hud' = WifiConnect(g, ssid, hud.typed, up)
      BY <1>7, <2>5 DEF TapSubmit, g, ssid
    <3>2. g.job.kind \notin {"connect", "forget"}
      BY <2>1, <2>3, <2>5 DEF Inv, SlotInv, ForgetInv
    <3>3. Phase(hud') = "joining" /\ Net(hud') = ssid
      BY <2>1, <2>2, <2>3, <3>1, <3>2, WifiConnectJoins DEF SsidsOrNone
    <3>4. Phase(hud) = "idle"
      BY <2>1, <2>5 DEF Inv, SheetInv, Phase
    <3> QED BY <2>1, <3>3, <3>4 DEF Moved
  <2> QED BY <2>4, <2>5
<1> QED BY <1>1, <1>2, <1>3, <1>4, <1>5, <1>6, <1>7 DEF Taps

LEMMA OutsideMoves == TypeOK /\ IndInv /\ Outside => Moved(hud, hud')
<1> SUFFICES ASSUME TypeOK, IndInv, Outside PROVE Moved(hud, hud')
  OBVIOUS
<1> USE DEF TypeOK, IndInv
<1>1. CASE RadioStep
  BY <1>1 DEF RadioStep, Moved, Kept
<1>2. CASE JobExit
  <2>1. PICK obs : Exit(obs)
    BY <1>2 DEF JobExit, RadioExit, InfoExit, InfoError, ScanExit, LinkExit, QueryExit,
                ConnectExit, ForgetExit
  <2> DEFINE job == [hud.job EXCEPT !.exited = TRUE, !.obs = obs]
  <2>2. hud' = [hud EXCEPT !.job = job]
    BY <2>1 DEF Exit
  <2> HIDE DEF job
  <2> QED BY <2>2, SameGlobals DEF Hud, Moved
<1>3. CASE JoinOverdue
  BY <1>3 DEF JoinOverdue, Hud, Moved, Kept, Phase, Net, JoinWait
<1> QED BY <1>1, <1>2, <1>3 DEF Outside

LEMMA InitMoves == Init => Session!Init
<1> SUFFICES ASSUME Init PROVE Session!Init
  OBVIOUS
<1>1. ~hud.forgetting /\ ~hud.connecting /\ hud.wait = "none"
  BY DEF Init, StartNmcli
<1> QED BY <1>1 DEF Session!Init, SessionPhase, SessionNet, Phase, Net, JoinWait

LEMMA NextMoves ==
  TypeOK /\ IndInv /\ [Next]_vars => [Session!Next]_<<SessionPhase, SessionNet>>
<1> SUFFICES ASSUME TypeOK, IndInv, [Next]_vars PROVE Moved(hud, hud')
  BY MovedIsStep
<1>1. CASE PowerKey \/ IdleOff
  BY <1>1, SameGlobals DEF PowerKey, IdleOff, TypeOK, Hud, Moved
<1>2. CASE UNCHANGED vars
  BY <1>2 DEF vars, Moved, Kept
<1> QED BY <1>1, <1>2, LoopMoves, TapsMoves, OutsideMoves DEF Next

(* The HUD implements the session: one operation at a time, on one         *)
(* network, joined, then confirmed, and cut short only by a forget.        *)
THEOREM Implements == Spec => SessionSpec
<1>1. Spec => []IndInv
  BY InitInv, NextInv, TypeCorrect, PTL DEF Spec
<1> QED BY <1>1, InitMoves, NextMoves, TypeCorrect, PTL DEF Spec, SessionSpec, Session!Spec
=============================================================================
