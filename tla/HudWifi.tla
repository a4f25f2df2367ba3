------------------------------- MODULE HudWifi ------------------------------
(***************************************************************************)
(* The Wi-Fi half of the HUD, initramfs/gemini-status.c: the one-job       *)
(* engine that runs nmcli, iw and gemini-wifi-connect.sh as children, the  *)
(* handlers of the Wi-Fi sheets, the polling of job results, the join      *)
(* confirmation with its 12 s limit, and the forget hold.                  *)
(*                                                                         *)
(* The HUD is one thread: a handler runs to its end, so every handler is   *)
(* one step, built from operators that take the HUD's state to its next    *)
(* state, one per C function.  The children and the radio are concurrent:  *)
(* a job looks at the radio when it exits, and the HUD reads what it       *)
(* printed some time later.                                                *)
(*                                                                         *)
(* External (modelled from how gemini-status.c uses it): NetworkManager    *)
(* and the radio, and the exit of a child process.                         *)
(*                                                                         *)
(* Abstractions.  The sheet animation (sheet_t) is left out: a tap goes to *)
(* the sheet that sheet_tgt names.  Signal, IP and security rows, the      *)
(* status line and connect_fail (which only picks a text) are left out.    *)
(* An operator introduced by "Broken" is a faulty variant of the one after *)
(* it (see WifiFlow).                                                      *)
(***************************************************************************)
EXTENDS WifiFlow, Naturals

CONSTANTS
  Ssids,        \* the broadcast names around
  Passwords,    \* passwords of eight or more characters
  Enterprise,   \* the SSIDs whose SECURITY column says 802.1X / EAP
  SiblingOf,    \* <<l, s>>: the name l is the name s followed by "-..." or "_..."
  ScanLists,    \* the lists of names a scan may return
  LaunchSets    \* per handler, the job kinds that start_nmcli manages to start

Kinds   == {"radio", "info", "scan", "connect", "link", "forget"}
Sheets  == {"NONE", "LIST", "DETAIL", "PASS"}
Wants   == {"connect", "scan", "link", "info"}
NmState == {"down", "busy", "up"}
SsidsOrNone  == Ssids \union {NoSsid}
PassOrNone   == Passwords \union {NoPass}

ASSUME WifiAssumption ==
  /\ NoSsid \notin Ssids
  /\ NoPass \notin Passwords
  /\ Enterprise \subseteq Ssids
  /\ SiblingOf \subseteq {p \in Ssids \X Ssids : p[1] # p[2]}
  /\ ScanLists \subseteq SUBSET Ssids
  /\ LaunchSets \subseteq SUBSET Kinds

VARIABLES
  hud,    \* the globals of gemini-status.c
  radio   \* NetworkManager's device state and the AP the radio is on

vars == <<hud, radio>>

(***************************************************************************)
(* A job (job_pid, job_kind, job_out): what was started, and, once the     *)
(* child has exited, what it printed.  kind is "none" while job_pid is -1. *)
(***************************************************************************)
Obs == [rc: 0..3, says: SUBSET Marks, nm: NmState \union {"error"},
        ap: SsidsOrNone, list: SUBSET Ssids]

NoObs == [rc |-> 0, says |-> {}, nm |-> "error", ap |-> NoSsid, list |-> {}]

Job == [kind: Kinds \union {"none"}, ssid: SsidsOrNone, pass: PassOrNone,
        exited: BOOLEAN, obs: Obs]

NoJob == [kind |-> "none", ssid |-> NoSsid, pass |-> NoPass,
          exited |-> FALSE, obs |-> NoObs]

Hud == [job: Job,
        want: SUBSET Wants,              \* want_connect, want_scan, want_link, want_info
        pendSsid: SsidsOrNone,           \* pend_ssid
        pendPass: PassOrNone,            \* pend_pass
        connecting: BOOLEAN,
        wait: {"none", "fresh", "overdue"},  \* join_wait_live; 12 s since t_join_wait
        target: SsidsOrNone,             \* connect_ssid
        usedPass: BOOLEAN,               \* connect_need_pass
        knownSsid: SsidsOrNone,          \* known_psk_ssid
        knownPsk: PassOrNone,            \* known_psk
        forgetting: BOOLEAN,
        hold: SsidsOrNone,               \* forget_ssid
        connected: BOOLEAN,              \* wifi.connected
        busy: BOOLEAN,                   \* wifi.busy
        live: SsidsOrNone,               \* wifi.ssid
        seen: SUBSET Ssids,              \* aps[]
        active: SsidsOrNone,             \* the row of aps[] with active set
        sheet: Sheets,                   \* sheet_tgt
        sel: SsidsOrNone,                \* selected_ssid
        typed: PassOrNone,               \* password
        screenOff: BOOLEAN]

Radio == [nm: NmState, ap: SsidsOrNone]

TypeOK == hud \in Hud /\ radio \in Radio
-----------------------------------------------------------------------------
(* The job engine.  up is the set of kinds that can be started now: one is *)
(* missing when nmcli is not there or when pipe or fork fails.             *)

JobRunning(h) == h.job.kind # "none"

JoinWait(h) == h.wait # "none"

CanStart(h, kind, up) == ~JobRunning(h) /\ kind \in up

StartNmcli(h, kind, ssid, pass, up) ==
  IF CanStart(h, kind, up)
  THEN [h EXCEPT !.job = [NoJob EXCEPT !.kind = kind, !.ssid = ssid, !.pass = pass]]
  ELSE h

CloseJob(h) == [h EXCEPT !.job = NoJob]

(* SIGTERM to the process group, then waitpid: the job leaves no result.   *)
AbortJob(h) == CloseJob(h)

(* wifi_info, wifi_scan and wifi_link: start the job or queue it.          *)
StartOrQueue(h, kind, up) ==
  IF CanStart(h, kind, up) THEN StartNmcli(h, kind, NoSsid, NoPass, up)
                           ELSE [h EXCEPT !.want = @ \union {kind}]

WifiConnect(h, ssid, pass, up) ==
  LET g == [h EXCEPT !.hold = NoSsid, !.connecting = TRUE, !.wait = "none",
                     !.busy = TRUE, !.target = ssid]
      k == IF g.job.kind # "connect" THEN AbortJob(g) ELSE g
  IN IF ~JobRunning(k) THEN StartNmcli(k, "connect", ssid, pass, up)
     ELSE IF KeepPendingPsk(pass = NoPass, "connect" \in k.want,
                            k.pendSsid, k.pendPass, ssid) THEN k
     ELSE [k EXCEPT !.pendSsid = ssid, !.pendPass = pass,
                    !.want = @ \union {"connect"}]
-----------------------------------------------------------------------------
(* What the HUD shows as its network.                                      *)

ApIsCurrent(h, ssid) ==
  /\ ssid # h.hold
  /\ h.connected
  /\ SsidEq(h.live, ssid) \/ SsidEq(h.active, ssid)

(* Broken: connect_ssid outlives the join. *)
PickedSsidStale(h) == IF h.target # NoSsid THEN h.target ELSE h.sel

PickedSsid(h) == IF h.connecting /\ h.target # NoSsid THEN h.target ELSE h.sel

MarkApActive(h, ssid) ==
  [h EXCEPT !.active = IF ssid \in h.seen THEN ssid ELSE NoSsid]

MarkApInactive(h, ssid) ==
  [h EXCEPT !.active = IF @ = ssid THEN NoSsid ELSE @]

RememberPsk(h, ssid, pass) == [h EXCEPT !.knownSsid = ssid, !.knownPsk = pass]

ForgetPsk(h, ssid) ==
  IF SsidEq(h.knownSsid, ssid)
  THEN [h EXCEPT !.knownSsid = NoSsid, !.knownPsk = NoPass] ELSE h

(* Broken: the forget hold is released before it is looked at. *)
ApplyWifiSsidReleased(h, ssid) ==
  IF ssid = NoSsid THEN h ELSE [h EXCEPT !.hold = NoSsid, !.live = ssid]

(* apply_wifi_ssid: the name that iw or the scan list reports.  It drops a *)
(* sibling of the join target, the forgotten name, and the shorter sibling *)
(* of the name already shown.                                              *)
ApplyWifiSsid(h, ssid) ==
  IF \/ ssid = NoSsid
     \/ <<h.target, ssid>> \in SiblingOf \/ <<ssid, h.target>> \in SiblingOf
     \/ ssid = h.hold
  THEN h
  ELSE IF <<h.live, ssid>> \in SiblingOf THEN [h EXCEPT !.hold = NoSsid]
  ELSE [h EXCEPT !.hold = NoSsid, !.live = ssid]
-----------------------------------------------------------------------------
(* The confirmation of a join: wait for the target to be the live network, *)
(* for at most 12 s.                                                       *)

(* Broken: the join that timed out is still "connecting". *)
MaybeConfirmJoinHalf(h) ==
  IF JoinWait(h) /\ JoinConfirmFail(h.wait = "overdue", h.connected, h.live, h.target)
  THEN [h EXCEPT !.wait = "none", !.busy = FALSE]
  ELSE h

MaybeConfirmJoin(h) ==
  IF ~JoinWait(h) \/ h.target = NoSsid THEN h
  ELSE IF JoinConfirmOk(h.connected, h.live, h.target)
  THEN [MarkApActive(h, h.target) EXCEPT
          !.wait = "none", !.connecting = FALSE, !.busy = FALSE,
          !.sheet = "NONE", !.want = @ \union {"scan"}]
  ELSE IF JoinConfirmFail(h.wait = "overdue", h.connected, h.live, h.target)
  THEN [h EXCEPT !.wait = "none", !.connecting = FALSE, !.busy = FALSE,
                 !.sheet = IF @ = "NONE" THEN "DETAIL" ELSE @]
  ELSE h

(* kick_pending: a queued join first; the queries only with the screen on. *)
KickPending(h, up) ==
  LET without(w) == [h EXCEPT !.want = @ \ {w}]
  IN IF JobRunning(h) THEN h
     ELSE IF "connect" \in h.want
     THEN WifiConnect(without("connect"), h.pendSsid, h.pendPass, up)
     ELSE IF h.screenOff THEN h
     ELSE IF "scan" \in h.want THEN StartOrQueue(without("scan"), "scan", up)
     ELSE IF "link" \in h.want THEN StartOrQueue(without("link"), "link", up)
     ELSE IF "info" \in h.want THEN StartOrQueue(without("info"), "info", up)
     ELSE h
-----------------------------------------------------------------------------
(* The results of the query jobs.                                          *)

ClearLive(h) == [h EXCEPT !.connected = FALSE, !.live = NoSsid]

ParseInfo(h, nm) ==
  LET g == [h EXCEPT !.connected = (nm = "up"), !.busy = (nm = "busy")]
  IN IF nm = "error" THEN h
     ELSE IF ForgetHoldConnected(g.hold, g.connected, g.live)
     THEN [ClearLive(g) EXCEPT !.busy = FALSE]
     ELSE IF nm = "down" THEN [g EXCEPT !.hold = NoSsid]
     ELSE g

(* parse_scan with apply_active_ap: the first listed row that is active or *)
(* has the name already shown is applied.                                  *)
ParseScan(h, list, ap, first) ==
  LET g == [h EXCEPT !.seen = list,
                     !.active = IF ap \in list /\ ap # h.hold THEN ap ELSE NoSsid]
      rows == {s \in list : (s = g.active \/ s = g.live) /\ s # g.hold}
  IN IF first \in rows THEN ApplyWifiSsid(g, first) ELSE g

(* The rows a scan may list first.  The order of the list is nmcli's.      *)
FirstRows(h) ==
  LET rows == {s \in h.job.obs.list :
                 (s = h.job.obs.ap \/ s = h.live) /\ s # h.hold}
  IN IF rows = {} THEN {NoSsid} ELSE rows

(* Broken: the name is asked for only while a join is confirmed. *)
FinishInfoNoLink(h, obs) ==
  LET g == ParseInfo(h, obs.nm)
  IN MaybeConfirmJoin(IF JoinWait(g) THEN [g EXCEPT !.want = @ \union {"link"}] ELSE g)

FinishInfo(h, obs) ==
  LET g == ParseInfo(h, obs.nm)
  IN MaybeConfirmJoin(
       IF g.connected \/ g.busy \/ JoinWait(g)
       THEN [g EXCEPT !.want = @ \union {"link"}] ELSE g)

FinishScan(h, obs, first) ==
  MaybeConfirmJoin(ParseScan(h, obs.list, obs.ap, first))

(* Broken: nothing asks for the device state again. *)
FinishLinkNoInfo(h, obs) == MaybeConfirmJoin(ApplyWifiSsid(h, obs.ap))

FinishLink(h, obs) ==
  LET g == MaybeConfirmJoin(ApplyWifiSsid(h, obs.ap))
  IN IF JoinWait(g) THEN [g EXCEPT !.want = @ \union {"info"}] ELSE g

FinishRadio(h) == [h EXCEPT !.want = @ \union {"info", "scan"}]
-----------------------------------------------------------------------------
(* The result of a join job.                                               *)

ConnectIn(h, obs) ==
  [rc |-> obs.rc, says |-> obs.says,
   connected |-> h.connected, live |-> h.live, target |-> h.target,
   leftHome |-> h.sheet = "NONE",
   wantConnect |-> "connect" \in h.want,
   pendSsid |-> h.pendSsid, pendHasPass |-> h.pendPass # NoPass,
   usedPass |-> h.usedPass,
   haveSessionPsk |-> JoinUseSessionPsk(h.target, h.knownSsid, h.knownPsk)]

JoinSucceeded(h) ==
  LET dropped == IF DropPending(TRUE, h.target, h.pendSsid) THEN {"connect"} ELSE {}
  IN MaybeConfirmJoin(
       [h EXCEPT !.wait = "fresh",
                 !.connecting = TRUE, !.busy = TRUE,
                 !.want = (@ \ dropped) \union {"info", "link"},
                 !.sheet = IF @ = "PASS" THEN "DETAIL" ELSE @])

JoinRetryPsk(h, up) ==
  LET probe == SsidEq(h.pendSsid, h.target) /\ h.pendPass = NoPass
      g == IF probe THEN [h EXCEPT !.want = @ \ {"connect"}] ELSE h
  IN WifiConnect(g, h.target, h.knownPsk, up)

AskPassword(h) == [h EXCEPT !.sel = h.target, !.sheet = "PASS"]

JoinFailed(h) ==
  [h EXCEPT !.sheet = IF @ = "NONE" THEN @
                      ELSE IF h.usedPass THEN "PASS" ELSE "DETAIL"]

(* Broken: "connecting" is not reset. *)
JoinOverHalf(h) == [h EXCEPT !.busy = FALSE]

JoinOver(h) == [h EXCEPT !.connecting = FALSE, !.busy = FALSE]

FinishConnect(h, obs, up) ==
  LET act  == OnConnectJob(ConnectIn(h, obs))
      idle == JoinOver(h)
  IN CASE act = "SUCCESS"      -> JoinSucceeded(idle)
       [] act = "RETRY_PSK"    -> JoinRetryPsk(idle, up)
       [] act = "WRONG_PASS"   -> AskPassword(ForgetPsk(idle, idle.target))
       [] act = "OPEN_PASS"    -> AskPassword(idle)
       [] act = "WAIT_PENDING" -> idle
       [] act = "FAIL"         -> JoinFailed(idle)

(* The result of a forget job.                                             *)
FinishForget(h, obs) ==
  LET gone == IF h.hold # NoSsid THEN h.hold ELSE h.sel
      g == MarkApInactive([h EXCEPT !.forgetting = FALSE], gone)
      shown == \/ SsidEq(g.live, g.sel) \/ SsidEq(g.live, g.hold)
               \/ ForgetHoldConnected(g.hold, TRUE, g.live)
      k == IF shown THEN ClearLive(g) ELSE g
  IN IF obs.rc = 0
     THEN [ForgetPsk(k, k.sel) EXCEPT !.sheet = "LIST",
                                      !.want = @ \union {"info", "scan"}]
     ELSE [h EXCEPT !.forgetting = FALSE, !.sheet = "DETAIL"]
-----------------------------------------------------------------------------
(* Handlers of the main loop.                                              *)

(* poll_job: a job that has exited is reaped, its output read and acted    *)
(* on, and the pending work looked at.                                     *)
FinishJob(h, job, first, up) ==
  CASE job.kind = "radio"   -> FinishRadio(h)
    [] job.kind = "info"    -> FinishInfo(h, job.obs)
    [] job.kind = "scan"    -> FinishScan(h, job.obs, first)
    [] job.kind = "link"    -> FinishLink(h, job.obs)
    [] job.kind = "connect" -> FinishConnect(h, job.obs, up)
    [] job.kind = "forget"  -> FinishForget(h, job.obs)

PollJob ==
  /\ JobRunning(hud) /\ hud.job.exited
  /\ \E up \in LaunchSets, first \in FirstRows(hud) :
       hud' = KickPending(FinishJob(CloseJob(hud), hud.job, first, up), up)
  /\ UNCHANGED radio

(* The confirmation and the pending work are also looked at in every turn  *)
(* of the loop.                                                            *)
ConfirmTick == hud' = MaybeConfirmJoin(hud) /\ UNCHANGED radio

KickTick ==
  /\ \E up \in LaunchSets : hud' = KickPending(hud, up)
  /\ UNCHANGED radio

(* Every second the device state, every eight the list while it is open.   *)
Periodic(kind) ==
  /\ ~hud.screenOff /\ ~JobRunning(hud) /\ ~hud.connecting
  /\ \E up \in LaunchSets : hud' = StartOrQueue(hud, kind, up)
  /\ UNCHANGED radio

PeriodicScan == hud.sheet = "LIST" /\ Periodic("scan")

PeriodicInfo == Periodic("info")

(* 12 s have passed since the join script succeeded.                       *)
JoinOverdue ==
  /\ hud.wait = "fresh"
  /\ hud' = [hud EXCEPT !.wait = "overdue"]
  /\ UNCHANGED radio

(* The power key, the wake-up touch and the idle switch-off.               *)
PowerKey ==
  hud' = [hud EXCEPT !.screenOff = ~@] /\ UNCHANGED radio

IdleOff ==
  /\ ~hud.screenOff /\ ~hud.connecting /\ ~hud.busy /\ hud.sheet = "NONE"
  /\ hud' = [hud EXCEPT !.screenOff = TRUE]
  /\ UNCHANGED radio
-----------------------------------------------------------------------------
(* Taps.  With the screen off a touch only wakes it.                       *)

OnSheet(s) == ~hud.screenOff /\ hud.sheet = s /\ UNCHANGED radio

TapHomeCard ==
  /\ OnSheet("NONE")
  /\ hud.connected \/ ~(hud.connecting \/ hud.busy)
  /\ \E up \in LaunchSets :
       LET g == [hud EXCEPT !.sheet = "LIST"]
       IN hud' = IF hud.seen = {} THEN StartOrQueue(g, "scan", up) ELSE g

(* Broken: the list can be closed during a join. *)
TapListCloseAlways == OnSheet("LIST") /\ hud' = [hud EXCEPT !.sheet = "NONE"]

TapListClose ==
  /\ OnSheet("LIST")
  /\ ~hud.connecting
  /\ hud' = [hud EXCEPT !.sheet = "NONE"]

TapRefresh ==
  /\ OnSheet("LIST")
  /\ ~hud.connecting
  /\ \E up \in LaunchSets : hud' = StartOrQueue(hud, "scan", up)

TapRow(s) ==
  /\ OnSheet("LIST")
  /\ s \in hud.seen
  /\ hud' = [hud EXCEPT !.sel = s,
                        !.sheet = IF hud.connecting \/ hud.forgetting
                                  THEN @ ELSE "DETAIL"]

TapDetailBack ==
  /\ OnSheet("DETAIL")
  /\ ~hud.forgetting
  /\ hud' = [hud EXCEPT !.sheet = "LIST"]

(* wifi_join_picked                                                        *)
TapJoin ==
  /\ OnSheet("DETAIL")
  /\ hud.sel # NoSsid
  /\ AllowJoin(hud.connecting, hud.forgetting, ApIsCurrent(hud, hud.sel))
  /\ PickedSsid(hud) \notin Enterprise
  /\ LET session == JoinUseSessionPsk(hud.sel, hud.knownSsid, hud.knownPsk)
         pass == IF session THEN hud.knownPsk ELSE NoPass
     IN \E up \in LaunchSets :
          hud' = WifiConnect([hud EXCEPT !.usedPass = session], hud.sel, pass, up)

(* The forgotten network is held back from what the HUD shows.             *)
(* Broken: the name shown is left alone. *)
HoldForgottenHalf(h, ssid) == MarkApInactive([h EXCEPT !.hold = ssid], ssid)

HoldForgotten(h, ssid) ==
  LET g == MarkApInactive([h EXCEPT !.hold = ssid], ssid)
  IN IF SsidEq(g.live, ssid) THEN ClearLive(g) ELSE g

(* wifi_forget: whatever runs is aborted and nothing stays queued.         *)
TapForget ==
  /\ OnSheet("DETAIL")
  /\ hud.sel # NoSsid
  /\ ForgetCanStart(JobRunning(hud), hud.job.kind = "forget")
  /\ LET g == [hud EXCEPT !.wait = "none", !.connecting = FALSE, !.busy = FALSE,
                          !.want = {}, !.forgetting = TRUE]
         m == AbortJob(HoldForgotten(g, g.sel))
     IN \E up \in LaunchSets :
          hud' = IF CanStart(m, "forget", up)
                 THEN StartNmcli(m, "forget", m.sel, NoPass, up)
                 ELSE [m EXCEPT !.forgetting = FALSE]

TypePassword(p) ==
  /\ OnSheet("PASS")
  /\ hud' = [hud EXCEPT !.typed = p]

TapCancel ==
  /\ OnSheet("PASS")
  /\ hud' = [hud EXCEPT !.sheet = IF hud.sel # NoSsid THEN "DETAIL" ELSE "LIST"]

(* wifi_submit_pass: a password typed while a join runs waits for it.      *)
TapSubmit ==
  /\ OnSheet("PASS")
  /\ ~hud.forgetting
  /\ LET ssid == PassSsid(hud.target, hud.sel)
         g == RememberPsk([hud EXCEPT !.usedPass = TRUE], ssid, hud.typed)
     IN /\ ssid # NoSsid
        /\ PickedSsid(hud) \notin Enterprise
        /\ hud.typed # NoPass
        /\ \E up \in LaunchSets :
             hud' = IF hud.connecting
                    THEN [g EXCEPT !.pendSsid = ssid, !.pendPass = hud.typed,
                                   !.want = @ \union {"connect"}]
                    ELSE WifiConnect(g, ssid, hud.typed, up)
-----------------------------------------------------------------------------
(* The world outside the HUD.                                              *)

RadioStep ==
  /\ \/ radio' = [nm |-> "down", ap |-> NoSsid]
     \/ \E s \in Ssids : radio' = [nm |-> "busy", ap |-> s]
     \/ radio.nm = "busy" /\ radio' = [radio EXCEPT !.nm = "up"]
  /\ radio' # radio
  /\ UNCHANGED hud

Exit(obs) ==
  hud' = [hud EXCEPT !.job = [@ EXCEPT !.exited = TRUE, !.obs = obs]]

(* nmcli and iw report what the radio does when they run.                  *)
QueryExit(kind, obs) ==
  /\ hud.job.kind = kind /\ ~hud.job.exited
  /\ Exit(obs)
  /\ UNCHANGED radio

RadioExit == QueryExit("radio", NoObs)

InfoExit == QueryExit("info", [NoObs EXCEPT !.nm = radio.nm])

(* nmcli prints an error, as when NetworkManager is not running.           *)
InfoError == QueryExit("info", NoObs)

ScanExit ==
  \E list \in ScanLists :
    QueryExit("scan", [NoObs EXCEPT !.list = list, !.ap = radio.ap])

LinkExit == QueryExit("link", [NoObs EXCEPT !.ap = radio.ap])

(* gemini-wifi-connect.sh SSID PASS: exit 0 only with the radio on SSID    *)
(* (live_ok asks for the AP after it has asked whether the device is up,   *)
(* which may no longer be so), 2 only without a password, 3 for a wrong    *)
(* one, 1 otherwise.                                                       *)
ConnectExit ==
  /\ hud.job.kind = "connect" /\ ~hud.job.exited
  /\ \/ /\ radio.ap = hud.job.ssid
        /\ Exit([NoObs EXCEPT !.says = {"joined"}])
     \/ hud.job.pass = NoPass /\ Exit([NoObs EXCEPT !.rc = 2, !.says = {"need"}])
     \/ Exit([NoObs EXCEPT !.rc = 3, !.says = {"wrong"}])
     \/ Exit([NoObs EXCEPT !.rc = 1])
  /\ UNCHANGED radio

(* gemini-wifi-connect.sh forget SSID: the profiles are deleted and, if    *)
(* the SSID is in use, the device disconnected; no nmcli error is fatal.   *)
ForgetExit ==
  /\ hud.job.kind = "forget" /\ ~hud.job.exited
  /\ \/ Exit(NoObs) /\ UNCHANGED radio
     \/ /\ radio.ap = hud.job.ssid
        /\ Exit(NoObs)
        /\ radio' = [nm |-> "down", ap |-> NoSsid]
     \/ Exit([NoObs EXCEPT !.rc = 1]) /\ UNCHANGED radio
-----------------------------------------------------------------------------
(* main() ends its start-up with wifi_radio().                             *)
Init ==
  /\ radio \in {[nm |-> "down", ap |-> NoSsid]} \union
              {[nm |-> "up", ap |-> s] : s \in Ssids}
  /\ \E up \in LaunchSets :
       LET h == [job |-> NoJob, want |-> {}, pendSsid |-> NoSsid, pendPass |-> NoPass,
                 connecting |-> FALSE, wait |-> "none",
                 target |-> NoSsid, usedPass |-> FALSE,
                 knownSsid |-> NoSsid, knownPsk |-> NoPass,
                 forgetting |-> FALSE, hold |-> NoSsid,
                 connected |-> FALSE, busy |-> FALSE, live |-> NoSsid,
                 seen |-> {}, active |-> NoSsid,
                 sheet |-> "NONE", sel |-> NoSsid, typed |-> NoPass,
                 screenOff |-> FALSE]
       IN hud = IF CanStart(h, "radio", up)
                THEN StartNmcli(h, "radio", NoSsid, NoPass, up)
                ELSE [h EXCEPT !.want = {"info"}]

Loop == PollJob \/ ConfirmTick \/ KickTick \/ PeriodicScan \/ PeriodicInfo

Taps ==
  \/ TapHomeCard \/ TapListClose \/ TapRefresh
  \/ \E s \in Ssids : TapRow(s)
  \/ TapDetailBack \/ TapJoin \/ TapForget
  \/ \E p \in PassOrNone : TypePassword(p)
  \/ TapCancel \/ TapSubmit

JobExit ==
  \/ RadioExit \/ InfoExit \/ InfoError \/ ScanExit \/ LinkExit
  \/ ConnectExit \/ ForgetExit

Outside == RadioStep \/ JobExit \/ JoinOverdue

Next == Loop \/ PowerKey \/ IdleOff \/ Taps \/ Outside

Spec == Init /\ [][Next]_vars
-----------------------------------------------------------------------------
(***************************************************************************)
(* Fairness.  main() loops for ever, so results are polled and a join that *)
(* is being confirmed is looked at again; each child ends (nmcli runs with *)
(* -w limits and the scripts have no unbounded loop); and time passes.     *)
(***************************************************************************)
Fairness ==
  /\ WF_vars(PollJob) /\ WF_vars(ConfirmTick)
  /\ WF_vars(JobExit) /\ WF_vars(JoinOverdue)

(* For what the home screen shows: pending work is kicked, the device      *)
(* state is asked for again and again even if other jobs take the slot in  *)
(* between (SF), and nmcli does not answer with an error for ever (SF).    *)
(* Nothing is assumed of the user or of the radio.                         *)
AnswerFairness ==
  Fairness /\ WF_vars(KickTick) /\ SF_vars(PeriodicInfo) /\ SF_vars(InfoExit)

FairSpec == Spec /\ Fairness
-----------------------------------------------------------------------------
(***************************************************************************)
(* Safety.  The first invariants are conditions on the HUD's globals (h),  *)
(* so that they can be stated of the states inside a handler as well.      *)
(***************************************************************************)
SlotInv(h) ==
  h.job.kind = "connect" =>
    h.connecting /\ ~JoinWait(h) /\ h.job.ssid = h.target

QueueInv(h) ==
  "connect" \in h.want =>
    h.connecting /\ ~JoinWait(h) /\ h.pendSsid = h.target /\ h.pendPass # NoPass

ForgetInv(h) ==
  /\ h.forgetting <=> h.job.kind = "forget"
  /\ h.forgetting =>
       /\ h.sheet = "DETAIL" /\ ~h.connecting /\ h.want = {}
       /\ h.sel = h.job.ssid /\ h.hold = h.job.ssid

SheetInv(h) ==
  /\ h.connecting => h.sheet # "NONE"
  /\ JoinWait(h) => h.connecting /\ h.sheet # "PASS"

HoldInv(h) == h.hold # NoSsid => h.live # h.hold

TargetInv(h) ==
  /\ h.connecting => h.target # NoSsid
  /\ h.target \notin Enterprise

(* The job slot serves the operation on show: a running join script is the *)
(* one for connect_ssid, before its confirmation, so its exit code is      *)
(* never taken for another network's (poll_job reads connect_ssid, not the *)
(* job's own argument).                                                    *)
JobServesTarget == SlotInv(hud)

(* A password queued while a join runs is for that same join: kick_pending *)
(* never switches the user to another network (wifi_submit_pass,           *)
(* kick_pending).                                                          *)
QueuedJoinIsForTarget == QueueInv(hud)

(* The forget spinner turns exactly while the forget script of the         *)
(* selected, held network runs, on its detail sheet: "forgetting=1 with no *)
(* job is a stuck spinner" (gemini-wifi-flow.h).                           *)
ForgetSpinner == ForgetInv(hud)

(* The sheet stays open until the join has ended, and a password is never  *)
(* asked for while a join is being confirmed (tap, maybe_confirm_join).    *)
SheetOpenWhileJoining == SheetInv(hud)

(* The live name is never the one that was just forgotten, whatever the    *)
(* late answers of iw and nmcli say (apply_wifi_ssid).                     *)
ForgottenIsNotLive == HoldInv(hud)

(* All of these, and that a join has a target which is not an 802.1X       *)
(* network: the invariant that every handler preserves.                    *)
Inv(h) ==
  /\ SlotInv(h) /\ QueueInv(h) /\ ForgetInv(h)
  /\ SheetInv(h) /\ HoldInv(h) /\ TargetInv(h)

IndInv == Inv(hud)

(* While the HUD says "connecting" a script runs or its result is being    *)
(* confirmed: the spinner is not stuck.                                    *)
NoStuckSpinner ==
  hud.connecting => hud.job.kind = "connect" \/ JoinWait(hud)

(* While a join is confirmed with the screen on, the HUD goes on asking    *)
(* for the device state and the name: with no child running, the next turn *)
(* of the loop starts one (the chain of want_info and want_link in         *)
(* poll_job).                                                              *)
ConfirmPolls ==
  JoinWait(hud) /\ ~JobRunning(hud) /\ ~hud.screenOff
    => JobRunning(KickPending(hud, Kinds))

(* No join script is started for an 802.1X network, whatever the row that  *)
(* is selected by then (wifi_sec_enterprise, picked_sec).                  *)
EnterpriseNeverTried == hud.job.kind = "connect" => hud.job.ssid \notin Enterprise

(* The HUD implements the one-operation-at-a-time session.                 *)
Phase(h) ==
  IF h.forgetting THEN "forgetting"
  ELSE IF JoinWait(h) THEN "confirming"
  ELSE IF h.connecting THEN "joining" ELSE "idle"

Net(h) ==
  IF h.forgetting THEN h.hold
  ELSE IF h.connecting THEN h.target ELSE NoSsid

SessionPhase == Phase(hud)

SessionNet == Net(hud)

Session == INSTANCE WifiSession WITH phase <- SessionPhase, net <- SessionNet

SessionSpec == Session!Spec

(* Every join and every forget ends, by confirmation, failure or the 12 s  *)
(* limit, once the user no longer submits passwords for the join           *)
(* (maybe_confirm_join, poll_job).                                         *)
SessionEnds ==
  <>[][~TapSubmit]_vars => [](SessionPhase # "idle" => <>(SessionPhase = "idle"))

(* If the radio stays up on s, with the home screen on, the HUD comes to   *)
(* show s, unless s was forgotten and NetworkManager did not let it go.    *)
HudSettles ==
  \A s \in Ssids :
    <>[](/\ radio = [nm |-> "up", ap |-> s]
         /\ ~hud.screenOff /\ hud.sheet = "NONE")
    => <>[](hud.hold = s \/ (hud.connected /\ hud.live = s))
=============================================================================
