# TLA+ models of gemini-mainline-linux

The repository brings a mainline Linux system to a Snapdragon phone: kernel
overlays (panel, charger, fuel gauge, backlight), an initramfs with `init` and a
full-screen status program (the *HUD*, `initramfs/gemini-status.c`), root file
system services, and the host scripts that build and flash it.  This directory
holds TLA+ modules that model the parts of it with interesting behaviour,
configurations with which TLC checks them, and theorems that TLAPS proves.

Paths below are relative to `src/`.

## 1. Inventory

### 1.1 Parts, their state and operations

| part | state | operations | modelled |
|---|---|---|---|
| HUD Wi-Fi flow (`initramfs/gemini-status.c`, `gemini-wifi-flow.h`) | one job slot (`job_pid`, `job_kind`, pipe), `want_*` flags, `pend_*`, `connecting`, `join_wait_live`, `connect_ssid`, `forgetting`, `forget_ssid`, the shown network `wifi`, the list `aps[]`, the sheet, the selected row, the typed and the remembered password | taps, `poll_job`, the parsers, `maybe_confirm_join`, `kick_pending`, periodic queries | yes |
| Wi-Fi script (`rootfs-overlay/usr/local/sbin/gemini-wifi-connect.sh`) | none of its own; NetworkManager's profiles and device | join, forget, retries, classification of errors | exit contract only |
| HUD screen | `screen_off`, `pending_bl` and its frames, `t_unblank`, the lamp | power key, idle blanking, wake touch, slide, warm-up | `HudScreen` |
| HUD touch and keyboard | slots, drag, keyboard page, text | multi-touch decoding, scroll against tap, `osk_feed` | no |
| GLES/KMS presenter (`initramfs/gemini-status-gpu.c`) | `bo_cur`, `bo_prev`, pending flip, `crtc_set` | present, wait for flip, release, blank | buffers, flips and blanking, in `HudScreen` |
| HUD samplers | last counters, battery values of a thread | read sysfs, rates | no |
| JDI panel (`overlays/linux/drivers/gpu/drm/panel/panel-jdi-fhd-r63452.c`) | `inited`, `asleep` | enable, disable, `panel_sleep` | `JdiPanel` |
| charger (`.../power/supply/qcom-smbchg.c`) | registers, `otg_resets`, the extcon cables | probe, properties, interrupts, OTG regulator, reset worker | most, in `Smbchg` |
| secured PMIC writes (`.../soc/qcom/pmic-sec-write.c`) | a global lock, the unlock register | write, masked write | in `Smbchg` |
| fuel gauge (`.../power/supply/qcom_fg.c`) | `sram_requests`, grant and revoke completions, RIF mode | request/release of the SRAM, interrupt, release worker | SRAM access, in `FgSram` |
| backlight (`.../video/backlight/qcom-wled.c`) | brightness, module enable, OVP interrupt's depth, counts of shorts and over-voltages | update, two interrupt threads, delayed work, string detection | most, in `Wled` |
| DSI host and manager (`.../gpu/drm/msm/dsi/`) | power, PHY, link clocks, runtime PM, interrupt masks, `DSI_CTRL`, the transfer in progress | power on/off, transfer, interrupt, error worker | one command-mode link, in `DsiHost` |
| `initramfs/init.c` | mounts, files deployed to userdata | deploy overlay, `switch_root` | no |
| framebuffer fallbacks, reboot helpers, rootfs services, build and flash scripts, tests | none that outlives a run | straight-line | no |

### 1.2 How the parts interact

* The HUD is one thread with a `poll` loop (and one battery thread).  It starts
  *one* child at a time: `nmcli` (radio, device state, list), `iw` (name of the
  AP), or the Wi-Fi script (join, forget).  The only channel back is the exit code
  and what the child printed, which `poll_job` reads when it is over.
* Children and NetworkManager act on the radio.  What a query job prints was
  true when it ran; the HUD applies it later, on top of whatever the user did.
* The user acts through taps, which are refused or queued by flags, and the
  power key, which stops polling.
* The presenter's modesets reach the DSI manager and host, which power the link,
  and the panel driver, which sends its commands over it; `panel_sleep` in sysfs
  sends them at any other time.  The lamp behind the glass is WLED, which the HUD
  switches through the backlight's `bl_power` and `brightness`.
* Each driver is entered by several threads: callers (sysfs, DRM, the regulator's
  consumer), threaded interrupts, work queues.  The charger and the fuel gauge
  share the PMIC bus; both use the secured write.

### 1.3 What is hard here, and what is to be correct

* **Wi-Fi flow**: results of children that are out of date; a queue behind a
  single slot; a join that is "over" for the script, but not yet visible; a
  forget that aborts anything; a 12 s limit that races the answers.  *Correct*: an exit
  code is never taken for another network's; a queued password goes where
  it was typed for; spinners have something behind them; a forgotten network
  stays forgotten; operations end; the HUD settles on the truth.
* **Wi-Fi script**: it can be killed between any two `nmcli` calls.  *Correct*: a
  failed or aborted join leaves the previous network and the saved
  profiles as they were; exit 0 only if the network is up.
* **Screen, presenter**: event handlers run inside `present`; unsigned time
  differences; flips that time out; three devices (lamp, glass, CRTC) that are
  switched one after the other, any of which can fail.  *Correct*: a blank screen is
  dark; the lamp is lit only over a picture, and comes back; no buffer is released while the
  scan-out uses it.
* **Drivers**: interrupt, worker and caller interleave; completions and
  reference counts; errors half-way.  *Correct*: enable counts, clocks and references
  are balanced; the SRAM is held while it is read; a limit in force is not above the one
  asked for; no masked write is lost; a result tells what happened.
* **init**: reset between two file operations.  *Correct*: a boot never leaves
  userdata without a file that it had.

`PROJECT.json` lists each hazard with its line and the properties that would catch it; for those
no property covers it says why.

## 2. Plan and layout

One module per component, its properties next to it; an `MC` module with the instance (and
history variables, where a property needs them) and a `.cfg` per run; theorems in a module of their own.

| module | component | `MC` module | theorems | section |
|---|---|---|---|---|
| `WifiFlow`, `HudWifi`, `HudWifiHistory`, abstract `WifiSession` | HUD Wi-Fi flow | `MCHudWifi`, `MCHudWifiHistory` | `HudWifiTypes`, `HudWifiProofs`, `HudWifiRefines` | 3 |
| `FgSram` | fuel gauge's SRAM | `MCFgSram` | `FgSramProofs` | 4 |
| `Smbchg` | charger, secured writes | `MCSmbchg` | `SmbchgProofs` | 5 |
| `Wled` | backlight | `MCWled` | `WledProofs` | 6 |
| `DsiHost` | DSI host and manager | `MCDsiHost` | `DsiHostProofs` | 7 |
| `JdiPanel`, `HudScreen` | panel; HUD screen and presenter | `MCHudScreen` | `HudScreenProofs` | 8 |

`HudWifi` composes the decisions of `WifiFlow` with the job engine; `HudScreen` composes the
HUD's loop with the panel driver's callbacks of `JdiPanel`.  `DsiHost` stands below the
panel: what it shows of transfers (that they may fail, and be sent all the same) is what
`JdiPanel` assumes of them.  `HudWifi` and `HudScreen` share the flag `screen_off` only, and are checked apart.

In every module an operator under a comment that begins with "Broken" is a faulty variant of the one
after it, with which `PROJECT.json` shows that a property can fail (the mutants); no definition uses it.
The variants are plausible slips in that code: a dropped guard, a missing reset, a
count taken twice, a swapped order.

Each module has one type invariant, `TypeOK`.  It is a theorem of every component (`TypeCorrect`), for all values of the
constants, so the runs do not spend time on it; likewise for strengthenings such as `IndInv` and `IrqInv`.

Every safety property of a passing run, invariant or action property, is also a theorem, for all values of the
constants.  Where the property needs history variables, the theorem is about the specification that
adds them to *every* behaviour (`HistorySpec`), without the restrictions of the run.  The
liveness properties are only model-checked (fairness and `ENABLED` are beyond the prover): `SessionEnds`, `HudSettles`,
`SramReleased`, `VbusRecovers`, `NoDeadlock`, `LampReturns`.

Where the code does not do what is meant, a property excludes that case by name, its section says what it
is, and the hazard in `PROJECT.json` has a note.  Two of these cases have a run of their own (`violation`).

The runs (2 workers, a few seconds to two minutes each):

| run | expects | distinct states | section |
|---|---|---|---|
| `session`, `history`, `enterprise` | pass | 2.3 M, 2.4 M, 1.1 M | 3 |
| `ends`, `settles` | pass | 0.2 M, 0.1 M | 3 |
| `fg_requests` / `fg_stale_grant` | pass / violation | 58 k | 4 |
| `smbchg` / `smbchg_forced` | pass / violation | 1.5 M | 5 |
| `wled` | pass | 19 k | 6 |
| `dsi` | pass | 3.4 M | 7 |
| `screen` | pass | 0.7 M | 8 |

## 3. The Wi-Fi flow

### 3.1 Modules

| module | stands for |
|---|---|
| `WifiFlow` | the pure decisions of `gemini-wifi-flow.h`, one operator per `gw_*` function |
| `HudWifi` | the Wi-Fi part of `gemini-status.c`: state, handlers, children, radio; properties |
| `WifiSession` | the abstract promise: one operation at a time, on one network |
| `MCHudWifi` | instances for TLC |
| `HudWifiHistory` | history variables: the APs the radio was on during the join (`been`), whether the target was on show when it began (`claimed`), the forgotten network that the radio is still on (`left`) |
| `MCHudWifiHistory` | its instance for TLC |
| `HudWifiTypes`, `HudWifiProofs`, `HudWifiRefines` | theorems |

**State.**  `hud` is a record of the program's globals; its comments name
the C variables.  `want` is the set of `want_*` flags that are 1.  `wait` is
`join_wait_live` with the elapsed time abstracted to "fresh" or "overdue" (12 s).
The job keeps what it was started with (`ssid`, `pass`) only so that the
child can act and properties can refer to it; the C code forgets it, and
so does `FinishJob`.  `radio` is NetworkManager's device state and the associated AP.

**Actions.**  The HUD is single threaded, so each handler, with every call it
makes, is one step.  Each C function that changes state is an operator from
the record to the next record (`WifiConnect(h, ..)`, `MaybeConfirmJoin(h)`), and
an action applies them in the order of the code; `PollJob` thus
includes closing the job, parsing, the decision of `gw_on_connect_job`, what it
starts, and the `kick_pending` at the end.  What happens *between* handlers is
concurrent: a child exits (`JobExit`, which samples the radio *then*), the radio
changes (`RadioStep`), the user taps, time passes.

**Failure of launches.**  `start_nmcli` can fail (binary missing, `pipe`, `fork`);
`LaunchSets` gives the kinds that can be started in a handler.

**Abstractions.**  SSIDs and passwords are opaque, a password of fewer than
eight characters is `NoPass`; a name and its "-5G"-like sibling are related by the
constant `SiblingOf`.  The output of a child is its exit code, the markers that
`strstr` looks for and the parsed values.  Left out: the sheet animation
(a tap goes to the sheet that `sheet_tgt` names), signal, IP and security rows,
texts, `connect_fail` (which only selects a text), the timing of the power key.
A SECURITY column with "802.1X" is membership in `Enterprise`.

**External.**  NetworkManager, the radio and child exits are modelled as the
code uses them: the radio may do anything; a query returns what the radio does at
exit; a join script returns 0 only with the radio on its network, 2 only
when it had no password, 3 or 1 at any time (its `live_ok`, `fail_*`).  `live_ok` asks for
the device state first and for the AP then, so only the AP is sure at exit.

**Start.**  `Init` is the state after `main`'s start-up: radio job started,
or, if that failed, an info query queued.

### 3.2 Properties and runs

All runs are of small instances (two networks `a`, `b`, one password); a scan lists
both networks, in either order.  Two networks are enough for what the code compares: it only
ever compares names for equality (and the sibling relation), and at most two
of target, selected, queued, live and forgotten are told apart by a property; one
password is enough because the code compares passwords with "empty" only.
The symmetric networks are a symmetry set in the safety runs.  No counter is bounded:
the state space is finite as it stands.

| run | states | shows |
|---|---|---|
| `session` | 2.3 M | five safety invariants, polling during confirmation, refinement of `WifiSession`; every launch of a join or forget may fail |
| `history` | 2.4 M | with all launches successful: no stuck spinner; a forgotten network stays hidden; a join is confirmed only for a network the radio was on or the HUD showed |
| `enterprise` | 1.1 M | one of the networks is 802.1X: no order of taps and results starts a join for it |
| `ends` | 0.2 M | liveness: every join and forget ends |
| `settles` | 0.1 M | liveness: the HUD comes to show the network that the radio stays on |

What the properties say:

* `JobServesTarget` — a join script in the slot is for `connect_ssid`, and runs before
  the confirmation: `poll_job` attributes the exit code to `connect_ssid`.
* `QueuedJoinIsForTarget` — a queued password is for the join in flight.
* `ForgetSpinner` — `forgetting` holds exactly while the forget script of the held and
  selected network runs.
* `SheetOpenWhileJoining` — the sheet is open until the join is over, and no password
  is asked for during confirmation.
* `ForgottenIsNotLive` — no late answer makes the held name the live name.
* `ConfirmPolls` — during confirmation, with the screen on, the next turn of the loop starts a query.
* `NoStuckSpinner`, `JoinedWasThere`, `ForgottenStaysHidden`, `EnterpriseNeverTried` — as in the table.
* `SessionSpec` — refinement, with `phase` and `net` computed from the globals.
* `SessionEnds`, `HudSettles` — liveness.

To keep the instances small, `MCHudWifi` restricts the next-state relation in
named ways: the screen stays on (`AwakeNext`) except in `ends`; no forget in
`settles` (with forgets the property fails, see 3.3); a typed password is not
erased in `ends`.  `history` starts its follow-up of a forget
when the HUD shows the forgotten network or none (with another see 3.3).

**Fairness.**  `PollJob` and `ConfirmTick` are weakly fair because `main` loops
for ever and calls them in each turn; `JobExit` because `nmcli` is run with
`-w` limits and the script has bounded loops; `JoinOverdue` because time passes.
`AnswerFairness` (used by `settles`) adds `KickTick` (each turn) and *strong*
fairness of `PeriodicInfo` and `InfoExit`: the periodic device query comes back again
and again although other jobs take the slot in between, and NetworkManager does not
answer with errors only.  The list scans (every 8 s, with the list open) can
starve the periodic query when a scan takes longer than that; `HudSettles` speaks
of the home screen, where no periodic scan runs.  Nothing is assumed of the user
or the radio, except as stated in the properties (`SessionEnds`: the user at
some time stops submitting passwords for the running join).

### 3.3 Where the code does not do what it says

Seen while modelling.  The runs above exclude these cases by name: launches succeed in the runs
whose properties need them to, `settles` has no forgets and one name per network, `history` follows
up a forget only of the network on show.

* `poll_job`'s FAIL branch reopens the password sheet without setting `selected_ssid`: a row tapped
  during the join is what the sheet names, but the password goes to `connect_ssid`
  (`gemini-wifi-flow.h:228`: "Password sheet belongs to the in-flight SSID").
* `wifi_connect` ignores that `start_nmcli` failed: connecting for ever
  (line 2225; `wifi_forget` undoes its flag in the same case, line 2300).
* `connect_ssid` is never cleared, so a sibling name of it is ignored long after the join is over
  (line 2386; the comment above it speaks of "the network we are joining").
* The forget hold clears `connected` whatever network is up, so no link query is sent that could release it
  (line 2522; `docs/worklog-2026-08-29.md:57` says the hold lasts "until disconnect or another live SSID").
* A stale live name, re-applied from the scan list, releases the hold, and the forgotten network
  is shown as connected again (line 1641).
* The confirmation is not polled with the
  screen off, so that the 12 s limit turns a success into a failure
  (`kick_pending` returns on `screen_off`).
* Exit 2 or 3 counts as success when the
  cached state already names the target (`gw_on_connect_job`), hence the second
  disjunct of `JoinedWasThere`.
* The typed password is tied to no SSID, so the sheet of
  one network can open filled in with another's.
* After a failed forget the hold stays.

### 3.4 What is proved

For all values of the constants that satisfy `WifiAssumption` (the "empty" values are
not names, siblings are distinct, and sets are subsets of what they should be):

* `TypeCorrect`: `Spec => []TypeOK`.  One lemma per operator, that
  it maps a `Hud` record to a `Hud` record.
* `Invariance` (`Spec => []IndInv`), and from it `JobServes`, `QueuedForTarget`, `ForgetShown`,
  `SheetStaysOpen`, `ForgottenHidden` and `EnterpriseRefused`, one for each safety
  invariant.  None of them is inductive alone: that a queued password is
  for the target depends on what the slot runs, the slot on the phase of the
  join, the hold on the forget.  Their conjunction with `TargetInv` (a join has
  a target, never an 802.1X one) is inductive relative to `TypeOK`:
  `IndInv == Inv(hud)`.  `Inv` takes the state as a parameter, so that
  it can be stated *inside* a handler: `FinishJob` establishes a weaker condition for the
  state before `kick_pending` (a queued join with nothing running), under which
  `KickPending` restores `Inv`.  Lemmas of the form "a query result
  leaves alone what `Inv` speaks of, or ends the join" carry over the parsers.
* `Implements`: `Spec => SessionSpec`.  Each handler keeps the session's phase and
  network, ends the operation, or moves it by one step of `WifiSession`; handlers
  that do two things in one step (a failed join whose retry starts at once) are a
  stutter of the session, and the proof shows that no handler makes two visible steps.

* `ConfirmationPolls`: `Spec => []ConfirmPolls`, whichever children fail to start and however often the
  screen goes off.  `PollInv` says that a query runs or is queued while a join is confirmed; with the screen
  off it is not started, but it stays queued.
* `SpinnerServed` (`NoStuckSpinner`) and `JoinedThere` (`HistorySpec => JoinedWasThere`), under the assumption
  `JoinsLaunch`, that every set of `LaunchSets` has `"connect"`: `wifi_connect` ignores a
  failed `start_nmcli` (3.3), and without the assumption both are false.  `JoinMoves`
  states what a step can do to a join: it begins, keeps its target, goes to the confirmation only by the
  script's success, and ends as joined only from there or by that success.  `JoinInv` says of each of
  these ways, *before* it is taken, that it tells of the target: the name on show, the confirmation, a script that has exited with success.
* `ForgottenHiddenWhileLeft` (`HistorySpec => []ForgottenStaysHidden`), for all launch failures and with screen
  off.  `LeftInv` adds that the name is held back and none is live, and that whatever an exited child
  has to say is about the AP of the forgotten network; with `RadioInv` (a radio on an AP is not down) no answer releases the hold.

`HistorySpec` is of all behaviours of the HUD, with the screen off as well, where the run
`history` keeps it on.  Only the liveness properties `SessionEnds` and `HudSettles` are model-checked only.

## 4. The fuel gauge's SRAM

`FgSram` models the access handshake of `qcom_fg.c`: readers and writers
(`qcom_fg_sram_read`, `_write`), the delayed release worker, the threaded interrupt
handler and the hardware's answer to the request bit.  `MCFgSram` gives three
users and two history variables; `FgSramProofs` holds the theorems.

**Correspondence.**  `pc[u]` is where a caller is: `RequestAccess` is the section under
`sram_request_lock`; `Granted` and `TimeOut` end the wait; `GiveUp` is the
decrement after a time-out; `ExpectRevoke` the `reinit_completion` after the
wait, outside of any lock; `BeginAccess` and `EndAccess` delimit `sram_rw_lock`;
`ReleaseAccess` is `qcom_fg_sram_release_access`.  `StartWork` is the worker's section
under the lock, `Revoked`/`RevokeLate` the end of its wait, `EndWork` the final
`reinit_completion`.  `complete_all` leaves a completion done until it is
reinitialised, hence the Booleans.  The interrupt thread reads two registers in two steps,
because it does not take the lock.  A write of the request bit that fails makes
a request return without a change (a stutter); in the worker it is `StartWorkFails`.

**External.**  The hardware makes `avail` follow `req` some time later and raises an
interrupt at each change; interrupts that are not handled yet coalesce.

**Bounds and fairness.**  Three users: one that holds the SRAM, one that finds it granted and
one that times out or comes late.  Time limits may expire at any time.
Fairness is of the work queue only (pending work is run, its wait is limited).

| run | states | shows |
|---|---|---|
| `fg_requests` | 58 k | `RequestsCount`: `sram_requests` is the number of users, so the WARN never fires; `UsersHoldRequest`: the bit is set as long as there is a user; `LeaseHeld`: in a lease that begins when the release of the last one is over nobody transfers without the SRAM; `SramReleased`: it is given back after the last user |
| `fg_stale_grant` | – | violation of `AccessHasSram`: a request that comes while the worker waits for the revocation finds the completion of the previous lease done and transfers before the hardware has answered |

`SramReleased` excludes the two cases in which the driver leaves the bit set: the last user
timed out (`GiveUp` decrements without queueing the release), or the write failed.
The reverse of the stale grant exists too: the worker's late `reinit_completion` can discard
the grant of a new lease, and later requests then wait for 5 s although the SRAM is accessible.

**Proved** for every finite set of users: `TypeCorrect`, `UsersAreCounted`
(`RequestsCount`) and `UsersKeepRequest` (`UsersHoldRequest`).  The three together are inductive: that the
worker may clear the bit when the count is zero needs the count to be exact, and that a
release does not drive it below zero needs the caller to be counted.  Nothing is assumed of the
hardware, the interrupt or the time limits.  `LeasesHeld` (`LeaseHeld`) is about the behaviours with their
histories (`HistorySpec`).  A request that finds the bit clear begins a lease; it is `early` when the worker has not
returned from the last release, or the interrupt thread is about to report an availability it read before, and only then
can the stale grant come about.  `LeaseInv` says that in every other lease whatever says that the SRAM is there
is true: the hardware's answer, what the interrupt thread has read of it, the completion, and the users that have seen that;
and that the grant is gone when the worker has returned.  `SramReleased` is only model-checked.

## 5. The charger

`Smbchg` models `qcom-smbchg.c` with the masked writes of `pmic-sec-write.c`.  Nothing but the
secured write itself is under a lock, so an action is one register access of one thread.

**Correspondence.**  `reg` is the fields of the registers that the driver uses.  `Probe*` is
`smbchg_init`.  `SetOnline`, `SetChargeCurrent` and `SetInputLimit` enter
`smbchg_set_property`; the `User*` steps are `smbchg_usb_set_ilim` with its low
(`UserCfgRead`, `UserUsb3`, `UserFull`, `UserLc`) and high current path (`UserIndex`,
`UserForce`, `UserAicl`).  The `Src*` steps are the thread of the source-detect
interrupt with `smbchg_usb_aicl_enable` and `smbchg_extcon_update`, `Id*` the one of the ID pin, `Temp*` the
thermal shutdown, `Otg*` the regulator, its over-current interrupt and the reset worker.
Each access may fail (`Done`, `Fails`), which sends its thread to the error return of the code.
`CHGPTH_CFG` is the one register of which two threads write different fields:
its masked write is two steps, `SecRead` outside the lock and `SecWrite` under it.

**External.**  What is plugged in, the boost's over-current protection, the regulator's consumer.

**Instance.**  A table of three limits, targets below, between, at and above its entries (and in the low current
range); two retries, so that the count is seen to reach its limit.  Input limits, OTG and
charge current share no register and no thread: `MCSmbchg` lets a behaviour use one of the
three with the probe and the port.  History variables note who wrote the limit
index last, whether AICL was prepared during a call, and whether two unlocked
read-modify-writes or extcon updates overlapped.  The run does not check for deadlock, because a
probe that fails ends the driver.  *Fairness*: interrupts that are pending
are handled, queued work is run and its sleep ends.

| property | says |
|---|---|
| `ReportedLimit` | a limit reported as success is in force, not above the target, and the largest such |
| `ForcedLimitAlone` | a forced limit is not above the target, also when calls fail half-way, unless a charger is detected meanwhile |
| `LcEntered` | no write of a call for a low current puts a limit in force above both the target and the limit before (`Through900` apart), and high current mode is left only for a limit not above the target |
| `ConfigKept` | the probe's configuration survives the callers' unlocked writes, except when both are between read and write |
| `ExtconFollows` | when all is handled, the cables tell what is plugged in |
| `ChargeCurrentAllowed` | the battery's limit holds |
| `VbusRecovers` | an over-current ends with the boost on or with a report |

`smbchg_forced` shows what `ForcedLimitAlone` excludes: between the write of the index and the write
that forces it, the source-detect thread writes the maximum index, and the call
forces that ("Always round down to avoid exceeding the target limit").  What `lost` excludes: the
power supply is registered before the probe configures the charge path, and a call that has read `CHGPTH_CFG` before
the probe's write puts the old value back ("Set USB charge path control to command").

Also seen, without a run: `aicl_enable` returns `IRQ_NONE`, which is 0, when
high current mode cannot be set, so its caller goes on as after a success; when AICL fails otherwise the extcon
cables are not updated; `otg_resets` is not cleared by a successful reset, so the retries
of unrelated over-currents add up; the reset worker switches the boost on again when the regulator was
disabled during its sleep; on the way from 500 to 150 mA the limit is 900 mA for one write, because USB 3.0 is
selected first (`Through900`); two port threads
that cross leave stale cables; edges of the port between the probe's detection and the
request of the interrupts are lost.

**Proved** for every table of ascending limits, every target and number of retries:
`HcRoundsDown` (the choice is a limit of the table, not above the target, and no larger one is;
it rests on every non-empty set of naturals with a bound having a maximum), `TypeCorrect`, and `ChargeCurrent`
(`TypeOK /\ ChargeCurrentAllowed` is inductive: only the probe and one
property write the charge current, and both round a value that has passed the comparison).
For `HistorySpec`, in which input limits, OTG and charge current are all used together, it also holds what each call
leaves (`LimitReported`, `LimitForced`, `LcEntering`), `ConfigStays` and `ExtconTells`, any number of accesses failing.  The
inductive invariant is `HistoryInv` with `TypeOK`: `CallInv` (a call stays in the range that its target chose), `CfgInv` (what
a thread has read of `CHGPTH_CFG` is still there when it writes, unless two overlap), `MixInv` (the
source-detect thread that prepares AICL is what `mixed` notes), `ForceInv` (from the last write of a
call on, the limit in force is the one chosen, and `smbchg_usb_get_ilim` reads that) and
`ExtInv` (the cables are right, or somebody will sample the port).  `VbusRecovers` is only model-checked.

## 6. The backlight

`Wled` models a WLED4 module in `qcom-wled.c`: `wled_update_status` (`Upd*`), `wled_module_enable`
(`ModuleOn`, `ModuleOff`, `ModuleFails`), the delayed `wled_ovp_work` (`OvpWork`), the
short-circuit thread (`Short*`) and the over-voltage thread with string detection (`Ovp*`).
`lock` is `wled->lock`; `depth` is the interrupt core's count of `disable_irq`, which starts at 1 because of
`IRQF_NO_AUTOEN`; `*Sync` is the wait of `disable_irq` for a running handler.
The device tree of this phone deletes the two interrupts: the paths
are those of the driver in general.

**Instance.**  Two shorts are too many, three over-voltages start a detection; `MaxDepth` and
`MaxShorts` cut counts that failures and races push further.  The run does not check for
deadlock, because with string detection the driver has one: `disable_irq`, called with the lock
held, waits for an over-voltage handler that waits for the lock.  `NoDeadlock` shows that without
detection there is none.  *Fairness*: threads run (weak), the mutex and work queue are fair (strong,
for the steps that wait for the lock).

| property | says |
|---|---|
| `IrqBalanced` | no `enable_irq` too many |
| `LampFollowsAlone` | with the lock free, the lamp is on exactly when a brightness is set |
| `Protected` | a lamp that is on has the over-voltage interrupt enabled, once the soft start is over |
| `DisabledForever` | "disabling WLED forever!" holds although detections write `MOD_EN` directly |
| `NoDeadlock` | setting a brightness and handling a short end |

Excluded in `LampFollowsAlone`, and real: a short handler that waits for the lock while the lamp
is switched off switches it on again.  Without the exclusion (`LampFollows`) TLC finds this.

**Proved** for all thresholds: `TypeCorrect`, `CountOwed`, `Balanced`, `OffForever`.  `IrqBalanced` is not inductive; `IrqInv`
counts the `disable_irq` calls that are still to be undone, by a brightness of zero, by a short handler in its pause and by delayed work,
and is inductive together with `LockInv`, which says who is where while holding the lock.
`LampFollowing` (`LampFollowsAlone`) and `LampProtected` (`Protected`) are about every behaviour with its histories (`HistorySpec`), without the
bounds on the counts.  As long as nothing has failed, nothing is disabled for good and no short handler has run with the brightness
at zero, `LampInv` says what the module shows in the middle of an update, and `ExactInv` that the count is not only enough, as in `IrqInv`, but
exactly what brightness and a short handler in its pause owe.  `NoDeadlock` is only model-checked.

## 7. The DSI host and manager

`DsiHost` models one command-mode link (the panel's `mode_flags` lack `MIPI_DSI_MODE_VIDEO`).
A modeset is the steps of `dsi_mgr_bridge_pre_enable` (`OnPhy`, `OnPower`, `OnIrq`, `OnEnable`) and
`_post_disable` (`OffQuiet`, `OffMask`, `OffPower`), under DRM's locks.  A transfer
is `XferStart` (the check of `power_on`), `XferLock` (`cmd_mutex`), `msm_dsi_host_xfer_prepare`,
`dsi_cmd_dma_tx` (`XferReinit`, `XferTrigger`, `XferDone`/`XferTimeout`) and
`_xfer_restore`; `XferRefused` is its early way out, without a command and without `reinit_completion`, when the command
does not fit into the buffer or the buffer gets no address.  The client `panel` sends within a modeset, the client `reader` (sysfs) at any time, a call of
`panel_sleep` among them.  `IrqRead`, `IrqError` and `IrqDma` are the handler, `Work*` the error
worker with its software reset.

**External.**  The controller has status bits latched next to their masks in one
register, cleared by writing ones; `dsi_intr_ctrl`, which reads and writes it back, therefore also acknowledges.
A completion may come after the wait has timed out; one that is latched and unmasked, or already in the handler, is delivered within the 200 ms of the wait (`OnItsWay`), an assumption about scheduling on which `SentMeansOk` rests.  DRM calls `post_disable`
also when `pre_enable` has failed.

**Instance.**  One client inside modesets and one outside is what the code can have at once; the set is a
constant of the theorems.  `MaxDepth` stops the count that each failed power-on leaves behind; the
clocks of a transfer fail at most once.  `faults` remembers the kinds of failures: power-ons, the clocks of a power-on, those of a transfer.
What a result says of *one* transfer is told apart by histories of that transfer: `stale`, a completion came between its
reinit and the end of its own command; `beside`, during its wait the interrupt was disabled, or its register was
written by the modeset or the error path (`Rewrites`).  `crossed` notes that two of the three writers of `DSI_CTRL` met since
a modeset last set it by itself.  None of the three outlives the transfer, or the modeset, that it speaks of.  Each
disjunct of them is needed: without any one of them TLC finds the property violated.  The run checks for deadlock.

| property | says |
|---|---|
| `IrqFollowsPower` | the interrupt is enabled only with power, over failed power-ons too; an enabled bridge has it enabled, until a power-on fails |
| `HeldWhileUsed` | clocks and runtime PM references are those of power and transfer |
| `OkMeansSent` | a success is of the transfer's own command; the completion of an earlier one is taken for it only if it comes between reinit and the end of the command |
| `SentMeansOk` | a command that was sent does not time out, whatever happened before its wait; during the wait only a write of the interrupt's register by somebody else, or its being disabled, loses the completion |
| `ControllerFollows` | at rest the controller is enabled just while it has power; two writers that meet break this until the next modeset |

What the exclusions stand for, all reachable in the model: after *one* failed power-on,
`post_disable`'s `disable_irq` is unmatched, the interrupt stays disabled in every later cycle and transfers
time out (against the comment at `dsi_manager.c:245`; as an invariant `PanelCanTalk` fails in the first such cycle); a power-on whose link clocks fail leaks a runtime PM
reference (`dsi_host.c:2490`); `xfer_prepare` ignores that the clocks failed, and `xfer_restore` disables
them; the read-modify-write of the masks can acknowledge a completion next to an error; the
reset of the error worker and a modeset beside a transfer leave a stale `DSI_CTRL`; `power_on` is read
before `cmd_mutex` (`dsi_host.c:1736`), so a transfer may start while the host is switched off; a late completion
that arrives after `reinit_completion` is taken for the next command's.

**Proved** for every set of clients: `TypeCorrect`, `IrqFollows`, `HeldCounted`.  The
inductive invariant of these is `TypeOK` with `CmdInv` (whoever is inside a transfer holds `cmd_mutex`, so
there is at most one), `DepthInv` (where in a modeset the interrupt is disabled, and how often) and `HeldWhileUsed`.

`OkIsSent`, `SentIsOk` and `CtrlFollows` (`OkMeansSent`, `SentMeansOk`, `ControllerFollows`) are about every behaviour with
its histories (`HistorySpec`), without the bounds of the run, so they hold over any number of failures.  They rest on `LinkInv`, relative to
the former.  `CtrlInv`: unless two writers have met, `DSI_CTRL` is, or will be restored to, what the modeset has set.
`SendInv`: a completion that a client finds is its own, unless it has met a stale one.  `WaitInv`: the interrupt of a client that waits is
unmasked, and with nothing beside the wait the completion of a command that was sent is on its way, in a status bit, the handler or
the completion.  `TimeInv`: a time-out is then of a command that was not sent.

## 8. The screen and the panel

`HudScreen` models the HUD's loop as far as screen and lamp are concerned, with the presenter's
buffers; it extends `JdiPanel`, whose operators give the outcomes of the panel driver's callbacks.

**Correspondence.**  `hud`, `buf` are the globals (`screen_off`, `pending_bl`, `pending_bl_frames`, `crtc_set`;
`bo_cur`, `bo_prev`).  `ScreenOff` and `ScreenOn` are `set_screen` with `hud_gl_blank`:
`panel_sleep` first, then the CRTC.  A frame is `FrameStarts` within one of the `Frame*`
actions (no buffer, no framebuffer, modeset, flip, failed flip, or nothing to draw), then `WaitEnds`,
then `FrameEnds`, the lamp's part of the loop.  While the HUD waits for the flip it runs the
input handlers: `Input` is enabled at `"wait"` as in the loop.  `hud.warm` is `now - t_unblank > 800 ms` with `now`
as read at the start of the frame.

**External.**  KMS enables and disables the panel when the CRTC changes and completes flips; GBM hands
out buffers that are not locked; `display-unblank.service` lights the console and starts the HUD, again when it has
failed (`Restart=on-failure`): the panel's and the lamp's state survive the HUD's.

**Instance.**  Two buffers (one shown, one drawn into) and two warm-up frames.  The HUD
dies at most once, and at most one of the kinds "panel command", "modeset", "framebuffer" fails, any number of times; flips may
time out, fail or find no buffer besides.  *Fairness*: the loop goes on and its waits
time out.  Nobody has to press a key.

| property | says |
|---|---|
| `BlankIsDark` | a blanked screen is dark: lamp off in any case, glass and CRTC off when nothing failed (`docs/worklog-2026-08-30.md:13`) |
| `LampShowsPicture` | a lit lamp has an active CRTC, a frame and an initialised panel that is on, over restarts too |
| `LampWaits` | the lamp is lit with the screen on, after enough frames or 0.8 s, unless it was switched off and on inside a frame |
| `LampReturns` | with the screen on, the lamp comes on in the end, whatever fails |
| `ScreenNotFree` | the buffer on screen, or queued, is not drawn into |
| `BuffersKept` | none is lost |

What the exclusions stand for: `now` is read before the frame, so a screen switched off and on inside the wait
for a flip makes `now - t_unblank` wrap, and the lamp is lit at once (line 4899, against the comment at line 4874); a wait that times out
releases the buffer on screen, and its late event ends a later wait early; the same buffer is released after
an off and on inside a frame, or a failed flip; a failed `AddFB` leaks a buffer; the panel sets `inited` before it writes its
registers, so a failed initialisation is not repeated; when the CRTC cannot be
disabled after the panel was put to sleep, unblanking is no full modeset, `enable` is not called and the lamp is lit over dark glass.

**Proved** for every set of buffers and number of frames, and any number of faults and restarts: `TypeCorrect`,
`BlankDark`, `LampShows`, `NotFree`, `Kept`, `Waits`.  The inductive
invariant has a part for each device: `PanelInv` (a CRTC that is active has a panel that is on,
without faults of either), `LampInv`, `PictureInv` (where in a frame the CRTC is active, and that there is a previous
buffer to show again), `FlipInv` (which buffer is queued, shown or has its event pending), `BufInv` and `WarmInv`.
`LampReturns` is liveness, and only model-checked.

## 9. Not modelled

* **The steps of the Wi-Fi script.**  They are commands to NetworkManager, whose profiles, activation and
  failures are outside the repository; a model would be mostly of NetworkManager.  Its exit contract, which
  the HUD depends on, is in `HudWifi`.  Its hazards: SIGTERM between the deletion of the saved profiles and the
  addition of the new one (line 392), a failed addition that is only logged (394), and the message of an earlier attempt that
  decides about a later one (179).
* **`init.c`**: one process, once per boot; its states after a reset are those of a file system.
* **The clock of the periodic scans**: scans that take more than 8 s with the list open leave no turn for the
  periodic info query (`gemini-status.c:4936`); `HudSettles` speaks of the home screen, where no periodic scan runs.
* **Touch decoding, the keyboard, samplers, drawing**: local to one event or one frame; nothing else depends on them but
  a completed tap, which the models have.
* **Drivers' set-up**: device tree parsing, EGL and mode selection, DSI timing, bonded links, DSC, WLED 3 and 5,
  the fuel gauge's conversions, the charger's getters and single writes, removal.
* **Kernel probe and removal windows**: the charger and the fuel gauge register their power supplies before what their
  properties use is set up (`qcom-smbchg.c:1564`, `qcom_fg.c:1143`), and the gauge's work queue is destroyed with its delayed
  work possibly pending (`qcom_fg.c:1250`); the models start after the first and end before the last.
* **Scripts and tests.**

Of the C and header lines in the repository, more than three quarters are one generated file
(`initramfs/gemini-status-font.h`, 54 761 lines of glyph tables), which has no behaviour; most of the rest is drawing
and register tables.  The share of lines that the map names is small for that reason.
