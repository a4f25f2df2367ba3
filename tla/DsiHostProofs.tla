--------------------------- MODULE DsiHostProofs ----------------------------
(***************************************************************************)
(* Theorems of DsiHost for every set of clients, and without the bound on  *)
(* failed power-ons that its run has.                                      *)
(***************************************************************************)
EXTENDS MCDsiHost, TLAPS

(* cmd_mutex: who is between taking and releasing it holds it.             *)
Holding(c) == at[c] \notin {"idle", "lock"}
CmdInv == \A c \in Clients : Holding(c) <=> cmd = c

(* The interrupt stays disabled outside of enable_irq and disable_irq, and *)
(* a modeset that gets past a failed power-on has power.                   *)
Disabled == bridge \in {"down", "power", "irq", "off"}

DepthInv ==
  /\ Disabled => depth >= 1
  /\ bridge \in {"down", "power"} => ~power
  /\ bridge \in {"irq", "enable"} => power
  /\ depth = 0 => power
  /\ "powerOn" \notin faults /\ Disabled => depth = 1
  /\ "powerOn" \notin faults /\ ~Disabled => depth = 0

IInv == TypeOK /\ CmdInv /\ DepthInv /\ HeldWhileUsed

USE DsiAssumption DEF None

LEMMA InitInv == Init => IInv
<1> SUFFICES ASSUME Init PROVE IInv
  OBVIOUS
<1>1. TypeOK
  <2>1. depth \in Nat /\ pm \in Int /\ clk \in Int
    BY DEF Init
  <2>2. QED
    BY <2>1, Zenon DEF Init, TypeOK, Places, Bridges, Masks, Bits, Faults
<1>2. CmdInv
  BY DEF Init, CmdInv, Holding
<1>3. ~Busy
  BY DEF Init, Busy, Using
<1>4. DepthInv
  BY DEF Init, DepthInv, Disabled
<1>5. HeldWhileUsed
  BY <1>3 DEF Init, HeldWhileUsed, B
<1>6. QED
  BY <1>1, <1>2, <1>4, <1>5 DEF IInv

(* The two counts follow when they change as what uses them does.          *)
Use == B(power) + B(Busy)

UseValues ==
  /\ Use \in Int
  /\ power /\ Busy => Use = 2
  /\ ~power /\ Busy => Use = 1
  /\ power /\ ~Busy => Use = 1
  /\ ~power /\ ~Busy => Use = 0

LEMMA UseIs == UseValues
<1>1. (power => B(power) = 1) /\ (~power => B(power) = 0)
  BY Zenon DEF B
<1>2. (Busy => B(Busy) = 1) /\ (~Busy => B(Busy) = 0)
  BY Zenon DEF B
<1>3. CASE power /\ Busy
  <2>1. B(power) = 1 /\ B(Busy) = 1
    BY <1>1, <1>2, <1>3, Zenon
  <2>2. Use = 2 /\ Use \in Int
    BY <2>1 DEF Use
  <2>3. QED
    BY <1>3, <2>2, Zenon DEF UseValues
<1>4. CASE power /\ ~Busy
  <2>1. B(power) = 1 /\ B(Busy) = 0
    BY <1>1, <1>2, <1>4, Zenon
  <2>2. Use = 1 /\ Use \in Int
    BY <2>1 DEF Use
  <2>3. QED
    BY <1>4, <2>2, Zenon DEF UseValues
<1>5. CASE ~power /\ Busy
  <2>1. B(power) = 0 /\ B(Busy) = 1
    BY <1>1, <1>2, <1>5, Zenon
  <2>2. Use = 1 /\ Use \in Int
    BY <2>1 DEF Use
  <2>3. QED
    BY <1>5, <2>2, Zenon DEF UseValues
<1>6. CASE ~power /\ ~Busy
  <2>1. B(power) = 0 /\ B(Busy) = 0
    BY <1>1, <1>2, <1>6, Zenon
  <2>2. Use = 0 /\ Use \in Int
    BY <2>1 DEF Use
  <2>3. QED
    BY <1>6, <2>2, Zenon DEF UseValues
<1>7. QED
  BY <1>3, <1>4, <1>5, <1>6

LEMMA UseIsNext == UseValues'
  BY UseIs, PTL

LEMMA CountsFollow ==
  ASSUME IInv, faults \subseteq faults', NEW d \in Int, Use' = Use + d,
         clk' = clk + d \/ "xferClock" \in faults',
         pm' = pm + d \/ "clockLeak" \in faults'
  PROVE  HeldWhileUsed'
<1>1. /\ clk \in Int /\ pm \in Int
      /\ "xferClock" \notin faults' => clk = Use
      /\ "clockLeak" \notin faults' => pm = Use
  BY DEF IInv, TypeOK, HeldWhileUsed, Use
<1>2. Use \in Int /\ Use' \in Int
  BY UseIs, UseIsNext DEF UseValues
<1>3. "xferClock" \notin faults' => clk' = Use'
  BY <1>1, <1>2
<1>4. "clockLeak" \notin faults' => pm' = Use'
  BY <1>1, <1>2
<1>5. QED
  BY <1>3, <1>4 DEF HeldWhileUsed, Use
-----------------------------------------------------------------------------
(* Transfers.                                                              *)

Inside == Places \ {"idle", "lock", "prepare"}

(* A client that does not start or stop using the controller.              *)
LEMMA SameBusy ==
  ASSUME TypeOK, NEW c \in Clients, NEW to \in Places,
         at' = [at EXCEPT ![c] = to],
         at[c] \in Inside <=> to \in Inside
  PROVE  Busy' <=> Busy
BY DEF TypeOK, Busy, Using, Inside

(* One that does: it is the only one, as it holds the mutex.               *)
LEMMA OneBusy ==
  ASSUME TypeOK, CmdInv, NEW c \in Clients, cmd = c,
         at' = [at EXCEPT ![c] = "enable"] \/ at' = [at EXCEPT ![c] = "idle"]
  PROVE  /\ at[c] = "prepare" => ~Busy
         /\ at'[c] = "idle" => ~Busy'
         /\ at'[c] = "enable" => Busy'
BY DEF TypeOK, CmdInv, Holding, Busy, Using

(* What the steps of a transfer leave alone of DepthInv and HeldWhileUsed.      *)
LEMMA XferKeeps ==
  ASSUME IInv, UNCHANGED <<modeset, depth, pm, clk>>, Busy' <=> Busy,
         UNCHANGED faults
  PROVE  DepthInv' /\ HeldWhileUsed'
<1>1. B(Busy)' = B(Busy)
  BY DEF B
<1>2. DepthInv'
  BY DEF IInv, DepthInv, Disabled, modeset, B
<1>3. HeldWhileUsed'
  BY <1>1 DEF IInv, HeldWhileUsed, modeset, B
<1>4. QED
  BY <1>2, <1>3

LEMMA XferStartInv ==
  ASSUME IInv, NEW c \in Clients, XferStart(c) \/ XferLock(c)
  PROVE  IInv'
<1> USE DEF XferStart, XferLock, Moves, XferStep, irq, hardware, modeset, worker
<1>1. TypeOK'
  <2>1. TypeOK
    BY DEF IInv
  <2>2. at' \in [Clients -> Places]
    BY <2>1 DEF TypeOK, Places
  <2>3. cmd' \in Clients \union {None}
    BY <2>1 DEF TypeOK
  <2>4. UNCHANGED <<result, sent, saved, comp, bridge, phy, held, power, depth, pm, clk, ctrl, mask,
                    status, isr, queued, work, dma, late, faults>>
    OBVIOUS
  <2> HIDE DEF XferStart, XferLock, XferStep
  <2>5. QED
    BY <2>1, <2>2, <2>3, <2>4 DEF TypeOK
<1>2. CmdInv'
  BY DEF IInv, TypeOK, CmdInv, Holding
<1>3. PICK to \in Places : at' = [at EXCEPT ![c] = to] /\ (at[c] \in Inside <=> to \in Inside)
  BY DEF Inside, Places
<1>4. Busy' <=> Busy
  BY <1>3, SameBusy DEF IInv
<1>5. DepthInv' /\ HeldWhileUsed'
  BY <1>4, XferKeeps
<1>6. QED
  BY <1>1, <1>2, <1>5 DEF IInv

LEMMA XferPrepareInv ==
  ASSUME IInv, NEW c \in Clients, XferPrepare(c)
  PROVE  IInv'
<1> USE DEF XferPrepare, Moves, XferStep, irq, hardware, modeset, worker
<1>1. TypeOK'
  <2>1. pm' \in Int /\ clk' \in Int
    <3>1. pm \in Int /\ clk \in Int
      BY DEF IInv, TypeOK
    <3>2. pm' = pm + 1 /\ clk' \in {clk, clk + 1}
      OBVIOUS
    <3>3. QED
      BY <3>1, <3>2
  <2>2. at' \in [Clients -> Places] /\ faults' \subseteq Faults
    BY DEF IInv, TypeOK, Places, Faults
  <2>3. QED
    BY <2>1, <2>2 DEF IInv, TypeOK
<1>2. CmdInv' /\ cmd = c
  BY DEF IInv, TypeOK, CmdInv, Holding
<1>3. ~Busy /\ Busy'
  BY <1>2, OneBusy DEF IInv, TypeOK
<1>4. DepthInv'
  BY DEF IInv, DepthInv, Disabled
<1>5. HeldWhileUsed'
  <2>1. Use' = Use + 1
    BY <1>3, UseIs, UseIsNext DEF UseValues
  <2>2. Use \in Int /\ clk \in Int /\ pm \in Int
    BY UseIs DEF UseValues, IInv, TypeOK
  <2>3. pm' = pm + 1 /\ (clk' = clk + 1 \/ "xferClock" \in faults')
    OBVIOUS
  <2>4. faults \subseteq faults'
    OBVIOUS
  <2>5. QED
    BY <2>1, <2>2, <2>3, <2>4, CountsFollow
<1>6. QED
  BY <1>1, <1>2, <1>4, <1>5 DEF IInv

LEMMA XferInsideInv ==
  ASSUME IInv, NEW c \in Clients,
         \/ XferEnable(c) \/ XferUnmask(c) \/ XferReinit(c) \/ XferRefused(c)
         \/ XferTrigger(c) \/ XferDone(c) \/ XferTimeout(c) \/ XferMask(c)
  PROVE  IInv'
<1> USE DEF XferEnable, XferUnmask, XferReinit, XferRefused, XferTrigger, XferDone,
            XferTimeout, XferMask, Moves, XferStep, irq, hardware, modeset, worker
<1>1. PICK to \in Inside : at' = [at EXCEPT ![c] = to] /\ at[c] \in Inside
  BY DEF Inside, Places
<1>2. UNCHANGED <<modeset, depth, pm, clk, faults, cmd, isr, queued, work>>
  OBVIOUS
<1>3. TypeOK'
  <2>1. at' \in [Clients -> Places] /\ result' \in [Clients -> {"none", "ok", "refused", "timeout"}]
    BY <1>1 DEF IInv, TypeOK, Inside
  <2>2. saved' \in BOOLEAN /\ comp' \in BOOLEAN /\ ctrl' \in BOOLEAN
    BY DEF IInv, TypeOK
  <2>3. mask' \subseteq Masks /\ status' \subseteq Bits
    BY DEF IInv, TypeOK, IntrOn, IntrOff, Masks, Bits
  <2>4. dma' \in Clients \union {None} /\ late' \in BOOLEAN /\ sent' \in [Clients -> BOOLEAN]
    BY DEF IInv, TypeOK
  <2>5. QED
    BY <1>2, <2>1, <2>2, <2>3, <2>4 DEF IInv, TypeOK
<1>4. CmdInv'
  BY <1>1, <1>2 DEF IInv, TypeOK, CmdInv, Holding, Inside
<1>5. Busy' <=> Busy
  BY <1>1, SameBusy DEF IInv, Inside
<1>6. DepthInv' /\ HeldWhileUsed'
  BY <1>2, <1>5, XferKeeps
<1>7. QED
  BY <1>3, <1>4, <1>6 DEF IInv

LEMMA XferRestoreInv ==
  ASSUME IInv, NEW c \in Clients, XferRestore(c)
  PROVE  IInv'
<1> USE DEF XferRestore, Moves, XferStep, irq, hardware, modeset, worker
<1>1. TypeOK'
  BY DEF IInv, TypeOK, Places
<1>2. CmdInv' /\ cmd = c
  BY DEF IInv, TypeOK, CmdInv, Holding
<1>3. Busy /\ ~Busy'
  <2>1. Busy
    BY DEF Busy, Using
  <2>2. QED
    BY <1>2, <2>1, OneBusy DEF IInv, TypeOK
<1>4. DepthInv'
  BY DEF IInv, DepthInv, Disabled
<1>5. HeldWhileUsed'
  <2>1. Use' = Use - 1
    BY <1>3, UseIs, UseIsNext DEF UseValues
  <2>2. Use \in Int /\ clk \in Int /\ pm \in Int
    BY UseIs DEF UseValues, IInv, TypeOK
  <2>3. clk' = clk + (-1) /\ pm' = pm + (-1) /\ Use' = Use + (-1)
    BY <2>1, <2>2
  <2>4. QED
    BY <2>3, CountsFollow
<1>6. QED
  BY <1>1, <1>2, <1>4, <1>5 DEF IInv
-----------------------------------------------------------------------------
(* The modeset, the interrupt, its worker and the controller do not touch  *)
(* a transfer's place.                                                     *)

LEMMA SameXfer ==
  ASSUME IInv, UNCHANGED <<at, cmd>>
  PROVE  CmdInv' /\ (Busy' <=> Busy)
BY DEF IInv, CmdInv, Holding, Busy, Using

LEMMA ModesetType ==
  ASSUME IInv, Modeset
  PROVE  TypeOK'
<1> USE DEF Modeset, OnPhy, OnPower, OnPowerFails, OnClockFails, OnIrq, OnEnable, OffQuiet,
            OffMask, OffPower, ModesetStep, PowerOnFails, counts, irq
<1>1. TypeOK /\ DepthInv
  BY DEF IInv
<1>2. UNCHANGED <<at, result, sent, cmd, saved, comp, isr, queued, work, dma, late>>
  BY DEF xfer, worker, hardware
<1>3. depth' \in Nat /\ pm' \in Int /\ clk' \in Int
  <2>1. depth \in Nat /\ pm \in Int /\ clk \in Int /\ (bridge = "irq" => depth >= 1)
    BY <1>1 DEF TypeOK, DepthInv, Disabled
  <2>2. /\ depth' \in {depth, depth + 1} \/ (bridge = "irq" /\ depth' = depth - 1)
        /\ pm' \in {pm, pm + 1, pm - 1} /\ clk' \in {clk, clk + 1, clk - 1}
    OBVIOUS
  <2>3. QED
    BY <2>1, <2>2
<1>4. bridge' \in Bridges
  BY <1>1 DEF TypeOK, Bridges
<1>5. phy' \in BOOLEAN /\ held' \in BOOLEAN
  BY <1>1 DEF TypeOK
<1>6. power' \in BOOLEAN /\ ctrl' \in BOOLEAN
  BY <1>1 DEF TypeOK
<1>7. mask' \subseteq Masks /\ status' \subseteq Bits
  BY <1>1 DEF TypeOK, IntrOn, IntrOff, Masks, Bits
<1>8. faults' \subseteq Faults
  BY <1>1 DEF TypeOK, Faults
<1>9. QED
  BY <1>1, <1>2, <1>3, <1>4, <1>5, <1>6, <1>7, <1>8 DEF TypeOK

(* What a step of the modeset does to what DepthInv speaks of.             *)
LEMMA ModesetDepth ==
  ASSUME IInv, Modeset
  PROVE  DepthInv'
<1> USE DEF ModesetStep, counts, PowerOnFails
<1>1. TypeOK /\ DepthInv /\ depth \in Nat
  BY DEF IInv, TypeOK
<1>2. CASE OnPhy
  <2>1. /\ UNCHANGED <<depth, power>> /\ bridge = "down"
        /\ \/ bridge' = "power" /\ UNCHANGED faults
           \/ bridge' = "up" /\ "powerOn" \in faults'
    BY <1>2 DEF OnPhy
  <2>2. QED
    BY <1>1, <2>1 DEF DepthInv, Disabled
<1>3. CASE OnPower
  <2>1. power' /\ UNCHANGED depth /\ bridge = "power" /\ bridge' = "irq"
        /\ ("powerOn" \notin faults' => "powerOn" \notin faults)
    BY <1>3 DEF OnPower
  <2>2. QED
    BY <1>1, <2>1 DEF DepthInv, Disabled
<1>4. CASE OnPowerFails \/ OnClockFails
  <2>1. UNCHANGED <<depth, power>> /\ bridge = "power" /\ bridge' = "up"
        /\ "powerOn" \in faults'
    BY <1>4 DEF OnPowerFails, OnClockFails
  <2>2. QED
    BY <1>1, <2>1 DEF DepthInv, Disabled
<1>5. CASE OnIrq
  <2>1. depth' = depth - 1 /\ UNCHANGED <<power, faults>> /\ bridge = "irq"
        /\ bridge' = "enable"
    BY <1>5 DEF OnIrq
  <2>2. power /\ ("powerOn" \notin faults => depth = 1)
    BY <1>1, <2>1 DEF DepthInv, Disabled
  <2>3. power' /\ ("powerOn" \notin faults' => depth' = 0)
    BY <2>1, <2>2
  <2>4. QED
    BY <2>1, <2>3 DEF DepthInv, Disabled
<1>6. CASE OnEnable \/ OffQuiet
  <2>1. UNCHANGED <<depth, power>> /\ bridge \in {"enable", "up"} /\ bridge' \in {"up", "mask"}
        /\ ("powerOn" \notin faults' => "powerOn" \notin faults)
    BY <1>6 DEF OnEnable, OffQuiet
  <2>2. QED
    BY <1>1, <2>1 DEF DepthInv, Disabled
<1>7. CASE OffMask
  <2>1. depth' = depth + 1 /\ UNCHANGED <<power, faults>> /\ bridge = "mask"
        /\ bridge' = "off"
    BY <1>7 DEF OffMask
  <2>2. "powerOn" \notin faults => depth = 0
    BY <1>1, <2>1 DEF DepthInv, Disabled
  <2>3. depth' >= 1 /\ ("powerOn" \notin faults' => depth' = 1)
    BY <1>1, <2>1, <2>2
  <2>4. QED
    BY <2>1, <2>3 DEF DepthInv, Disabled
<1>8. CASE OffPower
  <2>1. ~power' /\ UNCHANGED depth /\ bridge = "off" /\ bridge' = "down"
        /\ ("powerOn" \notin faults' => "powerOn" \notin faults)
    BY <1>8 DEF OffPower
  <2>2. depth' >= 1 /\ ("powerOn" \notin faults' => depth' = 1)
    BY <1>1, <2>1 DEF DepthInv, Disabled
  <2>3. QED
    BY <1>1, <2>1, <2>2 DEF DepthInv, Disabled
<1>9. QED
  BY <1>2, <1>3, <1>4, <1>5, <1>6, <1>7, <1>8 DEF Modeset

LEMMA ModesetInv ==
  ASSUME IInv, Modeset
  PROVE  IInv'
<1> USE DEF ModesetStep, counts, PowerOnFails
<1>1. UNCHANGED <<at, cmd>>
  BY DEF xfer, Modeset, OnPhy, OnPower, OnPowerFails, OnClockFails, OnIrq, OnEnable, OffQuiet,
         OffMask, OffPower
<1>2. CmdInv' /\ (Busy' <=> Busy)
  BY <1>1, SameXfer
<1>3. faults \subseteq faults'
  BY DEF Modeset, OnPhy, OnPower, OnPowerFails, OnClockFails, OnIrq, OnEnable, OffQuiet,
         OffMask, OffPower
<1>4. HeldWhileUsed'
  <2>1. CASE UNCHANGED <<power, pm, clk>>
    <3>1. Use' = Use + 0 /\ clk' = clk + 0 /\ pm' = pm + 0
      BY <1>2, <2>1, UseIs, UseIsNext DEF UseValues, IInv, TypeOK
    <3>2. QED
      BY <1>3, <2>1, <3>1, CountsFollow
  <2>2. CASE OnPower
    <3>1. ~power
      BY <2>2 DEF OnPower, IInv, DepthInv
    <3>2. power' /\ clk' = clk + 1 /\ pm' = pm + 1
      BY <2>2, <3>1 DEF OnPower
    <3>3. Use' = Use + 1 /\ Use \in Int /\ clk \in Int /\ pm \in Int
      BY <1>2, <3>1, <3>2, UseIs, UseIsNext DEF UseValues, IInv, TypeOK
    <3>4. QED
      BY <1>3, <3>2, <3>3, CountsFollow
  <2>3. CASE OnClockFails
    <3>1. UNCHANGED <<power, clk>> /\ "clockLeak" \in faults'
      BY <2>3 DEF OnClockFails
    <3>2. Use' = Use + 0 /\ Use \in Int /\ clk \in Int /\ clk' = clk + 0
      BY <1>2, <3>1, UseIs, UseIsNext DEF UseValues, IInv, TypeOK
    <3>3. QED
      BY <1>3, <3>1, <3>2, CountsFollow
  <2>4. CASE OffPower /\ power
    <3>1. ~power' /\ clk' = clk - 1 /\ pm' = pm - 1
      BY <2>4 DEF OffPower
    <3>2. Use' = Use + (-1) /\ clk' = clk + (-1) /\ pm' = pm + (-1)
      BY <1>2, <2>4, <3>1, UseIs, UseIsNext DEF UseValues, IInv, TypeOK
    <3>3. QED
      BY <1>3, <3>1, <3>2, CountsFollow
  <2>5. CASE OffPower /\ ~power
    <3>1. ~power' /\ UNCHANGED <<clk, pm>>
      BY <2>5 DEF OffPower
    <3>2. Use' = Use + 0 /\ clk' = clk + 0 /\ pm' = pm + 0
      BY <1>2, <2>5, <3>1, UseIs, UseIsNext DEF UseValues, IInv, TypeOK
    <3>3. QED
      BY <1>3, <3>1, <3>2, CountsFollow
  <2>6. QED
    BY <2>1, <2>2, <2>3, <2>4, <2>5 DEF Modeset, OnPhy, OnPowerFails, OnIrq, OnEnable,
       OffQuiet, OffMask
<1>5. QED
  BY <1>2, <1>4, ModesetType, ModesetDepth DEF IInv

(* The interrupt side does not touch what the invariant speaks of.         *)
LEMMA IrqKeeps ==
  ASSUME IInv, UNCHANGED <<at, cmd, bridge, power, depth, pm, clk, faults>>
  PROVE  CmdInv' /\ DepthInv' /\ HeldWhileUsed'
<1>1. CmdInv' /\ (Busy' <=> Busy)
  BY SameXfer
<1>2. B(Busy)' = B(Busy)
  BY <1>1 DEF B
<1>3. QED
  BY <1>1, <1>2 DEF IInv, DepthInv, Disabled, HeldWhileUsed, B

LEMMA IrqInv ==
  ASSUME IInv, Irq \/ Work \/ Controller
  PROVE  IInv'
<1> USE DEF Irq, IrqRead, IrqError, IrqDma, Work, WorkStart, WorkEnd, Controller, DmaDone,
            LateDone, LinkError, IrqStep, HwStep, modeset, counts, worker, irq, hardware,
            IntrOn, IntrOff
<1>1. CmdInv' /\ DepthInv' /\ HeldWhileUsed'
  <2>1. UNCHANGED <<at, cmd, bridge, power, depth, pm, clk, faults>>
    OBVIOUS
  <2>2. QED
    BY <2>1, IrqKeeps
<1>2. TypeOK'
  <2> USE DEF TypeOK
  <2>1. TypeOK
    BY DEF IInv
  <2>2. UNCHANGED <<at, result, cmd, saved, bridge, phy, held, power, depth, pm, clk, faults>>
    OBVIOUS
  <2>3. comp' \in BOOLEAN /\ ctrl' \in BOOLEAN
    BY <2>1
  <2>4. queued' \in BOOLEAN /\ late' \in BOOLEAN /\ work' \in {"no", "running", "reset"}
    BY <2>1
  <2>5. sent' \in [Clients -> BOOLEAN] /\ dma' \in Clients \union {None}
    BY <2>1
  <2>6. mask' \subseteq Masks /\ status' \subseteq Bits /\ isr' \subseteq Bits
    BY <2>1 DEF Masks, Bits
  <2>7. QED
    BY <2>1, <2>2, <2>3, <2>4, <2>5, <2>6
<1>3. QED
  BY <1>1, <1>2 DEF IInv

LEMMA StepInv == IInv /\ [Next]_vars => IInv'
<1>1. ASSUME IInv, UNCHANGED vars PROVE IInv'
  <2> USE DEF vars, xfer, modeset, counts, irq, worker, hardware
  <2>1. UNCHANGED <<at, cmd, bridge, power, depth, pm, clk, faults>>
    BY <1>1
  <2>2. CmdInv' /\ DepthInv' /\ HeldWhileUsed'
    BY <1>1, <2>1, IrqKeeps
  <2>3. TypeOK'
    BY <1>1 DEF IInv, TypeOK
  <2>4. QED
    BY <2>2, <2>3 DEF IInv
<1>2. ASSUME IInv, NEW c \in Clients, Xfer(c) PROVE IInv'
  BY <1>2, XferStartInv, XferPrepareInv, XferInsideInv, XferRestoreInv DEF Xfer
<1>3. QED
  BY <1>1, <1>2, ModesetInv, IrqInv DEF Next

LEMMA Invariance == Spec => []IInv
  BY InitInv, StepInv, PTL DEF Spec
-----------------------------------------------------------------------------
(* What becomes of a command, and of the controller.                       *)

Level == power /\ bridge \notin {"mask", "off"}

(* Unless two of its writers meet, DSI_CTRL_ENABLE is as the modeset has   *)
(* set it, or will be again when the one under way is done.                *)
CtrlInv ==
  /\ Crossing => crossed
  /\ ~crossed =>
       /\ ~Busy /\ ~Resetting => ctrl = Level
       /\ Resetting => Level
       /\ \A c \in Clients : Using(c) => IF at[c] = "enable" THEN ctrl = Level ELSE saved = Level

(* A completion that has not come too early is of the client's own command.*)
SendOf(c) ==
  /\ at[c] = "trigger" => ~comp
  /\ at[c] = "wait" /\ comp => sent[c]
  /\ Ending(c) /\ result[c] = "ok" => sent[c]
SendInv == ~stale => \A c \in Clients : SendOf(c)

(* The interrupt of a client that waits is unmasked; that of its command   *)
(* is on its way, unless the register was written beside the wait.         *)
WaitOf(c) ==
  /\ at[c] \in {"reinit", "trigger", "wait"} => "dma" \in mask
  /\ ~beside /\ at[c] = "wait" => depth = 0 /\ (sent[c] => OnItsWay)
WaitInv == \A c \in Clients : WaitOf(c)

TimeOf(c) ==
  Ending(c) /\ result[c] = "timeout" => dma # c /\ (sent[c] => beside)
TimeInv == \A c \in Clients : TimeOf(c)

LinkInv == CtrlInv /\ SendInv /\ WaitInv /\ TimeInv

LEMMA LinkInit == HistoryInit => LinkInv
<1> SUFFICES ASSUME HistoryInit PROVE LinkInv
  OBVIOUS
<1>1. ~Busy /\ \A c \in Clients : ~Using(c) /\ ~Ending(c) /\ at[c] = "idle"
  BY DEF HistoryInit, Init, Busy, Using, Ending
<1>2. CtrlInv
  BY <1>1 DEF HistoryInit, Init, CtrlInv, Level, Crossing, Switching, Resetting
<1>3. SendInv /\ WaitInv /\ TimeInv
  BY <1>1 DEF SendInv, SendOf, WaitInv, WaitOf, TimeInv, TimeOf
<1>4. QED
  BY <1>2, <1>3 DEF LinkInv

(* What a client's step leaves alone, and what the others' steps do.       *)
LEMMA XferLeaves ==
  ASSUME TypeOK, NEW c \in Clients, Xfer(c)
  PROVE  /\ UNCHANGED <<bridge, power, depth, isr, queued, work>>
         /\ \A d \in Clients : d # c => at'[d] = at[d]
<1>1. at \in [Clients -> Places]
  BY DEF TypeOK
<1>2. UNCHANGED <<bridge, power, depth, isr, queued, work>>
  BY DEF Xfer, XferStart, XferLock, XferPrepare, XferEnable, XferUnmask, XferReinit, XferRefused,
     XferTrigger, XferDone, XferTimeout, XferMask, XferRestore, XferStep, modeset, worker
<1>3. \E to \in Places : at' = [at EXCEPT ![c] = to]
  BY DEF Xfer, XferStart, XferLock, XferPrepare, XferEnable, XferUnmask, XferReinit, XferRefused,
     XferTrigger, XferDone, XferTimeout, XferMask, XferRestore, Moves, Places
<1>4. QED
  BY <1>1, <1>2, <1>3

(* While a client is inside of a transfer the others only come to the lock.*)
LEMMA Alone ==
  ASSUME IInv, NEW c \in Clients, Holding(c), NEW d \in Clients, d # c, Xfer(d)
  PROVE  XferStart(d) /\ at[d] = "idle" /\ at'[d] = "lock" /\ ~Holding(d)
<1>1. cmd = c /\ cmd # d /\ c # None
  BY DsiAssumption DEF IInv, CmdInv
<1>2. ~Holding(d)
  BY <1>1 DEF IInv, CmdInv
<1>3. XferStart(d)
  BY <1>1, <1>2 DEF Xfer, XferLock, XferPrepare, XferEnable, XferUnmask, XferReinit, XferRefused,
     XferTrigger, XferDone, XferTimeout, XferMask, XferRestore, Moves, Holding
<1>4. QED
  BY <1>2, <1>3 DEF XferStart, IInv, TypeOK

LEMMA OthersLeave ==
  ASSUME Modeset \/ Irq \/ Work \/ Controller
  PROVE  /\ UNCHANGED <<at, result, cmd, saved>>
         /\ Busy' <=> Busy
         /\ Modeset => UNCHANGED <<sent, comp, isr, queued, work, dma, late>>
         /\ Irq \/ Work \/ Controller => UNCHANGED <<bridge, power, depth>>
<1>1. ASSUME Modeset
      PROVE  UNCHANGED <<at, result, cmd, saved, sent, comp, isr, queued, work, dma, late>>
  BY <1>1 DEF Modeset, OnPhy, OnPower, OnPowerFails, OnClockFails, OnIrq, OnEnable, OffQuiet,
     OffMask, OffPower, ModesetStep, xfer, hardware, worker
<1>2. ASSUME Irq \/ Work \/ Controller
      PROVE  UNCHANGED <<at, result, cmd, saved, bridge, power, depth>>
  BY <1>2 DEF Irq, IrqRead, IrqError, IrqDma, IrqStep, Work, WorkStart, WorkEnd, Controller,
     DmaDone, LateDone, LinkError, HwStep, modeset, counts
<1>3. UNCHANGED at
  BY <1>1, <1>2
<1>4. Busy' <=> Busy
  BY <1>3 DEF Busy, Using
<1>5. QED
  BY <1>1, <1>2, <1>4

(* The modeset sets DSI_CTRL_ENABLE to the level it is said to have.       *)
LEMMA ModesetLevel ==
  ASSUME TypeOK, DepthInv, Modeset, ctrl = Level
  PROVE  ctrl' = Level'
<1> USE DEF Level, PowerOnFails
<1>1. CASE OnPhy
  BY <1>1 DEF OnPhy
<1>2. CASE OnPower
  BY <1>2 DEF OnPower, TypeOK
<1>3. CASE OnPowerFails
  BY <1>3 DEF OnPowerFails
<1>4. CASE OnClockFails
  BY <1>4 DEF OnClockFails
<1>5. CASE OnIrq
  BY <1>5 DEF OnIrq
<1>6. CASE OnEnable
  BY <1>6 DEF OnEnable, DepthInv, TypeOK
<1>7. CASE OffQuiet
  BY <1>7 DEF OffQuiet
<1>8. CASE OffMask
  BY <1>8 DEF OffMask
<1>9. CASE OffPower
  BY <1>9 DEF OffPower
<1>10. QED
  BY <1>1, <1>2, <1>3, <1>4, <1>5, <1>6, <1>7, <1>8, <1>9 DEF Modeset

(* ... whatever was in it, where it ends up at rest.                       *)
LEMMA SettlesLevel ==
  ASSUME TypeOK, DepthInv, Settles
  PROVE  ctrl' = Level' /\ ~Busy' /\ ~Resetting' /\ ~Busy /\ \A c \in Clients : ~Using(c)'
<1>1. Modeset /\ Switching /\ ~Busy /\ ~Resetting
  BY DEF Settles, Modeset, Switching, Crossing, OnEnable, OffPower
<1>2. ~Busy' /\ UNCHANGED work
  BY <1>1, OthersLeave
<1>3. ctrl' = Level'
  <2>1. CASE OnEnable
    BY <2>1 DEF OnEnable, Level, DepthInv, TypeOK
  <2>2. CASE OffPower /\ power
    BY <2>2 DEF OffPower, Level
  <2>3. QED
    BY <2>1, <2>2 DEF Settles
<1>4. QED
  BY <1>1, <1>2, <1>3 DEF Resetting, Busy

LEMMA CtrlStep ==
  ASSUME IInv, LinkInv, HistoryNext
  PROVE  CtrlInv'
<1>1. TypeOK /\ CmdInv /\ DepthInv /\ Next /\ Histories
  BY DEF IInv, HistoryNext
<1>2. CASE Settles
  BY <1>1, <1>2, SettlesLevel DEF CtrlInv, Crossing
<1>3. CASE ~Settles
  <2> DEFINE Set ==
        /\ ~Busy /\ ~Resetting => ctrl = Level
        /\ Resetting => Level
        /\ \A c \in Clients :
             Using(c) => IF at[c] = "enable" THEN ctrl = Level ELSE saved = Level
  <2>1. crossed' = (crossed \/ Crossing')
    BY <1>1, <1>3 DEF Histories
  <2>2. SUFFICES ASSUME ~crossed' PROVE Set'
    BY <2>1 DEF CtrlInv
  <2>3. ~Crossing /\ ~Crossing' /\ Set
    BY <2>1, <2>2 DEF LinkInv, CtrlInv
  <2>4. ASSUME NEW c \in Clients, Xfer(c) PROVE Set'
    <3>1. /\ Level' = Level /\ (Resetting' <=> Resetting)
          /\ \A d \in Clients : d # c => at'[d] = at[d]
      BY <1>1, <2>4, XferLeaves DEF Level, Resetting
    <3>2. Holding(c) => \A d \in Clients : d # c => ~Using(d) /\ ~Using(d)'
      BY <1>1, <3>1 DEF CmdInv, Holding, Using
    <3>3. CASE XferStart(c) \/ XferLock(c)
      <4>1. UNCHANGED <<ctrl, saved>> /\ ~Using(c) /\ ~Using(c)'
        BY <1>1, <3>3 DEF XferStart, XferLock, Moves, Using, TypeOK
      <4>2. QED
        BY <2>3, <3>1, <4>1 DEF Busy, Using
    <3>4. CASE XferPrepare(c)
      <4>1. UNCHANGED ctrl /\ at[c] = "prepare" /\ at'[c] = "enable"
        BY <1>1, <3>4 DEF XferPrepare, Moves, TypeOK
      <4>2. ~Busy /\ Busy'
        BY <3>2, <4>1 DEF Busy, Using, Holding
      <4>3. ~Resetting
        BY <2>3, <3>1, <4>2 DEF Crossing
      <4>4. QED
        BY <2>3, <3>1, <3>2, <4>1, <4>2, <4>3 DEF Holding
    <3>5. CASE XferEnable(c)
      <4>1. saved' = ctrl /\ at[c] = "enable" /\ at'[c] = "unmask"
        BY <1>1, <3>5 DEF XferEnable, Moves, TypeOK
      <4>2. Using(c) /\ Busy'
        BY <4>1 DEF Busy, Using
      <4>3. QED
        BY <2>3, <3>1, <3>2, <4>1, <4>2 DEF Holding
    <3>6. CASE \/ XferUnmask(c) \/ XferReinit(c) \/ XferRefused(c) \/ XferTrigger(c)
               \/ XferDone(c) \/ XferTimeout(c) \/ XferMask(c)
      <4>1. UNCHANGED <<ctrl, saved>> /\ Using(c) /\ Using(c)' /\ Holding(c)
            /\ at[c] # "enable" /\ at'[c] # "enable"
        BY <1>1, <3>6 DEF XferUnmask, XferReinit, XferRefused, XferTrigger, XferDone, XferTimeout,
           XferMask, Moves, TypeOK, Using, Holding
      <4>2. Busy'
        BY <4>1 DEF Busy
      <4>3. QED
        BY <2>3, <3>1, <3>2, <4>1, <4>2
    <3>7. CASE XferRestore(c)
      <4>1. ctrl' = saved /\ at[c] = "restore" /\ at'[c] = "idle"
        BY <1>1, <3>7 DEF XferRestore, Moves, TypeOK
      <4>2. Using(c) /\ ~Using(c)' /\ Holding(c)
        BY <4>1 DEF Using, Holding
      <4>3. QED
        BY <2>3, <3>1, <3>2, <4>1, <4>2
    <3>8. QED
      BY <2>4, <3>3, <3>4, <3>5, <3>6, <3>7 DEF Xfer
  <2>5. CASE Modeset
    <3>1. UNCHANGED <<at, saved, work>> /\ (Busy' <=> Busy)
      BY <2>5, OthersLeave
    <3>2. CASE Busy \/ Resetting
      <4>1. ~Switching /\ ~Switching'
        BY <2>3, <3>1, <3>2 DEF Crossing, Resetting
      <4>2. OnPhy
        BY <2>5, <4>1 DEF Modeset, OnPower, OnPowerFails, OnClockFails, OnIrq, OnEnable,
           OffQuiet, OffMask, OffPower, Switching
      <4>3. UNCHANGED <<ctrl, power>> /\ Level' = Level
        BY <4>2 DEF OnPhy, PowerOnFails, Level
      <4>4. QED
        BY <2>3, <3>1, <4>3 DEF Using, Resetting
    <3>3. CASE ~Busy /\ ~Resetting
      <4>1. ctrl' = Level'
        BY <1>1, <2>3, <2>5, <3>3, ModesetLevel
      <4>2. ~Busy' /\ ~Resetting'
        BY <3>1, <3>3 DEF Resetting
      <4>3. QED
        BY <4>1, <4>2 DEF Busy
    <3>4. QED
      BY <3>2, <3>3
  <2>6. CASE Work
    <3>1. UNCHANGED <<at, saved, bridge, power>> /\ (Busy' <=> Busy) /\ Level' = Level
      BY <2>6, OthersLeave DEF Level
    <3>2. CASE WorkStart
      <4>1. /\ work = "no" /\ (Resetting' => ctrl /\ ~Resetting)
            /\ (~Resetting' => ctrl' = ctrl)
        BY <1>1, <3>2 DEF WorkStart, Resetting, TypeOK
      <4>2. CASE Resetting'
        <5>1. ~Busy /\ ctrl = Level
          BY <2>3, <3>1, <4>1, <4>2 DEF Crossing
        <5>2. ~Busy' /\ Level'
          BY <3>1, <4>1, <4>2, <5>1
        <5>3. QED
          BY <4>2, <5>2 DEF Busy
      <4>3. CASE ~Resetting'
        BY <2>3, <3>1, <4>1, <4>3 DEF Using, Resetting
      <4>4. QED
        BY <4>2, <4>3
    <3>3. CASE WorkEnd
      <4>1. ~Resetting' /\ ctrl' = (ctrl \/ Resetting)
        BY <3>3 DEF WorkEnd, Resetting
      <4>2. CASE Resetting
        <5>1. ~Busy /\ Level
          BY <2>3, <4>2 DEF Crossing
        <5>2. ~Busy' /\ ctrl' = TRUE /\ Level'
          BY <3>1, <4>1, <4>2, <5>1
        <5>3. Level \in BOOLEAN
          BY DEF Level
        <5>4. QED
          BY <3>1, <4>1, <5>2, <5>3 DEF Busy
      <4>3. CASE ~Resetting
        <5>1. ctrl' = ctrl
          BY <1>1, <4>1, <4>3 DEF TypeOK
        <5>2. QED
          BY <2>3, <3>1, <4>1, <4>3, <5>1 DEF Using
      <4>4. QED
        BY <4>2, <4>3
    <3>4. QED
      BY <2>6, <3>2, <3>3 DEF Work
  <2>7. CASE Irq \/ Controller
    <3>1. UNCHANGED <<at, saved, bridge, power, ctrl, work>> /\ (Busy' <=> Busy)
      BY <2>7, OthersLeave DEF Irq, IrqRead, IrqError, IrqDma, IrqStep, Controller, DmaDone,
         LateDone, LinkError, HwStep, worker
    <3>2. QED
      BY <2>3, <3>1 DEF Level, Using, Resetting
  <2>8. QED
    BY <1>1, <2>4, <2>5, <2>6, <2>7 DEF Next
<1>4. QED
  BY <1>2, <1>3

LEMMA SendStep ==
  ASSUME IInv, LinkInv, HistoryNext
  PROVE  SendInv'
<1>1. SUFFICES ASSUME ~stale', NEW d \in Clients, at'[d] = "trigger" \/ at'[d] = "wait" \/ Ending(d)'
               PROVE  SendOf(d)'
  BY DEF SendInv, SendOf
<1>2. TypeOK /\ Next /\ d \in Clients
  BY DEF IInv, HistoryNext
<1>3. ~stale /\ ~(IrqDma /\ Unsent)
  <2>1. Triggered'
    BY <1>1 DEF Triggered, Ending
  <2>2. QED
    BY <1>1, <2>1 DEF HistoryNext, Histories
<1>4. SendOf(d)
  BY <1>3 DEF LinkInv, SendInv
<1> USE DEF SendOf, Ending
<1>5. ASSUME Xfer(d) PROVE SendOf(d)'
  <2> USE DEF Moves, TypeOK
  <2>1. CASE XferReinit(d)
    BY <1>2, <2>1 DEF XferReinit
  <2>2. CASE XferRefused(d)
    BY <1>2, <2>2 DEF XferRefused
  <2>3. CASE XferTrigger(d)
    BY <1>2, <1>4, <2>3 DEF XferTrigger
  <2>4. CASE XferDone(d)
    BY <1>2, <1>4, <2>4 DEF XferDone
  <2>5. CASE XferTimeout(d)
    BY <1>2, <2>5 DEF XferTimeout
  <2>6. CASE XferMask(d)
    BY <1>2, <1>4, <2>6 DEF XferMask
  <2>7. CASE \/ XferStart(d) \/ XferLock(d) \/ XferPrepare(d) \/ XferEnable(d)
             \/ XferUnmask(d) \/ XferRestore(d)
    BY <1>1, <1>2, <2>7 DEF XferStart, XferLock, XferPrepare, XferEnable, XferUnmask, XferRestore
  <2>8. QED
    BY <1>5, <2>1, <2>2, <2>3, <2>4, <2>5, <2>6, <2>7 DEF Xfer
<1>6. ASSUME NEW c \in Clients, c # d, Xfer(c) PROVE SendOf(d)'
  <2>1. at'[d] = at[d] /\ Holding(d)
    BY <1>1, <1>2, <1>6, XferLeaves DEF Holding
  <2>2. UNCHANGED <<comp, sent, result>>
    BY <1>6, <2>1, Alone DEF XferStart
  <2>3. QED
    BY <1>4, <2>1, <2>2
<1>7. CASE Modeset
  BY <1>4, <1>7, OthersLeave
<1>8. CASE IrqDma
  <2>1. UNCHANGED <<at, result, sent>>
    BY <1>8 DEF IrqDma, IrqStep
  <2>2. at[d] # "trigger" /\ (at[d] = "wait" => sent[d])
    BY <1>3, <1>8 DEF Unsent
  <2>3. QED
    BY <1>4, <2>1, <2>2
<1>9. CASE DmaDone
  <2>1. UNCHANGED <<at, result, comp>> /\ (sent[d] => sent'[d])
    BY <1>2, <1>9 DEF DmaDone, HwStep, TypeOK
  <2>2. QED
    BY <1>4, <2>1
<1>10. CASE IrqRead \/ IrqError \/ Work \/ LateDone \/ LinkError
  <2>1. UNCHANGED <<at, result, sent, comp>>
    BY <1>10 DEF IrqRead, IrqError, Work, WorkStart, WorkEnd, LateDone, LinkError, IrqStep,
       HwStep, hardware
  <2>2. QED
    BY <1>4, <2>1
<1>11. QED
  BY <1>2, <1>5, <1>6, <1>7, <1>8, <1>9, <1>10 DEF Next, Irq, Controller

LEMMA WaitStep ==
  ASSUME IInv, LinkInv, HistoryNext
  PROVE  WaitInv'
<1>1. SUFFICES ASSUME NEW d \in Clients PROVE WaitOf(d)'
  BY DEF WaitInv
<1>2. TypeOK /\ Next /\ Histories /\ WaitOf(d)
  BY DEF IInv, HistoryNext, LinkInv, WaitInv
<1> DEFINE Sending == at[d] \in {"reinit", "trigger", "wait"}
<1>3. Sending' => "dma" \in mask'
  <2>1. SUFFICES ASSUME Sending' PROVE "dma" \in mask'
    OBVIOUS
  <2>2. CASE Xfer(d)
    <3>1. XferUnmask(d) \/ XferReinit(d) \/ XferTrigger(d)
      BY <1>2, <2>1, <2>2 DEF Xfer, XferStart, XferLock, XferPrepare, XferEnable, XferRefused,
         XferDone, XferTimeout, XferMask, XferRestore, Moves, TypeOK
    <3>2. QED
      BY <1>2, <3>1 DEF XferUnmask, XferReinit, XferTrigger, IntrOn, irq, Moves, WaitOf
  <2>3. ASSUME NEW c \in Clients, c # d, Xfer(c) PROVE "dma" \in mask'
    <3>1. at'[d] = at[d] /\ Holding(d)
      BY <1>2, <2>1, <2>3, XferLeaves DEF Holding
    <3>2. UNCHANGED mask
      BY <2>3, <3>1, Alone DEF XferStart, irq
    <3>3. QED
      BY <1>2, <2>1, <3>1, <3>2 DEF WaitOf
  <2>4. CASE Modeset \/ Irq \/ Work \/ Controller
    <3>1. UNCHANGED at /\ "dma" \in mask
      BY <1>2, <2>1, <2>4, OthersLeave DEF WaitOf
    <3>2. CASE Modeset
      BY <3>1, <3>2 DEF Modeset, OnPhy, OnPower, OnPowerFails, OnClockFails, OnIrq, OnEnable,
         OffQuiet, OffMask, OffPower, PowerOnFails, IntrOn, IntrOff, irq
    <3>3. CASE Irq \/ Work \/ Controller
      BY <3>1, <3>3 DEF Irq, IrqRead, IrqError, IrqDma, Work, WorkStart, WorkEnd, Controller,
         DmaDone, LateDone, LinkError, HwStep, IntrOn, IntrOff, irq
    <3>4. QED
      BY <2>4, <3>2, <3>3
  <2>5. QED
    BY <1>2, <2>2, <2>3, <2>4 DEF Next
<1>4. ASSUME ~beside', at'[d] = "wait" PROVE depth' = 0 /\ (sent'[d] => OnItsWay')
  <2>1. ~beside /\ depth' = 0 /\ ~Rewrites
    <3>1. Triggered' /\ Waiting'
      BY <1>4 DEF Triggered, Waiting
    <3>2. QED
      BY <1>2, <1>4, <3>1 DEF Histories
  <2>2. at[d] = "wait" => depth = 0 /\ (sent[d] => OnItsWay)
    BY <1>2, <2>1 DEF WaitOf
  <2>3. CASE Xfer(d)
    <3>1. XferTrigger(d)
      BY <1>2, <1>4, <2>3 DEF Xfer, XferStart, XferLock, XferPrepare, XferEnable, XferUnmask,
         XferReinit, XferRefused, XferDone, XferTimeout, XferMask, XferRestore, Moves, TypeOK
    <3>2. ~sent'[d]
      BY <1>2, <3>1 DEF XferTrigger, TypeOK
    <3>3. QED
      BY <2>1, <3>2
  <2>4. ASSUME NEW c \in Clients, c # d, Xfer(c) PROVE sent'[d] => OnItsWay'
    <3>1. at[d] = "wait" /\ Holding(d)
      BY <1>2, <1>4, <2>4, XferLeaves DEF Holding
    <3>2. UNCHANGED <<comp, isr, depth, mask, status, sent>>
      BY <2>4, <3>1, Alone DEF XferStart, XferStep, irq
    <3>3. QED
      BY <2>2, <3>1, <3>2 DEF OnItsWay
  <2>5. CASE Modeset
    <3>1. at[d] = "wait" /\ depth = 0 /\ UNCHANGED <<comp, isr, sent>>
      BY <1>4, <2>2, <2>5, OthersLeave
    <3>2. ~OnPower
      BY <3>1 DEF OnPower, IInv, DepthInv, Disabled
    <3>3. UNCHANGED <<mask, status>>
      BY <2>1, <2>5, <3>2 DEF Modeset, OnPhy, OnPowerFails, OnClockFails, OnIrq, OffMask,
         OffPower, PowerOnFails, Rewrites, irq
    <3>4. QED
      BY <2>1, <2>2, <3>1, <3>3 DEF OnItsWay
  <2>6. CASE Irq \/ Work \/ Controller
    <3>1. at[d] = "wait" /\ depth = 0 /\ UNCHANGED depth
      BY <1>4, <2>2, <2>6, OthersLeave
    <3>2. CASE IrqRead
      BY <2>2, <3>1, <3>2 DEF IrqRead, IrqStep, OnItsWay
    <3>3. CASE IrqDma
      BY <3>1, <3>3 DEF IrqDma, OnItsWay
    <3>4. CASE WorkStart
      BY <2>2, <3>1, <3>4 DEF WorkStart, IrqStep, irq, OnItsWay
    <3>5. ~IrqError /\ ~WorkEnd
      BY <2>1 DEF Rewrites
    <3>6. CASE Controller
      <4>1. UNCHANGED <<comp, isr, mask>> /\ status \subseteq status'
        BY <3>6 DEF Controller, DmaDone, LateDone, LinkError, HwStep
      <4>2. UNCHANGED sent \/ "dma" \in status'
        BY <3>6 DEF Controller, DmaDone, LateDone, LinkError, hardware
      <4>3. "dma" \in mask
        BY <1>2, <3>1 DEF WaitOf
      <4>4. QED
        BY <2>2, <3>1, <4>1, <4>2, <4>3 DEF OnItsWay
    <3>7. QED
      BY <2>6, <3>2, <3>3, <3>4, <3>5, <3>6 DEF Irq, Work
  <2>7. QED
    BY <1>2, <2>1, <2>3, <2>4, <2>5, <2>6 DEF Next
<1>5. QED
  BY <1>3, <1>4 DEF WaitOf

LEMMA TimeStep ==
  ASSUME IInv, LinkInv, HistoryNext
  PROVE  TimeInv'
<1>1. SUFFICES ASSUME NEW d \in Clients, Ending(d)', result'[d] = "timeout"
               PROVE  dma' # d /\ (sent'[d] => beside')
  BY DEF TimeInv, TimeOf
<1>2. TypeOK /\ Next /\ TimeOf(d) /\ d # None
  BY DsiAssumption DEF IInv, HistoryNext, LinkInv, TimeInv
<1>3. beside => beside'
  <2>1. Triggered'
    BY <1>1 DEF Triggered, Ending
  <2>2. QED
    BY <2>1 DEF HistoryNext, Histories
<1> USE DEF TimeOf, Ending
<1>4. CASE Xfer(d)
  <2> USE DEF Moves, TypeOK
  <2>1. CASE XferTimeout(d)
    <3>1. ~beside => ~sent[d]
      BY <2>1 DEF XferTimeout, LinkInv, WaitInv, WaitOf
    <3>2. dma' # d /\ UNCHANGED sent
      BY <1>2, <2>1 DEF XferTimeout, hardware
    <3>3. sent[d] \in BOOLEAN
      BY <1>2
    <3>4. QED
      BY <1>3, <3>1, <3>2, <3>3
  <2>2. CASE XferMask(d)
    BY <1>1, <1>2, <1>3, <2>2 DEF XferMask, hardware
  <2>3. CASE XferRefused(d) \/ XferDone(d)
    BY <1>1, <1>2, <2>3 DEF XferRefused, XferDone
  <2>4. CASE \/ XferStart(d) \/ XferLock(d) \/ XferPrepare(d) \/ XferEnable(d)
             \/ XferUnmask(d) \/ XferReinit(d) \/ XferTrigger(d) \/ XferRestore(d)
    BY <1>1, <1>2, <2>4 DEF XferStart, XferLock, XferPrepare, XferEnable, XferUnmask, XferReinit,
       XferTrigger, XferRestore
  <2>5. QED
    BY <1>4, <2>1, <2>2, <2>3, <2>4 DEF Xfer
<1>5. ASSUME NEW c \in Clients, c # d, Xfer(c)
      PROVE  dma' # d /\ (sent'[d] => beside')
  <2>1. at'[d] = at[d] /\ Holding(d)
    BY <1>1, <1>2, <1>5, XferLeaves DEF Holding
  <2>2. UNCHANGED <<dma, sent, result>>
    BY <1>5, <2>1, Alone DEF XferStart, hardware
  <2>3. QED
    BY <1>1, <1>2, <1>3, <2>1, <2>2
<1>6. CASE Modeset \/ Irq \/ Work \/ LateDone \/ LinkError
  <2>1. UNCHANGED <<at, result, sent, dma>>
    BY <1>6, OthersLeave DEF Irq, IrqRead, IrqError, IrqDma, Work, WorkStart, WorkEnd, LateDone,
       LinkError, IrqStep, HwStep, hardware
  <2>2. QED
    BY <1>1, <1>2, <1>3, <2>1
<1>7. CASE DmaDone
  <2>1. /\ UNCHANGED <<at, result>> /\ dma' = None
        /\ (dma # d => sent'[d] = sent[d])
    BY <1>2, <1>7 DEF DmaDone, HwStep, TypeOK
  <2>2. QED
    BY <1>1, <1>2, <1>3, <2>1
<1>8. QED
  BY <1>2, <1>4, <1>5, <1>6, <1>7 DEF Next, Controller

LEMMA LinkInvariance == HistorySpec => [](IInv /\ LinkInv)
<1>1. IInv /\ LinkInv /\ [HistoryNext]_<<vars, history>> => LinkInv'
  <2>1. ASSUME LinkInv, UNCHANGED <<vars, history>> PROVE LinkInv'
    <3> USE DEF vars, history, xfer, modeset, counts, irq, worker, hardware
    <3>1. Busy' <=> Busy
      BY <2>1 DEF Busy, Using
    <3>2. CtrlInv'
      BY <2>1, <3>1 DEF LinkInv, CtrlInv, Level, Using, Crossing, Switching, Resetting
    <3>3. SendInv'
      BY <2>1 DEF LinkInv, SendInv, SendOf, Ending
    <3>4. WaitInv'
      BY <2>1 DEF LinkInv, WaitInv, WaitOf, OnItsWay
    <3>5. TimeInv'
      BY <2>1 DEF LinkInv, TimeInv, TimeOf, Ending
    <3>6. QED
      BY <3>2, <3>3, <3>4, <3>5 DEF LinkInv
  <2>2. QED
    BY <2>1, CtrlStep, SendStep, WaitStep, TimeStep DEF LinkInv
<1>2. IInv /\ [HistoryNext]_<<vars, history>> => IInv'
  <2>1. [HistoryNext]_<<vars, history>> => [Next]_vars
    BY DEF HistoryNext
  <2>2. QED
    BY <2>1, StepInv
<1>3. HistoryInit => IInv /\ LinkInv
  BY InitInv, LinkInit DEF HistoryInit
<1>4. QED
  BY <1>1, <1>2, <1>3, PTL DEF HistorySpec
-----------------------------------------------------------------------------
(* The state of the host, the manager and the transfers is well typed; in  *)
(* particular enable_irq never underflows (dsi_host.c, dsi_manager.c).     *)
THEOREM TypeCorrect == Spec => []TypeOK
  BY Invariance, PTL DEF IInv

(* The interrupt of the controller is enabled only with power, over every  *)
(* sequence of failed and successful power-ons, and until one fails an     *)
(* enabled bridge has it enabled (dsi_mgr_bridge_power_on,                 *)
(* dsi_mgr_bridge_post_disable).                                           *)
THEOREM IrqFollows == Spec => []IrqFollowsPower
<1>1. IInv => depth >= 0
  BY DEF IInv, TypeOK
<1>2. IInv => (depth = 0 => power)
  BY Zenon DEF IInv, DepthInv
<1>3. IInv => ("powerOn" \notin faults => PanelCanTalk)
  BY DEF IInv, DepthInv, Disabled, PanelCanTalk, B
<1>4. IInv => IrqFollowsPower
  BY <1>1, <1>2, <1>3, Zenon DEF IrqFollowsPower
<1>5. QED
  BY <1>4, Invariance, PTL

(* Link clocks and runtime PM references are counted right, for every      *)
(* number of clients and of failed power-ons (msm_dsi_host_xfer_prepare,   *)
(* msm_dsi_host_power_on).                                                 *)
THEOREM HeldCounted == Spec => []HeldWhileUsed
  BY Invariance, PTL DEF IInv

(* A transfer that returns success takes the completion of its own         *)
(* command, or one that came between its reinit and the end of its         *)
(* command, whoever else transfers, switches the host or handles errors    *)
(* (dsi_cmd_dma_tx, dsi_host_irq).                                         *)
THEOREM OkIsSent == HistorySpec => []OkMeansSent
<1>1. LinkInv => OkMeansSent
  BY DEF LinkInv, SendInv, SendOf, OkMeansSent
<1>2. QED
  BY <1>1, LinkInvariance, PTL

(* A command that was sent is reported as a success, unless the interrupt  *)
(* was disabled, or the modeset or the error path wrote its register,      *)
(* while that transfer waited; no fault outside of the wait loses its      *)
(* completion (dsi_intr_ctrl, dsi_host_irq, dsi_cmd_dma_tx).               *)
THEOREM SentIsOk == HistorySpec => []SentMeansOk
<1>1. LinkInv => SentMeansOk
  BY DEF LinkInv, TimeInv, TimeOf, SentMeansOk
<1>2. QED
  BY <1>1, LinkInvariance, PTL

(* At rest DSI_CTRL_ENABLE is as the power is, unless two of transfer,     *)
(* modeset and reset have met since the modeset last set it                *)
(* (msm_dsi_host_xfer_prepare, msm_dsi_host_xfer_restore, dsi_sw_reset).   *)
THEOREM CtrlFollows == HistorySpec => []ControllerFollows
<1>1. ASSUME IInv, LinkInv, Quiet, ~crossed
      PROVE  ctrl = power
  <2>1. ~Busy /\ ~Resetting /\ bridge \in {"up", "down"}
    BY <1>1 DEF Quiet, Resetting, Switching
  <2>2. ctrl = Level
    BY <1>1, <2>1, Zenon DEF LinkInv, CtrlInv
  <2>3. power \in BOOLEAN /\ bridge \notin {"mask", "off"}
    BY <1>1, <2>1 DEF IInv, TypeOK
  <2>4. QED
    BY <2>2, <2>3, Zenon DEF Level
<1>2. IInv /\ LinkInv => ControllerFollows
  BY <1>1 DEF ControllerFollows
<1>3. QED
  BY <1>2, LinkInvariance, PTL
=============================================================================
