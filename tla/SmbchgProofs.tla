---------------------------- MODULE SmbchgProofs ----------------------------
(***************************************************************************)
(* Theorems of Smbchg for every table of limits, every battery and every   *)
(* set of currents written to the properties.                              *)
(***************************************************************************)
EXTENDS MCSmbchg, WellFoundedInduction, TLAPS

LEMMA MinIs ==
  ASSUME NEW S \in SUBSET Nat, S # {}
  PROVE  Min(S) \in S /\ \A y \in S : Min(S) <= y
<1>1. PICK x \in S : \A y \in S : ~ (<<y, x>> \in OpToRel(<, Nat))
  BY NatLessThanWellFounded, WFMin
<1>2. ASSUME NEW y \in S PROVE x <= y
  <2>1. x \in Nat /\ y \in Nat
    OBVIOUS
  <2>2. y < x => <<y, x>> \in OpToRel(<, Nat)
    BY <2>1, Zenon DEF OpToRel
  <2>3. ~(y < x)
    BY <1>1, <2>2
  <2>4. QED
    BY <2>1, <2>3
<1>3. QED
  BY <1>2 DEF Min

(* The scan of find_closest_smaller stays in the table, and rounds down.   *)
LEMMA ScanRounds ==
  ASSUME NEW last \in Nat, NEW a \in [0..last -> Nat], NEW x \in Nat
  PROVE  LET i == FindClosestSmaller(x, a, last)
         IN  /\ i \in 0..last
             /\ a[0] <= x => a[i] <= x
             /\ i = last \/ x < a[i + 1]
<1> DEFINE S == {i \in 0..last : i = last \/ x < a[i + 1]}
           m == Min(S)
<1>1. last \in S /\ S \in SUBSET Nat
  OBVIOUS
<1>2. m \in S /\ \A y \in S : m <= y
  <2> HIDE DEF S
  <2>1. QED
    BY <1>1, MinIs
<1>3. m \in 0..last /\ (m = last \/ x < a[m + 1])
  BY <1>2
<1>4. ASSUME a[0] <= x PROVE a[m] <= x
  <2>1. CASE m = 0
    BY <1>4, <2>1
  <2>2. CASE m > 0
    <3>1. m - 1 \in 0..last /\ m - 1 \notin S
      BY <1>2, <1>3, <2>2
    <3>2. ~ (x < a[(m - 1) + 1])
      BY <3>1
    <3>3. (m - 1) + 1 = m /\ a[m] \in Nat
      BY <1>3
    <3>4. QED
      BY <3>2, <3>3
  <2>3. QED
    BY <1>3, <2>1, <2>2
<1>5. FindClosestSmaller(x, a, last) = m
  BY DEF FindClosestSmaller
<1>6. QED
  BY <1>3, <1>4, <1>5

(* The high current limit chosen for a current is a limit of the table,    *)
(* not above the current, and no larger one of the table would do          *)
(* (smbchg_usb_set_ilim_hc, smbchg_charging_set_fcc).                      *)
THEOREM HcRoundsDown ==
  ASSUME NEW c \in Nat
  PROVE  /\ HcChoice(c) \in 0..IlimMax
         /\ IlimTable[0] <= c =>
              /\ IlimTable[HcChoice(c)] <= c
              /\ \A i \in 0..IlimMax : IlimTable[i] <= c => IlimTable[i] <= IlimTable[HcChoice(c)]
<1> DEFINE h == HcChoice(c)
<1>1. IlimMax \in Nat /\ IlimTable \in [0..IlimMax -> Nat]
  BY SmbchgAssumption
<1>2. /\ h \in 0..IlimMax
      /\ IlimTable[0] <= c => IlimTable[h] <= c
      /\ h = IlimMax \/ c < IlimTable[h + 1]
  BY <1>1, ScanRounds DEF HcChoice
<1>3. ASSUME NEW i \in 0..IlimMax, IlimTable[i] <= c
      PROVE  IlimTable[i] <= IlimTable[h]
  <2> HIDE DEF h
  <2>1. \A j, k \in 0..IlimMax : j < k => IlimTable[j] < IlimTable[k]
    BY SmbchgAssumption
  <2>2. CASE i <= h
    <3>1. i = h \/ i < h
      BY <1>1, <1>2, <2>2
    <3>2. QED
      BY <1>1, <1>2, <2>1, <3>1
  <2>3. CASE i > h
    <3>1. h + 1 \in 0..IlimMax /\ c < IlimTable[h + 1]
      BY <1>1, <1>2, <2>3
    <3>2. i = h + 1 \/ h + 1 < i
      BY <1>1, <1>2, <2>3
    <3>3. IlimTable[h + 1] <= IlimTable[i]
      BY <1>1, <2>1, <3>1, <3>2
    <3>4. IlimTable[h + 1] \in Nat /\ IlimTable[i] \in Nat
      BY <1>1, <3>1
    <3>5. QED
      BY <1>3, <3>1, <3>3, <3>4
  <2>4. QED
    BY <1>1, <1>2, <2>2, <2>3
<1>4. QED
  BY <1>2, <1>3
-----------------------------------------------------------------------------
LEMMA Tables ==
  /\ IlimMax \in Nat /\ IlimTable \in [0..IlimMax -> Nat]
  /\ BattMax \in Nat /\ IlimTable[0] <= BattMax
  /\ Targets \subseteq Nat /\ OtgRetries \in Nat
BY SmbchgAssumption

LEMMA LimitType ==
  ASSUME NEW c \in Nat
  PROVE  LimitFor(c) \in Nat
<1>1. LcTable \in [0..3 -> Nat]
  BY DEF LcTable
<1>2. LcChoice(c) \in 0..3
  BY <1>1, ScanRounds DEF LcChoice
<1>3. HcChoice(c) \in 0..IlimMax
  BY HcRoundsDown
<1>4. QED
  BY <1>1, <1>2, <1>3, Tables DEF LimitFor

Regs == [cfg : Cfgs, full : BOOLEAN, hc : BOOLEAN, override : BOOLEAN,
         idx : 0..IlimMax, fcc : 0..IlimMax, aicl : BOOLEAN, suspend : BOOLEAN,
         charging : BOOLEAN, otg : BOOLEAN, tripped : BOOLEAN]

IInv == TypeOK /\ ChargeCurrentAllowed

LEMMA InitInv == Init => IInv
<1> SUFFICES ASSUME Init PROVE IInv
  OBVIOUS
<1>1. reg \in Regs /\ resets \in 0..OtgRetries /\ result \in Nat
  BY Tables DEF Init, Regs, NoCfg, Cfgs
<1>2. cfg \in [{"user", "probe"} -> Cfgs] /\ seen \in [{"src", "id"} -> Ports]
  BY DEF Init, NoCfg, Cfgs, Ports
<1>3. TypeOK
  BY <1>1, <1>2 DEF Init, TypeOK, Regs, Ports
<1>4. QED
  BY <1>3 DEF Init, IInv, ChargeCurrentAllowed

(* Writes of the registers of the input limit, the path and the boost      *)
(* leave the charge current alone.                                         *)
LEMMA FccKept ==
  ASSUME IInv, reg'.fcc = reg.fcc, probe' = probe
  PROVE  ChargeCurrentAllowed'
BY DEF IInv, ChargeCurrentAllowed

(* A charge current that the battery allows can be written.                *)
LEMMA FccWritten ==
  ASSUME NEW c \in Nat, c <= BattMax, IlimTable[0] <= c, reg'.fcc = HcChoice(c)
  PROVE  ChargeCurrentAllowed'
<1>1. IlimTable[HcChoice(c)] <= c /\ HcChoice(c) \in 0..IlimMax
  BY HcRoundsDown
<1>2. IlimTable[HcChoice(c)] <= BattMax
  BY <1>1, Tables
<1>3. QED
  BY <1>2 DEF ChargeCurrentAllowed

LEMMA SecWriteType ==
  ASSUME TypeOK, NEW t \in {"user", "probe"}, NEW f \in {"usb3", "command"}, NEW v \in BOOLEAN,
         SecWrite(t, f, v)
  PROVE  reg' \in Regs /\ reg'.fcc = reg.fcc /\ cfg' \in [{"user", "probe"} -> Cfgs]
<1>1. cfg[t] \in Cfgs /\ [cfg[t] EXCEPT ![f] = v] \in Cfgs
  BY DEF TypeOK, Cfgs
<1>2. NoCfg \in Cfgs
  BY DEF NoCfg, Cfgs
<1>3. QED
  BY <1>1, <1>2 DEF TypeOK, Regs, SecWrite, Done

LEMMA ProbeInv ==
  ASSUME IInv, Probe
  PROVE  IInv'
<1> USE DEF Probe, Probing, setter, threads, otg, Done, Fails
<1>1. TypeOK /\ reg \in Regs
  BY DEF IInv, TypeOK, Regs
<1>2. CASE ProbeFcc
  <2>1. HcChoice(BattMax) \in 0..IlimMax
    BY Tables, HcRoundsDown
  <2>2. reg' \in Regs /\ reg'.fcc = HcChoice(BattMax)
    BY <1>1, <1>2, <2>1 DEF ProbeFcc, Regs
  <2>3. ChargeCurrentAllowed'
    BY <2>2, Tables, FccWritten
  <2>4. TypeOK'
    BY <1>1, <1>2, <2>2 DEF ProbeFcc, TypeOK, Regs
  <2>5. QED
    BY <2>3, <2>4 DEF IInv
<1>3. CASE ProbeCfgWrite
  <2>1. reg' \in Regs /\ reg'.fcc = reg.fcc /\ cfg' \in [{"user", "probe"} -> Cfgs]
    BY <1>1, <1>3, SecWriteType DEF ProbeCfgWrite
  <2>2. TypeOK'
    BY <1>1, <1>3, <2>1 DEF ProbeCfgWrite, SecWrite, TypeOK, Regs
  <2>3. ChargeCurrentAllowed'
    BY <1>3, <2>1 DEF ProbeCfgWrite, IInv, ChargeCurrentAllowed
  <2>4. QED
    BY <2>2, <2>3 DEF IInv
<1>4. CASE ProbeCharging \/ ProbeCfgRead \/ ProbeDetect \/ ProbeDone \/ ProbeFails
  <2> USE DEF ProbeCharging, ProbeCfgRead, ProbeDetect, ProbeDone, ProbeFails, SecRead
  <2>1. reg' \in Regs /\ reg'.fcc = reg.fcc
    BY <1>1, <1>4 DEF Regs
  <2>2. cfg' \in [{"user", "probe"} -> Cfgs] /\ failed' \in BOOLEAN
    BY <1>1, <1>4 DEF TypeOK
  <2>3. TypeOK'
    BY <1>1, <1>4, <2>1, <2>2 DEF TypeOK, Regs
  <2>4. ChargeCurrentAllowed'
    BY <1>4, <2>1 DEF IInv, ChargeCurrentAllowed
  <2>5. QED
    BY <2>3, <2>4 DEF IInv
<1>5. QED
  BY <1>2, <1>3, <1>4

LEMMA Fields ==
  ASSUME NEW r \in Regs, NEW v \in BOOLEAN,
         NEW q \in {[r EXCEPT !.full = v], [r EXCEPT !.hc = v], [r EXCEPT !.override = v],
                    [r EXCEPT !.aicl = v], [r EXCEPT !.suspend = v], [r EXCEPT !.charging = v],
                    [r EXCEPT !.otg = v], [r EXCEPT !.tripped = v]}
  PROVE  q \in Regs /\ q.fcc = r.fcc
BY DEF Regs

LEMMA UserRest ==
  ASSUME TypeOK, User
  PROVE  /\ user' \in {"idle", "off", "cfgRead", "usb3", "full", "lc", "index", "force",
                       "aicl", "path"}
         /\ target' \in Targets /\ result' \in Nat
         /\ cfg' \in [{"user", "probe"} -> Cfgs]
         /\ failed' \in BOOLEAN
         /\ UNCHANGED <<probe, src, id, temp, seen, irqs, port, ext, resets, queued,
                        resetting, wanted>>
<1> USE DEF User, SetOnline, SetChargeCurrent, SetInputLimit, UserFails, UserOff, UserCfgRead,
            UserUsb3, UserFull, UserLc, UserIndex, UserForce, UserAicl, UserPath, UserGoes,
            Setting, setter, threads, otg, SecRead, SecWrite, Done, Fails
<1>1. user' \in {"idle", "off", "cfgRead", "usb3", "full", "lc", "index", "force",
                 "aicl", "path"}
  BY DEF TypeOK
<1>2. target' \in Targets
  BY DEF TypeOK
<1>3. result' \in Nat
  <2>1. target \in Nat
    BY Tables DEF TypeOK
  <2>2. result' \in {result, 0, LimitFor(target)}
    OBVIOUS
  <2>3. QED
    BY <2>1, <2>2, LimitType DEF TypeOK
<1>4. cfg' \in [{"user", "probe"} -> Cfgs]
  <2>1. NoCfg \in Cfgs /\ reg.cfg \in Cfgs
    BY DEF NoCfg, Cfgs, TypeOK
  <2>2. cfg' \in {cfg, [cfg EXCEPT !["user"] = NoCfg], [cfg EXCEPT !["user"] = reg.cfg]}
    OBVIOUS
  <2>3. QED
    BY <2>1, <2>2 DEF TypeOK
<1>5. failed' \in BOOLEAN
  BY DEF TypeOK
<1>6. UNCHANGED <<probe, src, id, temp, seen, irqs, port, ext, resets, queued, resetting, wanted>>
  OBVIOUS
<1>7. QED
  BY <1>1, <1>2, <1>3, <1>4, <1>5, <1>6

LEMMA UserRegs ==
  ASSUME TypeOK, reg \in Regs, User
  PROVE  /\ reg' \in Regs
         /\ \/ reg'.fcc = reg.fcc
            \/ \E c \in Targets : c <= BattMax /\ IlimTable[0] <= c /\ reg'.fcc = HcChoice(c)
<1> USE DEF UserGoes, Done, Fails
<1>1. target \in Nat
  BY Tables DEF TypeOK
<1>2. ASSUME NEW c \in Targets, SetChargeCurrent(c)
      PROVE  reg' \in Regs /\ (reg'.fcc = reg.fcc \/ reg'.fcc = HcChoice(c))
  <2>1. c \in Nat /\ HcChoice(c) \in 0..IlimMax
    BY Tables, HcRoundsDown
  <2>2. QED
    BY <1>2, <2>1 DEF SetChargeCurrent, Regs
<1>3. CASE UserUsb3
  BY <1>3, SecWriteType DEF UserUsb3
<1>4. CASE UserIndex
  <2>1. HcChoice(target) \in 0..IlimMax
    BY <1>1, HcRoundsDown
  <2>2. QED
    BY <1>4, <2>1 DEF UserIndex, Regs
<1>5. ASSUME NEW on \in BOOLEAN, SetOnline(on) PROVE reg' \in Regs /\ reg'.fcc = reg.fcc
  BY <1>5, Fields DEF SetOnline
<1>6. CASE UserFull
  <2>1. (LcChoice(target) >= 2) \in BOOLEAN
    OBVIOUS
  <2>2. reg' \in Regs /\ reg'.fcc = reg.fcc
    BY <1>6, <2>1, Fields DEF UserFull
  <2>3. QED
    BY <2>2
<1>7. CASE UserForce
  BY <1>7 DEF UserForce, Regs
<1>8. CASE UserOff \/ UserLc \/ UserAicl \/ UserPath
  <2>1. CASE UserOff
    BY <2>1, Fields DEF UserOff
  <2>2. CASE UserLc
    BY <2>2, Fields DEF UserLc
  <2>3. CASE UserAicl
    BY <2>3, Fields DEF UserAicl
  <2>4. CASE UserPath
    BY <2>4, Fields DEF UserPath
  <2>5. QED
    BY <1>8, <2>1, <2>2, <2>3, <2>4
<1>9. CASE UserFails \/ UserCfgRead \/ \E c \in Targets : SetInputLimit(c)
  BY <1>9 DEF UserFails, UserCfgRead, SetInputLimit, SecRead
<1>10. ASSUME NEW c \in Targets, SetChargeCurrent(c)
       PROVE  c <= BattMax /\ IlimTable[0] <= c
  BY <1>10 DEF SetChargeCurrent
<1>11. QED
  BY <1>2, <1>3, <1>4, <1>5, <1>6, <1>7, <1>8, <1>9, <1>10 DEF User

LEMMA UserInv ==
  ASSUME IInv, User
  PROVE  IInv'
<1>1. TypeOK /\ reg \in Regs
  BY DEF IInv, TypeOK, Regs
<1>2. TypeOK' /\ probe' = probe
  <2>1. reg' \in Regs
    BY <1>1, UserRegs
  <2>2. /\ user' \in {"idle", "off", "cfgRead", "usb3", "full", "lc", "index", "force",
                      "aicl", "path"}
        /\ target' \in Targets /\ result' \in Nat
        /\ cfg' \in [{"user", "probe"} -> Cfgs]
        /\ failed' \in BOOLEAN
        /\ UNCHANGED <<probe, src, id, temp, seen, irqs, port, ext, resets, queued,
                       resetting, wanted>>
    BY <1>1, UserRest
  <2>3. QED
    BY <1>1, <2>1, <2>2 DEF TypeOK, Regs
<1>3. CASE reg'.fcc = reg.fcc
  BY <1>2, <1>3, FccKept DEF IInv
<1>4. CASE \E c \in Targets : c <= BattMax /\ IlimTable[0] <= c /\ reg'.fcc = HcChoice(c)
  BY <1>2, <1>4, FccWritten, Tables DEF IInv
<1>5. QED
  BY <1>1, <1>3, <1>4, UserRegs

(* The other threads, and the outside.                                     *)
LEMMA SrcInv ==
  ASSUME IInv, Src
  PROVE  IInv'
<1> USE DEF Src, SrcStart, SrcOverride, SrcHc, SrcIndex, SrcAicl, SrcPath, SrcFails,
            SrcHcFails, SrcSample, SrcSet, SrcGoes, SrcRuns, setter, otg, Done, Fails
<1>1. TypeOK /\ reg \in Regs
  BY DEF IInv, TypeOK, Regs
<1>2. reg' \in Regs /\ reg'.fcc = reg.fcc
  <2>1. CASE SrcIndex
    BY <1>1, <2>1, Tables DEF Regs
  <2>2. CASE SrcOverride
    BY <1>1, <2>2, Fields
  <2>3. CASE SrcHc
    BY <1>1, <2>3, Fields
  <2>4. CASE SrcAicl \/ SrcPath
    <3>1. reg' \in {reg, [reg EXCEPT !.aicl = TRUE], [reg EXCEPT !.suspend = FALSE]}
      BY <2>4
    <3>2. QED
      BY <1>1, <3>1, Fields
  <2>5. CASE SrcStart \/ SrcFails \/ SrcHcFails \/ SrcSample \/ SrcSet
    BY <1>1, <2>5
  <2>6. QED
    BY <2>1, <2>2, <2>3, <2>4, <2>5
<1>3. src' \in {"idle", "override", "hc", "index", "aicl", "path", "sample", "set"}
  BY <1>1 DEF TypeOK
<1>4. seen' \in [{"src", "id"} -> Ports] /\ ext' \in Ports
  BY <1>1 DEF TypeOK, Ports
<1>5. irqs' \subseteq {"src", "id", "temp", "oc"} /\ failed' \in BOOLEAN
  BY <1>1 DEF TypeOK
<1>6. UNCHANGED <<probe, user, target, result, id, temp, cfg, port, resets, queued, resetting, wanted>>
  OBVIOUS
<1>7. TypeOK'
  BY <1>1, <1>2, <1>3, <1>4, <1>5, <1>6 DEF TypeOK, Regs
<1>8. QED
  BY <1>2, <1>6, <1>7, FccKept DEF IInv

LEMMA RestInv ==
  ASSUME IInv, IdStart \/ IdSample \/ IdSet \/ TempStart \/ TempPath \/ Otg \/ Outside
  PROVE  IInv'
<1> USE DEF setter, threads, otg, Done, Fails
<1>1. TypeOK /\ reg \in Regs
  BY DEF IInv, TypeOK, Regs
<1>2. CASE IdStart \/ IdSample \/ IdSet
  <2> USE DEF IdStart, IdSample, IdSet, IdRuns
  <2>1. seen' \in [{"src", "id"} -> Ports] /\ ext' \in Ports
    BY <1>1, <1>2 DEF TypeOK, Ports
  <2>2. irqs' \subseteq {"src", "id", "temp", "oc"} /\ id' \in {"idle", "sample", "set"}
    BY <1>1, <1>2 DEF TypeOK
  <2>3. UNCHANGED <<reg, probe, user, target, result, src, temp, cfg, port, resets, queued,
                    resetting, wanted, failed>>
    BY <1>2
  <2>4. TypeOK' /\ UNCHANGED <<reg, probe>>
    BY <1>1, <2>1, <2>2, <2>3 DEF TypeOK
  <2>5. QED
    BY <2>4, FccKept DEF IInv
<1>3. CASE TempStart \/ TempPath
  <2> USE DEF TempStart, TempPath, TempRuns
  <2>1. reg' \in Regs /\ reg'.fcc = reg.fcc
    BY <1>1, <1>3 DEF Regs
  <2>2. failed' \in BOOLEAN /\ irqs' \subseteq {"src", "id", "temp", "oc"}
    BY <1>1, <1>3 DEF TypeOK
  <2>3. TypeOK' /\ UNCHANGED probe
    BY <1>1, <1>3, <2>1, <2>2 DEF TypeOK, Regs
  <2>4. QED
    BY <2>1, <2>3, FccKept DEF IInv
<1>4. CASE Otg
  <2> USE DEF Otg, OtgEnable, OtgDisable, OtgOc, OtgReset, OtgResetEnd, OtgRuns, OtgOff
  <2>1. reg' \in Regs /\ reg'.fcc = reg.fcc
    BY <1>1, <1>4 DEF Regs
  <2>2. resets' \in 0..OtgRetries
    <3>1. resets \in 0..OtgRetries /\ OtgRetries \in Nat
      BY <1>1, Tables DEF TypeOK
    <3>2. resets' \in {resets, 0} \/ (resets < OtgRetries /\ resets' = resets + 1)
      BY <1>4
    <3>3. QED
      BY <3>1, <3>2
  <2>3. queued' \in BOOLEAN /\ resetting' \in BOOLEAN
    BY <1>1, <1>4 DEF TypeOK
  <2>4. wanted' \in BOOLEAN /\ failed' \in BOOLEAN
    BY <1>1, <1>4 DEF TypeOK
  <2>5. irqs' \subseteq {"src", "id", "temp", "oc"}
    BY <1>1, <1>4 DEF TypeOK
  <2>6. UNCHANGED <<probe, user, target, result, src, id, temp, seen, cfg, port, ext>>
    BY <1>4
  <2>7. TypeOK'
    BY <1>1, <2>1, <2>2, <2>3, <2>4, <2>5, <2>6 DEF TypeOK, Regs
  <2>8. QED
    BY <2>1, <2>6, <2>7, FccKept DEF IInv
<1>5. CASE Outside
  <2> USE DEF Outside, Plug, Edges, TempAlarm, OverCurrent, Alarm
  <2>1. reg' \in Regs /\ reg'.fcc = reg.fcc
    BY <1>1, <1>5 DEF Regs
  <2>2. irqs' \subseteq {"src", "id", "temp", "oc"} /\ port' \in Ports
    BY <1>1, <1>5 DEF TypeOK, Ports
  <2>3. TypeOK' /\ UNCHANGED probe
    BY <1>1, <1>5, <2>1, <2>2 DEF TypeOK, Regs
  <2>4. QED
    BY <2>1, <2>3, FccKept DEF IInv
<1>6. QED
  BY <1>2, <1>3, <1>4, <1>5

LEMMA StepInv == IInv /\ [Next]_vars => IInv'
<1>1. ASSUME IInv, UNCHANGED vars PROVE IInv'
  BY <1>1 DEF vars, setter, threads, otg, IInv, TypeOK, ChargeCurrentAllowed
<1>2. QED
  BY <1>1, ProbeInv, UserInv, SrcInv, RestInv DEF Next

LEMMA Invariance == Spec => []IInv
  BY InitInv, StepInv, PTL DEF Spec
-----------------------------------------------------------------------------
(* The registers and the threads are well typed for every table, so no     *)
(* index is ever outside of it (find_closest_smaller).                     *)
THEOREM TypeCorrect == Spec => []TypeOK
  BY Invariance, PTL DEF IInv

(* The charge current never exceeds what the battery allows, for every     *)
(* table and every current that is asked for (smbchg_charging_set_fcc,     *)
(* smbchg_set_property).                                                   *)
THEOREM ChargeCurrent == Spec => []ChargeCurrentAllowed
  BY Invariance, PTL DEF IInv
-----------------------------------------------------------------------------
(* The histories of MCSmbchg, over every behaviour of the driver: one      *)
(* conjunct of HistoryInv per property, each with what the call, the probe *)
(* and the interrupts' threads rely on between two accesses.               *)

Preparers == {"override", "hc", "index", "aicl"}

(* What smbchg_usb_set_ilim has decided holds until it returns.            *)
CallInv ==
  /\ user \in {"cfgRead", "usb3", "full", "lc"} => UsesLc(target)
  /\ user \in {"index", "force", "aicl"} => ~UsesLc(target)
  /\ user \notin {"idle", "off"} => LcTable[0] <= target
  /\ user # "idle" => result = 0
  /\ result > 0 => result = LimitFor(target) /\ LcTable[0] <= target

(* CHGPTH_CFG: what a thread has read is still there when it writes.       *)
CfgInv ==
  /\ user = "usb3" /\ probe = "cfgWrite" => lost
  /\ ~lost /\ probe = "cfgWrite" => cfg["probe"].usb3 = reg.cfg.usb3
  /\ ~lost /\ user = "usb3" /\ probe \in {"detect", "detecting", "done"} => cfg["user"].command
  /\ ConfigKept
  /\ ~lost /\ user \in {"full", "lc"} => reg.cfg.usb3 = (LcChoice(target) % 2 = 1)
  /\ user = "lc" => reg.full = (LcChoice(target) >= 2)

MixInv ==
  /\ src \in Preparers => mixed
  /\ user = "force" /\ ~mixed => own
  /\ ForcedLimitAlone

(* The limit of the call is the one that GetIlim reads.                    *)
InForce == IF UsesLc(target) THEN ~reg.hc /\ LcLimit(reg) = LcTable[LcChoice(target)]
                             ELSE reg.hc /\ reg.idx = HcChoice(target)

ForceInv ==
  /\ user = "force" /\ ~mixed => reg.idx = HcChoice(target)
  /\ user = "aicl" /\ ~mixed => InForce
  /\ (user = "path" \/ result > 0) /\ ~mixed /\ ~lost => InForce

(* An interrupt thread will sample the port, now or when it is called.     *)
Samples == "src" \in irqs \/ src \in Preparers \cup {"path", "sample"}
           \/ "id" \in irqs \/ id = "sample"

ExtInv ==
  /\ src = "set" /\ id = "set" => crossed
  /\ probe \in {"detecting", "done"} /\ ~crossed /\ ~failed =>
       \/ Samples
       \/ src = "set" /\ seen["src"] = port
       \/ id = "set" /\ seen["id"] = port
       \/ src # "set" /\ id # "set" /\ ext = port

HistoryInv == CallInv /\ CfgInv /\ MixInv /\ ForceInv /\ ExtInv

LEMMA HistoryStart == HistoryInit => HistoryInv
<1> SUFFICES ASSUME HistoryInit PROVE HistoryInv
  OBVIOUS
<1>1. CallInv
  BY DEF HistoryInit, Init, CallInv
<1>2. CfgInv
  BY DEF HistoryInit, Init, CfgInv, ConfigKept
<1>3. MixInv
  BY DEF HistoryInit, Init, MixInv, Preparers, ForcedLimitAlone, ForcedLimit
<1>4. ForceInv
  BY DEF HistoryInit, Init, ForceInv
<1>5. ExtInv
  BY DEF HistoryInit, Init, ExtInv
<1>6. QED
  BY <1>1, <1>2, <1>3, <1>4, <1>5 DEF HistoryInv

(* The registers of the input limit, and the steps that leave them alone.  *)
LimitRegs == <<reg.cfg, reg.full, reg.hc, reg.override, reg.idx>>

LEMMA OthersLeave ==
  ASSUME TypeOK, IdStart \/ IdSample \/ IdSet \/ TempStart \/ TempPath \/ Otg \/ Outside
  PROVE  UNCHANGED <<LimitRegs, cfg, probe, user, target, result, src>>
<1> USE DEF setter, threads, otg, Done, Fails
<1>1. reg \in Regs
  BY DEF TypeOK, Regs
<1>2. UNCHANGED <<cfg, probe, user, target, result, src>>
  <2>1. CASE IdStart \/ IdSample \/ IdSet
    BY <2>1 DEF IdStart, IdSample, IdSet, IdRuns
  <2>2. CASE TempStart \/ TempPath
    BY <2>2 DEF TempStart, TempPath, TempRuns
  <2>3. CASE Otg
    BY <2>3 DEF Otg, OtgEnable, OtgDisable, OtgOc, OtgReset, OtgResetEnd, OtgRuns
  <2>4. CASE Outside
    BY <2>4 DEF Outside, Plug, TempAlarm, OverCurrent, Alarm
  <2>5. QED
    BY <2>1, <2>2, <2>3, <2>4
<1>3. \/ reg' = reg
      \/ reg' = [reg EXCEPT !.charging = FALSE]
      \/ reg' = [reg EXCEPT !.suspend = TRUE]
      \/ reg' = [reg EXCEPT !.otg = TRUE]
      \/ reg' = [reg EXCEPT !.otg = FALSE, !.tripped = FALSE]
      \/ reg' = [reg EXCEPT !.tripped = TRUE]
  <2>1. CASE IdStart \/ IdSample \/ IdSet
    BY <2>1 DEF IdStart, IdSample, IdSet, IdRuns
  <2>2. CASE TempStart \/ TempPath
    BY <2>2 DEF TempStart, TempPath
  <2>3. CASE Otg
    BY <2>3 DEF Otg, OtgEnable, OtgDisable, OtgOc, OtgReset, OtgResetEnd, OtgOff
  <2>4. CASE Outside
    BY <2>4 DEF Outside, Plug, TempAlarm, OverCurrent
  <2>5. QED
    BY <2>1, <2>2, <2>3, <2>4
<1>4. UNCHANGED LimitRegs
  BY <1>1, <1>3 DEF Regs, LimitRegs
<1>5. QED
  BY <1>2, <1>4

LEMMA ProbeLeaves ==
  ASSUME TypeOK, Probe
  PROVE  /\ UNCHANGED <<reg.full, reg.hc, reg.override, reg.idx, user, target, result, src, cfg["user"]>>
         /\ ~ProbeCfgWrite => reg'.cfg = reg.cfg
<1> USE DEF Probing, setter, threads, Done, Fails
<1>1. reg \in Regs
  BY DEF TypeOK, Regs
<1>2. UNCHANGED <<user, target, result, src>>
  BY DEF Probe, ProbeFcc, ProbeCharging, ProbeCfgRead, ProbeCfgWrite, ProbeDetect, ProbeDone,
         ProbeFails
<1>3. CASE ProbeCfgWrite
  <2>1. reg' = [reg EXCEPT !.cfg = [cfg["probe"] EXCEPT !["command"] = TRUE]]
        /\ cfg' = [cfg EXCEPT !["probe"] = NoCfg]
    BY <1>3 DEF ProbeCfgWrite, SecWrite
  <2>2. QED
    BY <1>1, <1>2, <1>3, <2>1 DEF Regs, TypeOK
<1>4. CASE ProbeCfgRead
  BY <1>1, <1>2, <1>4 DEF ProbeCfgRead, SecRead, Regs, TypeOK
<1>5. CASE ProbeFcc \/ ProbeCharging
  BY <1>1, <1>2, <1>5 DEF ProbeFcc, ProbeCharging, Regs
<1>6. CASE ProbeDetect \/ ProbeDone \/ ProbeFails
  BY <1>2, <1>6 DEF ProbeDetect, ProbeDone, ProbeFails
<1>7. QED
  BY <1>3, <1>4, <1>5, <1>6 DEF Probe

LEMMA SrcLeaves ==
  ASSUME TypeOK, Src
  PROVE  /\ UNCHANGED <<reg.cfg, reg.full, probe, user, target, result, cfg>>
         /\ src \notin Preparers => UNCHANGED LimitRegs
<1> USE DEF SrcGoes, SrcRuns, setter, Done, Fails
<1>1. reg \in Regs
  BY DEF TypeOK, Regs
<1>2. CASE SrcOverride \/ SrcHc \/ SrcIndex \/ SrcAicl
  BY <1>1, <1>2 DEF SrcOverride, SrcHc, SrcIndex, SrcAicl, Regs, Preparers
<1>3. CASE SrcPath
  BY <1>1, <1>3 DEF SrcPath, Regs, LimitRegs
<1>4. CASE SrcStart \/ SrcFails \/ SrcHcFails \/ SrcSample \/ SrcSet
  BY <1>4 DEF SrcStart, SrcFails, SrcHcFails, SrcSample, SrcSet, LimitRegs
<1>5. QED
  BY <1>2, <1>3, <1>4 DEF Src

LEMMA CallStep ==
  ASSUME TypeOK, CallInv, Next
  PROVE  CallInv'
<1> USE DEF Done, Fails
<1>1. CASE UNCHANGED <<user, target, result>>
  BY <1>1 DEF CallInv
<1>2. CASE User
  <2> USE DEF Setting, UserGoes, setter
  <2>1. ASSUME NEW c \in Targets, SetInputLimit(c) PROVE CallInv'
    <3>1. c \in Nat /\ LcTable[0] = 100
      BY Tables DEF LcTable
    <3>2. target' = c /\ result' = 0 /\ user' \in {"off", "cfgRead", "index"}
          /\ (user' # "off" => ~(c < LcTable[0]))
          /\ (user' = "cfgRead" => UsesLc(c)) /\ (user' = "index" => ~UsesLc(c))
      BY <2>1 DEF SetInputLimit
    <3>3. QED
      BY <3>1, <3>2 DEF CallInv
  <2>2. ASSUME NEW c \in Targets, SetChargeCurrent(c) PROVE CallInv'
    BY <1>1, <2>2 DEF SetChargeCurrent
  <2>3. ASSUME NEW on \in BOOLEAN, SetOnline(on) PROVE CallInv'
    BY <1>1, <2>3 DEF SetOnline
  <2>4. CASE UserFails \/ UserOff
    <3>1. user' = "idle" /\ result' = 0 /\ target' = target
      BY <2>4 DEF UserFails, UserOff, CallInv
    <3>2. QED
      BY <3>1 DEF CallInv
  <2>5. CASE UserCfgRead \/ UserUsb3 \/ UserFull \/ UserLc
    BY <2>5 DEF UserCfgRead, UserUsb3, UserFull, UserLc, CallInv
  <2>6. CASE UserIndex \/ UserForce \/ UserAicl
    BY <2>6 DEF UserIndex, UserForce, UserAicl, CallInv
  <2>7. CASE UserPath
    BY <2>7 DEF UserPath, CallInv
  <2>8. QED
    BY <1>2, <2>1, <2>2, <2>3, <2>4, <2>5, <2>6, <2>7 DEF User
<1>3. QED
  BY <1>1, <1>2, ProbeLeaves, SrcLeaves, OthersLeave DEF Next

(* What the accesses of a call write, one by one, and those that leave the *)
(* limit alone.                                                            *)
LEMMA UserWrites ==
  ASSUME TypeOK
  PROVE  /\ UserCfgRead => UNCHANGED LimitRegs /\ cfg'["user"] = reg.cfg
         /\ UserUsb3 => /\ UNCHANGED <<reg.full, reg.hc, reg.override, reg.idx>>
                        /\ reg'.cfg.usb3 = (LcChoice(target) % 2 = 1)
                        /\ reg'.cfg.command = cfg["user"].command
         /\ UserFull => /\ UNCHANGED <<reg.cfg, reg.hc, reg.override, reg.idx>>
                        /\ reg'.full = (LcChoice(target) >= 2)
         /\ UserLc => UNCHANGED <<reg.cfg, reg.full, reg.override, reg.idx>> /\ reg'.hc = FALSE
         /\ UserIndex => /\ UNCHANGED <<reg.cfg, reg.full, reg.hc, reg.override>>
                         /\ reg'.idx = HcChoice(target)
         /\ UserForce => UNCHANGED <<reg.cfg, reg.full, reg.idx>> /\ reg'.hc = TRUE
<1> USE DEF UserGoes, Done
<1>1. reg \in Regs /\ cfg["user"] \in Cfgs
  BY DEF TypeOK, Regs
<1>2. UserCfgRead => UNCHANGED LimitRegs /\ cfg'["user"] = reg.cfg
  BY <1>1 DEF UserCfgRead, SecRead, LimitRegs, TypeOK
<1>3. ASSUME UserUsb3
      PROVE  /\ UNCHANGED <<reg.full, reg.hc, reg.override, reg.idx>>
             /\ reg'.cfg.usb3 = (LcChoice(target) % 2 = 1)
             /\ reg'.cfg.command = cfg["user"].command
  <2> DEFINE v == (LcChoice(target) % 2 = 1)
  <2>1. reg' = [reg EXCEPT !.cfg = [cfg["user"] EXCEPT !["usb3"] = v]] /\ v \in BOOLEAN
    BY <1>3 DEF UserUsb3, SecWrite
  <2> HIDE DEF v
  <2>2. [cfg["user"] EXCEPT !["usb3"] = v].usb3 = v
        /\ [cfg["user"] EXCEPT !["usb3"] = v].command = cfg["user"].command
    BY <1>1 DEF Cfgs
  <2>3. /\ UNCHANGED <<reg.full, reg.hc, reg.override, reg.idx>>
        /\ reg'.cfg = [cfg["user"] EXCEPT !["usb3"] = v]
    BY <1>1, <2>1 DEF Regs
  <2>4. QED
    BY <2>2, <2>3 DEF v
<1>4. ASSUME UserFull
      PROVE  /\ UNCHANGED <<reg.cfg, reg.hc, reg.override, reg.idx>>
             /\ reg'.full = (LcChoice(target) >= 2)
  <2> DEFINE v == LcChoice(target) >= 2
  <2>1. reg' = [reg EXCEPT !.full = v]
    BY <1>4 DEF UserFull
  <2> HIDE DEF v
  <2>2. QED
    BY <1>1, <2>1 DEF Regs, v
<1>5. UserLc => UNCHANGED <<reg.cfg, reg.full, reg.override, reg.idx>> /\ reg'.hc = FALSE
  BY <1>1 DEF UserLc, Regs
<1>6. UserIndex => /\ UNCHANGED <<reg.cfg, reg.full, reg.hc, reg.override>>
                   /\ reg'.idx = HcChoice(target)
  BY <1>1 DEF UserIndex, Regs
<1>7. UserForce => UNCHANGED <<reg.cfg, reg.full, reg.idx>> /\ reg'.hc = TRUE
  BY <1>1 DEF UserForce, Regs
<1>8. QED
  BY <1>2, <1>3, <1>4, <1>5, <1>6, <1>7

UserQuiet ==
  \/ \E on \in BOOLEAN : SetOnline(on)
  \/ \E c \in Targets : SetChargeCurrent(c) \/ SetInputLimit(c)
  \/ UserFails \/ UserOff \/ UserAicl \/ UserPath

LEMMA UserLeaves ==
  ASSUME TypeOK, UserQuiet
  PROVE  /\ UNCHANGED LimitRegs
         /\ user' \in {"idle", "off", "cfgRead", "index"} \/ (user = "aicl" /\ user' = "path")
<1> USE DEF UserGoes, Done, Fails
<1>1. reg \in Regs
  BY DEF TypeOK, Regs
<1>2. ASSUME NEW on \in BOOLEAN, SetOnline(on)
      PROVE  UNCHANGED LimitRegs /\ user' = "idle"
  BY <1>1, <1>2 DEF SetOnline, setter, Regs, LimitRegs
<1>3. ASSUME NEW c \in Targets, SetChargeCurrent(c)
      PROVE  UNCHANGED LimitRegs /\ user' = "idle"
  BY <1>1, <1>3 DEF SetChargeCurrent, setter, Regs, LimitRegs
<1>4. ASSUME NEW c \in Targets, SetInputLimit(c)
      PROVE  UNCHANGED LimitRegs /\ user' \in {"off", "cfgRead", "index"}
  BY <1>4 DEF SetInputLimit, LimitRegs
<1>5. CASE UserFails
  BY <1>5 DEF UserFails, LimitRegs
<1>6. CASE UserOff
  BY <1>1, <1>6 DEF UserOff, Regs, LimitRegs
<1>7. CASE UserAicl
  BY <1>1, <1>7 DEF UserAicl, Regs, LimitRegs
<1>8. CASE UserPath
  BY <1>1, <1>8 DEF UserPath, Regs, LimitRegs
<1>9. QED
  BY <1>2, <1>3, <1>4, <1>5, <1>6, <1>7, <1>8 DEF UserQuiet

LEMMA UserKinds ==
  User <=> \/ UserQuiet \/ UserCfgRead \/ UserUsb3 \/ UserFull \/ UserLc \/ UserIndex \/ UserForce
BY DEF User, UserQuiet

LEMMA UserRuns ==
  ASSUME TypeOK, User
  PROVE  /\ UNCHANGED <<probe, src, cfg["probe"]>>
         /\ UserCfgRead \/ UserUsb3 \/ UserFull \/ UserLc \/ UserIndex \/ UserForce
              => UNCHANGED <<target, result>>
<1>1. UNCHANGED <<probe, src, target, result>> \/ (UserQuiet /\ UNCHANGED <<probe, src>>)
  BY DEF User, UserQuiet, SetOnline, SetChargeCurrent, SetInputLimit, UserFails, UserOff,
         UserCfgRead, UserUsb3, UserFull, UserLc, UserIndex, UserForce, UserAicl, UserPath,
         UserGoes, Setting, threads
<1>2. UserCfgRead \/ UserUsb3 \/ UserFull \/ UserLc \/ UserIndex \/ UserForce
        => UNCHANGED <<target, result>>
  BY DEF UserCfgRead, UserUsb3, UserFull, UserLc, UserIndex, UserForce, UserGoes
<1>3. cfg' = cfg \/ \E v : cfg' = [cfg EXCEPT !["user"] = v]
  BY DEF User, SetOnline, SetChargeCurrent, SetInputLimit, UserFails, UserOff, UserCfgRead,
         UserUsb3, UserFull, UserLc, UserIndex, UserForce, UserAicl, UserPath, SecRead, SecWrite
<1>4. UNCHANGED cfg["probe"]
  BY <1>3 DEF TypeOK
<1>5. QED
  BY <1>1, <1>2, <1>4

LEMMA CfgStep ==
  ASSUME TypeOK, CfgInv, Next, Histories
  PROVE  CfgInv'
<1> DEFINE Past == {"detect", "detecting", "done"}
<1>1. (~lost' => ~lost) /\ (user' = "usb3" /\ probe' = "cfgWrite" => lost')
  BY DEF Histories
<1>2. CASE User
  <2>1. UNCHANGED <<probe, cfg["probe"]>>
    BY <1>2, UserRuns
  <2>2. CASE UserQuiet
    BY <1>1, <2>1, <2>2, UserLeaves DEF CfgInv, ConfigKept, LimitRegs
  <2>3. CASE UserCfgRead
    <3>1. UNCHANGED <<reg.cfg, reg.full>> /\ cfg'["user"] = reg.cfg /\ user' = "usb3"
      BY <2>3, UserWrites DEF UserCfgRead, UserGoes, LimitRegs
    <3>2. QED
      BY <1>1, <2>1, <3>1 DEF CfgInv, ConfigKept
  <2>4. CASE UserUsb3
    <3>1. /\ user = "usb3" /\ user' = "full" /\ target' = target
          /\ reg'.cfg.usb3 = (LcChoice(target) % 2 = 1)
          /\ reg'.cfg.command = cfg["user"].command
      BY <2>4, UserWrites DEF UserUsb3, UserGoes
    <3>2. ConfigKept'
      BY <1>1, <2>1, <3>1 DEF CfgInv, ConfigKept
    <3>3. ~lost' => probe' # "cfgWrite"
      BY <1>1, <2>1, <3>1 DEF CfgInv
    <3>4. QED
      BY <3>1, <3>2, <3>3 DEF CfgInv
  <2>5. CASE UserFull
    <3>1. /\ user = "full" /\ user' = "lc" /\ UNCHANGED <<target, reg.cfg>>
          /\ reg'.full = (LcChoice(target) >= 2)
      BY <2>5, UserWrites DEF UserFull, UserGoes
    <3>2. QED
      BY <1>1, <2>1, <3>1 DEF CfgInv, ConfigKept
  <2>6. CASE UserLc \/ UserIndex \/ UserForce
    <3>1. UNCHANGED reg.cfg /\ user' \in {"path", "force", "aicl"}
      BY <2>6, UserWrites DEF UserLc, UserIndex, UserForce, UserGoes
    <3>2. QED
      BY <1>1, <2>1, <3>1 DEF CfgInv, ConfigKept
  <2>7. QED
    BY <1>2, <2>2, <2>3, <2>4, <2>5, <2>6, UserKinds
<1>3. CASE Probe
  <2>1. UNCHANGED <<reg.full, user, target, cfg["user"]>>
        /\ (~ProbeCfgWrite => reg'.cfg = reg.cfg)
    BY <1>3, ProbeLeaves
  <2>2. CASE ProbeCfgWrite
    <3>1. /\ probe = "cfgWrite" /\ probe' = "detect"
          /\ reg'.cfg = [cfg["probe"] EXCEPT !["command"] = TRUE]
      BY <2>2 DEF ProbeCfgWrite, SecWrite, Done, TypeOK
    <3>2. reg'.cfg.usb3 = cfg["probe"].usb3 /\ reg'.cfg.command = TRUE
      BY <3>1 DEF TypeOK, Cfgs
    <3>3. QED
      BY <1>1, <2>1, <3>1, <3>2 DEF CfgInv, ConfigKept
  <2>3. CASE ProbeCfgRead
    <3>1. probe' = "cfgWrite" /\ reg'.cfg = reg.cfg /\ cfg'["probe"] = reg.cfg
      BY <2>3 DEF ProbeCfgRead, SecRead, TypeOK
    <3>2. QED
      BY <1>1, <2>1, <3>1 DEF CfgInv, ConfigKept
  <2>4. CASE ProbeFcc \/ ProbeCharging \/ ProbeDetect \/ ProbeDone \/ ProbeFails
    <3>1. probe' # "cfgWrite" /\ (probe' \in Past => probe \in Past)
      BY <2>4 DEF ProbeFcc, ProbeCharging, ProbeDetect, ProbeDone, ProbeFails
    <3>2. ~ProbeCfgWrite
      BY <2>4 DEF ProbeFcc, ProbeCharging, ProbeDetect, ProbeDone, ProbeFails, ProbeCfgWrite
    <3>3. QED
      BY <1>1, <2>1, <3>1, <3>2 DEF CfgInv, ConfigKept
  <2>5. QED
    BY <1>3, <2>2, <2>3, <2>4 DEF Probe
<1>4. CASE UNCHANGED <<reg.cfg, reg.full, probe, user, target, cfg>>
  BY <1>1, <1>4 DEF CfgInv, ConfigKept
<1>5. QED
  BY <1>2, <1>3, <1>4, SrcLeaves, OthersLeave DEF Next, LimitRegs

LEMMA MixStep ==
  ASSUME TypeOK, CallInv, MixInv, Next, Histories
  PROVE  MixInv'
<1> USE DEF ForcedLimitAlone, ForcedLimit
<1>1. /\ src' \in Preparers => mixed'
      /\ ~mixed' => ~mixed \/ UserIndex \/ UserLc
      /\ ~UserIndex => own' = (own /\ reg'.idx = reg.idx)
      /\ UserIndex => own' = (IlimTable[reg'.idx] <= target)
  BY DEF Histories, Preparing, Preparers
<1>2. CASE User
  <2>1. CASE UserIndex
    <3>1. user' = "force" /\ user = "index" /\ reg'.idx = HcChoice(target)
      BY <2>1, UserWrites DEF UserIndex, UserGoes
    <3>2. target \in Nat /\ IlimTable[0] <= target
      BY <3>1, Tables DEF TypeOK, CallInv, UsesLc
    <3>3. own'
      BY <1>1, <2>1, <3>1, <3>2, HcRoundsDown
    <3>4. QED
      BY <1>1, <3>3 DEF MixInv
  <2>2. CASE UserLc
    <3>1. user' = "path" /\ reg'.hc = FALSE
      BY <2>2, UserWrites DEF UserLc, UserGoes
    <3>2. QED
      BY <1>1, <3>1 DEF MixInv
  <2>3. CASE UserForce
    <3>1. user = "force" /\ user' = "aicl" /\ reg'.idx = reg.idx /\ ~UserIndex /\ ~UserLc
      BY <2>3, UserWrites DEF UserForce, UserIndex, UserLc, UserGoes
    <3>2. QED
      BY <1>1, <3>1 DEF MixInv
  <2>4. CASE UserQuiet \/ UserCfgRead \/ UserUsb3 \/ UserFull
    <3>1. UNCHANGED <<reg.hc, reg.override, reg.idx>>
      BY <2>4, UserLeaves, UserWrites DEF LimitRegs
    <3>2. user' # "force" /\ ~UserIndex /\ ~UserLc
      <4>1. \/ user' \in {"idle", "off", "cfgRead", "index"}
            \/ user' \in {"path", "usb3", "full", "lc"} /\ user # "lc"
        BY <2>4, UserLeaves DEF UserCfgRead, UserUsb3, UserFull, UserGoes
      <4>2. QED
        BY <4>1 DEF UserIndex, UserLc, UserGoes
    <3>3. QED
      BY <1>1, <3>1, <3>2 DEF MixInv
  <2>5. QED
    BY <1>2, <2>1, <2>2, <2>3, <2>4, UserKinds
<1>3. CASE Probe
  <2>1. UNCHANGED <<reg.hc, reg.override, reg.idx, user, src>>
    BY <1>3, ProbeLeaves
  <2>2. ~UserIndex /\ ~UserLc
    BY <2>1 DEF UserIndex, UserLc, UserGoes
  <2>3. QED
    BY <1>1, <2>1, <2>2 DEF MixInv
<1>4. CASE Src
  <2>1. UNCHANGED user /\ (src \notin Preparers => UNCHANGED <<reg.hc, reg.override, reg.idx>>)
    BY <1>4, SrcLeaves DEF LimitRegs
  <2>2. ~UserIndex /\ ~UserLc
    BY <2>1 DEF UserIndex, UserLc, UserGoes
  <2>3. QED
    BY <1>1, <2>1, <2>2 DEF MixInv
<1>5. CASE UNCHANGED <<reg.hc, reg.override, reg.idx, user, src>>
  <2>1. ~UserIndex /\ ~UserLc
    BY <1>5 DEF UserIndex, UserLc, UserGoes
  <2>2. QED
    BY <1>1, <1>5, <2>1 DEF MixInv
<1>6. QED
  BY <1>2, <1>3, <1>4, <1>5, OthersLeave DEF Next, LimitRegs

(* The low current limit is the one asked for when the call clears         *)
(* USBIN_MODE_HC.                                                          *)
LEMMA LcSet ==
  ASSUME TypeOK, CfgInv, user = "lc", ~lost
  PROVE  LcLimit(reg) = LcTable[LcChoice(target)]
<1>1. target \in Nat
  BY Tables DEF TypeOK
<1>2. LcTable \in [0..3 -> Nat]
  BY DEF LcTable
<1>3. LcChoice(target) \in 0..3
  BY <1>1, <1>2, ScanRounds DEF LcChoice
<1>4. reg.cfg.usb3 = (LcChoice(target) % 2 = 1) /\ reg.full = (LcChoice(target) >= 2)
  BY DEF CfgInv
<1>5. LcIndex(reg.cfg.usb3, reg.full) = LcChoice(target)
  <2> DEFINE c == LcChoice(target)
  <2>1. c \in {0, 1, 2, 3}
    BY <1>3
  <2> HIDE DEF c
  <2>2. (c % 2 = 1) <=> (c \in {1, 3})
    BY <2>1
  <2>3. reg.cfg.usb3 <=> (c \in {1, 3})
    BY <1>4, <2>2 DEF c
  <2>4. reg.full <=> (c \in {2, 3})
    <3>1. (c >= 2) <=> (c \in {2, 3})
      BY <2>1
    <3>2. QED
      BY <1>4, <3>1 DEF c
  <2>5. LcIndex(reg.cfg.usb3, reg.full) = c
    BY <2>1, <2>3, <2>4 DEF LcIndex
  <2>6. QED
    BY <2>5 DEF c
<1>6. QED
  BY <1>5 DEF LcLimit

LEMMA ForceStep ==
  ASSUME TypeOK, CallInv, CfgInv, MixInv, ForceInv, Next, Histories
  PROVE  ForceInv'
<1>1. /\ src' \in Preparers => mixed'
      /\ ~mixed' => ~mixed \/ UserIndex \/ UserLc
      /\ ~lost' => ~lost
      /\ src \in Preparers => mixed
  BY DEF Histories, Preparing, Preparers, MixInv
<1>2. ASSUME UNCHANGED <<reg.full, reg.hc, reg.idx, user, target, result>>,
             ~lost' => UNCHANGED reg.cfg.usb3
      PROVE  ForceInv'
  <2>1. ~UserIndex /\ ~UserLc
    BY <1>2 DEF UserIndex, UserLc, UserGoes
  <2>2. ~lost' \/ ~UsesLc(target) => InForce' = InForce
    BY <1>2 DEF InForce, LcLimit
  <2>3. user = "aicl" => ~UsesLc(target)
    BY DEF CallInv
  <2>4. QED
    BY <1>1, <1>2, <2>1, <2>2, <2>3 DEF ForceInv
<1>3. CASE User
  <2>1. CASE UserIndex
    <3>1. user' = "force" /\ result' = 0 /\ target' = target /\ reg'.idx = HcChoice(target)
      BY <2>1, UserWrites DEF UserIndex, UserGoes, CallInv
    <3>2. QED
      BY <3>1 DEF ForceInv
  <2>2. CASE UserForce
    <3>1. /\ user = "force" /\ user' = "aicl" /\ result' = 0 /\ target' = target
          /\ UNCHANGED reg.idx /\ reg'.hc = TRUE
      BY <2>2, UserWrites DEF UserForce, UserGoes, CallInv
    <3>2. ~UserIndex /\ ~UserLc /\ ~UsesLc(target)
      BY <3>1 DEF UserIndex, UserLc, UserGoes, CallInv
    <3>3. ~mixed' => InForce'
      BY <1>1, <3>1, <3>2 DEF ForceInv, InForce
    <3>4. QED
      BY <3>1, <3>3 DEF ForceInv
  <2>3. CASE UserLc
    <3>1. /\ user = "lc" /\ user' = "path" /\ target' = target /\ UsesLc(target)
          /\ UNCHANGED <<reg.cfg, reg.full>> /\ reg'.hc = FALSE
      BY <2>3, UserWrites DEF UserLc, UserGoes, CallInv
    <3>2. ~lost => InForce'
      BY <3>1, LcSet DEF InForce, LcLimit
    <3>3. QED
      BY <1>1, <3>1, <3>2 DEF ForceInv
  <2>4. CASE UserCfgRead \/ UserUsb3 \/ UserFull
    <3>1. user' \in {"usb3", "full", "lc"} /\ result' = 0
      BY <2>4 DEF UserCfgRead, UserUsb3, UserFull, UserGoes, CallInv
    <3>2. QED
      BY <3>1 DEF ForceInv
  <2>5. CASE UserQuiet
    <3>1. /\ UNCHANGED <<reg.cfg, reg.full, reg.hc, reg.idx>>
          /\ user' \in {"idle", "off", "cfgRead", "index"} \/ (user = "aicl" /\ user' = "path")
      BY <2>5, UserLeaves DEF LimitRegs
    <3>2. ~UserIndex /\ ~UserLc
      BY <3>1 DEF UserIndex, UserLc, UserGoes
    <3>3. ASSUME user' = "path" \/ result' > 0
          PROVE  target' = target /\ (user \in {"aicl", "path"} \/ result > 0)
      <4>1. CASE \E on \in BOOLEAN : SetOnline(on)
        BY <3>3, <4>1 DEF SetOnline, setter
      <4>2. CASE \E c \in Targets : SetChargeCurrent(c)
        BY <3>3, <4>2 DEF SetChargeCurrent, setter
      <4>3. CASE \E c \in Targets : SetInputLimit(c)
        BY <3>1, <3>3, <4>3 DEF SetInputLimit
      <4>4. CASE UserFails \/ UserOff
        BY <3>3, <4>4 DEF UserFails, UserOff, UserGoes, CallInv
      <4>5. CASE UserAicl \/ UserPath
        BY <4>5 DEF UserAicl, UserPath, UserGoes
      <4>6. QED
        BY <2>5, <4>1, <4>2, <4>3, <4>4, <4>5 DEF UserQuiet
    <3>4. target' = target => InForce' = InForce
      BY <3>1 DEF InForce, LcLimit
    <3>5. QED
      BY <1>1, <3>1, <3>2, <3>3, <3>4 DEF ForceInv
  <2>6. QED
    BY <1>3, <2>1, <2>2, <2>3, <2>4, <2>5, UserKinds
<1>4. CASE Probe
  <2>1. /\ UNCHANGED <<reg.full, reg.hc, reg.idx, user, target, result>>
        /\ ~ProbeCfgWrite => reg'.cfg = reg.cfg
    BY <1>4, ProbeLeaves
  <2>2. ASSUME ProbeCfgWrite, ~lost PROVE reg'.cfg.usb3 = reg.cfg.usb3
    <3>1. probe = "cfgWrite" /\ reg'.cfg = [cfg["probe"] EXCEPT !["command"] = TRUE]
      BY <2>2 DEF ProbeCfgWrite, SecWrite, Done, TypeOK
    <3>2. reg'.cfg.usb3 = cfg["probe"].usb3
      BY <3>1 DEF TypeOK, Cfgs
    <3>3. QED
      BY <2>2, <3>1, <3>2 DEF CfgInv
  <2>3. QED
    BY <1>1, <1>2, <2>1, <2>2
<1>5. CASE Src
  <2>1. /\ UNCHANGED <<reg.cfg, reg.full, user, target, result>>
        /\ src \notin Preparers => UNCHANGED <<reg.hc, reg.idx>>
    BY <1>5, SrcLeaves DEF LimitRegs
  <2>2. CASE src \in Preparers
    <3>1. mixed'
      <4>1. ~UserIndex /\ ~UserLc
        BY <2>1 DEF UserIndex, UserLc, UserGoes
      <4>2. QED
        BY <1>1, <2>2, <4>1
    <3>2. QED
      BY <3>1 DEF ForceInv
  <2>3. QED
    BY <1>2, <2>1, <2>2
<1>6. CASE UNCHANGED <<LimitRegs, user, target, result>>
  BY <1>2, <1>6 DEF LimitRegs
<1>7. QED
  BY <1>3, <1>4, <1>5, <1>6, OthersLeave DEF Next

LEMMA ExtStep ==
  ASSUME TypeOK, ExtInv, Next, Histories
  PROVE  ExtInv'
<1> DEFINE Live == probe \in {"detecting", "done"} /\ ~crossed /\ ~failed
           Right == \/ Samples
                    \/ src = "set" /\ seen["src"] = port
                    \/ id = "set" /\ seen["id"] = port
                    \/ src # "set" /\ id # "set" /\ ext = port
<1>1. /\ src' = "set" /\ id' = "set" => crossed'
      /\ ~crossed' => ~crossed
      /\ ExtInv <=> (src = "set" /\ id = "set" => crossed) /\ (Live => Right)
      /\ ExtInv' <=> (src' = "set" /\ id' = "set" => crossed') /\ (Live' => Right')
  BY DEF Histories, ExtInv
<1>2. failed => failed'
  <2> USE DEF Done, Fails
  <2>1. CASE User
    BY <2>1 DEF User, SetOnline, SetChargeCurrent, SetInputLimit, UserFails, UserOff, UserCfgRead,
           UserUsb3, UserFull, UserLc, UserIndex, UserForce, UserAicl, UserPath, SecRead, SecWrite
  <2>2. CASE Probe
    BY <2>2 DEF Probe, ProbeFcc, ProbeCharging, ProbeCfgRead, ProbeCfgWrite, ProbeDetect, ProbeDone,
           ProbeFails, SecRead, SecWrite
  <2>3. CASE Src
    BY <2>3 DEF Src, SrcStart, SrcOverride, SrcHc, SrcIndex, SrcAicl, SrcPath, SrcFails, SrcHcFails,
           SrcSample, SrcSet
  <2>4. CASE IdStart \/ IdSample \/ IdSet \/ TempStart \/ TempPath
    BY <2>4 DEF IdStart, IdSample, IdSet, IdRuns, TempStart, TempPath
  <2>5. CASE Otg
    BY <2>5 DEF Otg, OtgEnable, OtgDisable, OtgOc, OtgReset, OtgResetEnd
  <2>6. CASE Outside
    BY <2>6 DEF Outside, Plug, TempAlarm, OverCurrent, Alarm
  <2>7. QED
    BY <2>1, <2>2, <2>3, <2>4, <2>5, <2>6 DEF Next
<1>3. ASSUME UNCHANGED <<src, id, seen, port, ext>>,
             "src" \in irqs => "src" \in irqs', "id" \in irqs => "id" \in irqs',
             probe' \in {"detecting", "done"} => probe \in {"detecting", "done"}
      PROVE  ExtInv'
  <2>1. Right => Right'
    BY <1>3 DEF Samples
  <2>2. Live' => Live
    BY <1>1, <1>2, <1>3
  <2>3. QED
    BY <1>1, <1>3, <2>1, <2>2
<1>4. CASE User
  <2>1. UNCHANGED <<src, id, seen, port, ext, irqs, probe>>
    BY <1>4, UserRest
  <2>2. QED
    BY <1>3, <2>1
<1>5. CASE Probe
  <2>1. UNCHANGED <<src, id, seen, port, ext>>
    BY <1>5 DEF Probe, ProbeFcc, ProbeCharging, ProbeCfgRead, ProbeCfgWrite, ProbeDetect, ProbeDone,
           ProbeFails, Probing, threads
  <2>2. CASE ProbeDetect
    BY <1>1, <2>1, <2>2 DEF ProbeDetect, Samples
  <2>3. CASE ProbeDone
    BY <1>3, <2>1, <2>3 DEF ProbeDone
  <2>4. CASE ProbeFcc \/ ProbeCharging \/ ProbeCfgRead \/ ProbeCfgWrite \/ ProbeFails
    <3>1. probe' \notin {"detecting", "done"}
      BY <2>4 DEF ProbeFcc, ProbeCharging, ProbeCfgRead, ProbeCfgWrite, ProbeFails
    <3>2. QED
      BY <1>1, <3>1
  <2>5. QED
    BY <1>5, <2>2, <2>3, <2>4 DEF Probe
<1>6. CASE Src
  <2> USE DEF SrcRuns, SrcGoes
  <2>1. UNCHANGED <<id, port, probe>>
    BY <1>6 DEF Src, SrcStart, SrcOverride, SrcHc, SrcIndex, SrcAicl, SrcPath, SrcFails, SrcHcFails,
           SrcSample, SrcSet
  <2>2. CASE SrcStart \/ SrcOverride \/ SrcHc \/ SrcIndex \/ SrcAicl \/ SrcPath \/ SrcHcFails
    <3>1. Samples'
      BY <2>2 DEF SrcStart, SrcOverride, SrcHc, SrcIndex, SrcAicl, SrcPath, SrcHcFails, Samples,
             Preparers
    <3>2. QED
      BY <1>1, <3>1
  <2>3. CASE SrcFails
    <3>1. failed' /\ src' = "idle"
      BY <2>3 DEF SrcFails, Fails
    <3>2. QED
      BY <1>1, <3>1
  <2>4. CASE SrcSample
    <3>1. src' = "set" /\ seen'["src"] = port'
      BY <2>1, <2>4 DEF SrcSample, TypeOK
    <3>2. QED
      BY <1>1, <3>1
  <2>5. CASE SrcSet
    <3>1. /\ src = "set" /\ src' = "idle" /\ ext' = seen["src"] /\ seen'["id"] = seen["id"]
          /\ UNCHANGED <<irqs, failed>>
      BY <2>5 DEF SrcSet, TypeOK
    <3>2. Samples => Samples'
      BY <2>1, <3>1 DEF Samples, Preparers
    <3>3. ~crossed => id # "set"
      BY <1>1, <3>1
    <3>4. ~crossed /\ Right => Right'
      BY <2>1, <3>1, <3>2, <3>3
    <3>5. QED
      BY <1>1, <1>2, <2>1, <3>1, <3>4
  <2>6. QED
    BY <1>6, <2>2, <2>3, <2>4, <2>5 DEF Src
<1>7. CASE IdStart \/ IdSample \/ IdSet
  <2>1. UNCHANGED <<src, port, probe, failed>>
    BY <1>7 DEF IdStart, IdSample, IdSet, IdRuns
  <2>2. CASE IdStart
    <3>1. Samples' /\ id' = "sample"
      BY <2>2 DEF IdStart, Samples
    <3>2. QED
      BY <1>1, <3>1
  <2>3. CASE IdSample
    <3>1. id' = "set" /\ seen'["id"] = port'
      BY <2>1, <2>3 DEF IdSample, TypeOK
    <3>2. QED
      BY <1>1, <3>1
  <2>4. CASE IdSet
    <3>1. /\ id = "set" /\ id' = "idle" /\ ext' = seen["id"] /\ seen'["src"] = seen["src"]
          /\ UNCHANGED irqs
      BY <2>4 DEF IdSet, TypeOK
    <3>2. Samples => Samples'
      BY <2>1, <3>1 DEF Samples
    <3>3. ~crossed => src # "set"
      BY <1>1, <3>1
    <3>4. ~crossed /\ Right => Right'
      BY <2>1, <3>1, <3>2, <3>3
    <3>5. QED
      BY <1>1, <1>2, <2>1, <3>1, <3>4
  <2>5. QED
    BY <1>7, <2>2, <2>3, <2>4
<1>8. CASE TempStart \/ TempPath \/ Otg \/ TempAlarm \/ OverCurrent
  <2>1. UNCHANGED <<src, id, seen, port, ext, probe>>
    BY <1>8 DEF TempStart, TempPath, TempRuns, Otg, OtgEnable, OtgDisable, OtgOc, OtgReset,
           OtgResetEnd, OtgRuns, TempAlarm, OverCurrent, Alarm, threads
  <2>2. irqs' \in {irqs, irqs \ {"temp"}, irqs \ {"oc"}, irqs \cup {"temp"}, irqs \cup {"oc"}}
    BY <1>8 DEF TempStart, TempPath, Otg, OtgEnable, OtgDisable, OtgOc, OtgReset, OtgResetEnd,
           TempAlarm, OverCurrent
  <2>3. QED
    BY <1>3, <2>1, <2>2
<1>9. ASSUME NEW p \in Ports, Plug(p) PROVE ExtInv'
  <2>1. UNCHANGED <<src, id>> /\ irqs' = irqs \cup Edges(port, p) /\ p # port
    BY <1>9 DEF Plug, Alarm, threads
  <2>2. "src" \in Edges(port, p) \/ "id" \in Edges(port, p)
    BY <2>1 DEF Edges, Ports, TypeOK
  <2>3. Samples'
    BY <2>1, <2>2 DEF Samples
  <2>4. QED
    BY <1>1, <2>1, <2>3
<1>10. QED
  BY <1>4, <1>5, <1>6, <1>7, <1>8, <1>9 DEF Next, Outside

LEMMA HistoryStep == IInv /\ HistoryInv /\ [HistoryNext]_<<vars, history>> => HistoryInv'
<1>1. ASSUME IInv, HistoryInv, HistoryNext PROVE HistoryInv'
  <2>1. TypeOK /\ CallInv /\ CfgInv /\ MixInv /\ ForceInv /\ ExtInv /\ Next /\ Histories
    BY <1>1 DEF IInv, HistoryInv, HistoryNext
  <2>2. CallInv'
    BY <2>1, CallStep
  <2>3. CfgInv'
    BY <2>1, CfgStep
  <2>4. MixInv'
    BY <2>1, MixStep
  <2>5. ForceInv'
    BY <2>1, ForceStep
  <2>6. ExtInv'
    BY <2>1, ExtStep
  <2>7. QED
    BY <2>2, <2>3, <2>4, <2>5, <2>6 DEF HistoryInv
<1>2. ASSUME HistoryInv, UNCHANGED <<vars, history>> PROVE HistoryInv'
  <2> USE <1>2 DEF HistoryInv, vars, history, setter, threads, otg
  <2>1. CallInv'
    BY DEF CallInv
  <2>2. CfgInv'
    BY DEF CfgInv, ConfigKept
  <2>3. MixInv'
    BY DEF MixInv, ForcedLimitAlone, ForcedLimit
  <2>4. ForceInv'
    BY DEF ForceInv, InForce, LcLimit
  <2>5. ExtInv'
    BY DEF ExtInv, Samples
  <2>6. QED
    BY <2>1, <2>2, <2>3, <2>4, <2>5
<1>3. QED
  BY <1>1, <1>2

LEMMA HistoryInvariance == HistorySpec => [](IInv /\ HistoryInv)
<1>1. HistoryInit => IInv /\ HistoryInv
  BY InitInv, HistoryStart DEF HistoryInit
<1>2. IInv /\ [HistoryNext]_<<vars, history>> => IInv'
  <2>1. [HistoryNext]_<<vars, history>> => [Next]_vars
    BY DEF HistoryNext
  <2>2. QED
    BY <2>1, StepInv
<1>3. QED
  BY <1>1, <1>2, HistoryStep, PTL DEF HistorySpec

(* The limit that is in force after a call is the reported one, and the    *)
(* best of the tables.                                                     *)
LEMMA Reported ==
  ASSUME IInv, HistoryInv
  PROVE  ReportedLimit
<1> SUFFICES ASSUME result > 0, ~mixed, ~lost
             PROVE  /\ GetIlim(reg) = result
                    /\ result <= target
                    /\ \A i \in 0..IlimMax : IlimTable[i] <= target => IlimTable[i] <= result
  BY DEF ReportedLimit
<1>1. target \in Nat
  BY Tables DEF IInv, TypeOK
<1>2. InForce /\ result = LimitFor(target) /\ LcTable[0] <= target
  BY DEF HistoryInv, ForceInv, CallInv
<1>3. CASE UsesLc(target)
  <2>1. LcTable \in [0..3 -> Nat]
    BY DEF LcTable
  <2>2. /\ LcChoice(target) \in 0..3 /\ LcTable[LcChoice(target)] <= target
        /\ LcChoice(target) = 3 \/ target < LcTable[LcChoice(target) + 1]
    BY <1>1, <1>2, <2>1, ScanRounds DEF LcChoice
  <2>3. result = LcTable[LcChoice(target)] /\ GetIlim(reg) = result
    BY <1>2, <1>3 DEF LimitFor, InForce, GetIlim
  <2>4. ASSUME NEW j \in 0..3, target = LcTable[j]
        PROVE  LcTable[LcChoice(target)] = target
    <3> DEFINE c == LcChoice(target)
    <3> HIDE DEF c
    <3>1. c \in 0..3 /\ LcTable[c] <= LcTable[j] /\ (c = 3 \/ LcTable[j] < LcTable[c + 1])
      BY <2>2, <2>4 DEF c
    <3>2. LcTable[0] = 100 /\ LcTable[1] = 150 /\ LcTable[2] = 500 /\ LcTable[3] = 900
      BY DEF LcTable
    <3>3. c = j
      <4>1. c \in {0, 1, 2, 3} /\ j \in {0, 1, 2, 3}
        BY <3>1
      <4>2. QED
        BY <3>1, <3>2, <4>1
    <3>4. QED
      BY <2>4, <3>3 DEF c
  <2>5. ASSUME NEW i \in 0..IlimMax, IlimTable[i] <= target PROVE IlimTable[i] <= result
    <3>1. CASE target < IlimTable[0]
      <4>1. IlimTable[0] <= IlimTable[i]
        <5>1. 0 \in 0..IlimMax /\ (i = 0 \/ 0 < i)
          BY Tables
        <5>2. QED
          BY <5>1, SmbchgAssumption
      <4>2. IlimTable[0] \in Nat /\ IlimTable[i] \in Nat
        BY Tables
      <4>3. QED
        BY <1>1, <2>5, <3>1, <4>1, <4>2
    <3>2. CASE \E j \in 0..3 : target = LcTable[j]
      BY <2>3, <2>4, <2>5, <3>2
    <3>3. QED
      BY <1>3, <3>1, <3>2 DEF UsesLc
  <2>6. QED
    BY <2>2, <2>3, <2>5
<1>4. CASE ~UsesLc(target)
  <2>1. IlimTable[0] <= target
    BY <1>1, <1>4, Tables DEF UsesLc
  <2>2. result = IlimTable[HcChoice(target)] /\ GetIlim(reg) = result
    BY <1>2, <1>4 DEF LimitFor, InForce, GetIlim
  <2>3. QED
    BY <1>1, <2>1, <2>2, HcRoundsDown
<1>5. QED
  BY <1>3, <1>4
-----------------------------------------------------------------------------
(* A limit that set_ilim reported is in force, does not exceed the one     *)
(* asked for, and is the largest such of the table, for every table and    *)
(* every order of the call, the probe and the interrupts                   *)
(* (smbchg_usb_set_ilim, smbchg_usb_get_ilim).                             *)
THEOREM LimitReported == HistorySpec => []ReportedLimit
<1>1. IInv /\ HistoryInv => ReportedLimit
  BY Reported
<1>2. QED
  BY <1>1, HistoryInvariance, PTL

(* A forced limit is the one of a call, rounded down for every table, but  *)
(* for a charger detected during the call (smbchg_usb_set_ilim_hc,         *)
(* smbchg_usb_aicl_enable).                                                *)
THEOREM LimitForced == HistorySpec => []ForcedLimitAlone
<1>1. HistoryInv => ForcedLimitAlone
  BY DEF HistoryInv, MixInv
<1>2. QED
  BY <1>1, HistoryInvariance, PTL

(* The low current limits, as numbers.                                     *)
LEMMA LcLimits ==
  ASSUME NEW r \in Regs
  PROVE  LcLimit(r) = IF r.full THEN IF r.cfg.usb3 THEN 900 ELSE 500
                                ELSE IF r.cfg.usb3 THEN 150 ELSE 100
BY DEF LcLimit, LcIndex, LcTable, Regs, Cfgs

LEMMA LcChosen ==
  ASSUME NEW c \in Nat, LcTable[0] <= c
  PROVE  /\ LcChoice(c) \in {0, 1, 2, 3}
         /\ LcTable[LcChoice(c)] <= c
         /\ (LcChoice(c) % 2 = 1) <=> LcChoice(c) \in {1, 3}
         /\ (LcChoice(c) >= 2) <=> LcChoice(c) \in {2, 3}
<1> DEFINE h == LcChoice(c)
<1>1. LcTable \in [0..3 -> Nat]
  BY DEF LcTable
<1>2. h \in 0..3 /\ LcTable[h] <= c
  BY <1>1, ScanRounds DEF LcChoice
<1> HIDE DEF h
<1>3. h \in {0, 1, 2, 3}
  BY <1>2
<1>4. ((h % 2 = 1) <=> h \in {1, 3}) /\ ((h >= 2) <=> h \in {2, 3})
  BY <1>3
<1>5. QED
  BY <1>2, <1>3, <1>4 DEF h

(* What a call that sets a low limit does to the limit in force, write by  *)
(* write.                                                                  *)
LEMMA LcCallStep ==
  ASSUME TypeOK, TypeOK', CallInv, CfgInv, User, LcCall, ~lost
  PROVE  /\ GetIlim(reg') <= target \/ GetIlim(reg') <= GetIlim(reg) \/ Through900
         /\ reg.hc /\ ~reg'.hc => GetIlim(reg') <= target
<1>1. reg \in Regs /\ reg' \in Regs /\ target \in Nat /\ LcTable[0] <= target
  BY Tables DEF TypeOK, Regs, CallInv, LcCall
<1>2. GetIlim(reg) \in Nat
  <2>1. reg.hc => GetIlim(reg) = IlimTable[reg.idx] /\ reg.idx \in 0..IlimMax
    BY <1>1 DEF GetIlim, Regs
  <2>2. ~reg.hc => GetIlim(reg) \in {100, 150, 500, 900}
    BY <1>1, LcLimits DEF GetIlim
  <2>3. QED
    BY <1>1, <2>1, <2>2, Tables DEF Regs
<1>3. CASE UNCHANGED <<reg.cfg, reg.full, reg.hc, reg.idx>>
  <2>1. GetIlim(reg') = GetIlim(reg)
    BY <1>3 DEF GetIlim, LcLimit
  <2>2. QED
    BY <1>2, <1>3, <2>1
<1>4. CASE reg.hc /\ UNCHANGED <<reg.hc, reg.idx>>
  <2>1. GetIlim(reg') = GetIlim(reg)
    BY <1>4 DEF GetIlim
  <2>2. QED
    BY <1>2, <1>4, <2>1
<1> DEFINE h == LcChoice(target)
<1>5. /\ h \in {0, 1, 2, 3} /\ LcTable[h] <= target
      /\ (h % 2 = 1) <=> h \in {1, 3}
      /\ (h >= 2) <=> h \in {2, 3}
  BY <1>1, LcChosen
<1>6. LcTable[0] = 100 /\ LcTable[1] = 150 /\ LcTable[2] = 500 /\ LcTable[3] = 900
  BY DEF LcTable
<1>7. CASE UserUsb3 /\ ~reg.hc
  <2>1. user = "usb3" /\ UNCHANGED <<reg.full, reg.hc>> /\ reg'.cfg.usb3 = (h % 2 = 1)
    BY <1>7, UserWrites DEF UserUsb3, UserGoes
  <2> HIDE DEF h
  <2>2. GetIlim(reg') = LcLimit(reg') /\ GetIlim(reg) = LcLimit(reg)
    BY <1>7, <2>1 DEF GetIlim
  <2>3. reg'.cfg.usb3 <=> h \in {1, 3}
    BY <1>5, <2>1
  <2>4. CASE reg.full
    <3>1. h = 1 => Through900
      BY <1>7, <2>1, <2>4 DEF Through900, h
    <3>2. h = 3 => 900 <= target
      <4>1. h = 3 => LcTable[h] = 900
        BY <1>6
      <4>2. QED
        BY <1>5, <4>1
    <3>3. LcLimit(reg) \in {500, 900} /\ LcLimit(reg') = IF reg'.cfg.usb3 THEN 900 ELSE 500
      BY <1>1, <2>1, <2>4, LcLimits
    <3>4. QED
      BY <1>5, <1>7, <2>1, <2>2, <2>3, <3>1, <3>2, <3>3
  <2>5. CASE ~reg.full
    <3>1. LcLimit(reg') = (IF h \in {1, 3} THEN 150 ELSE 100)
      BY <1>1, <2>1, <2>3, <2>5, LcLimits
    <3>2. LcLimit(reg') <= target
      BY <1>1, <1>5, <1>6, <3>1
    <3>3. QED
      BY <1>7, <2>1, <2>2, <3>2
  <2>6. reg.full \in BOOLEAN
    BY <1>1 DEF Regs
  <2>7. QED
    BY <2>4, <2>5, <2>6
<1>8. CASE UserFull /\ ~reg.hc
  <2>1. user = "full" /\ UNCHANGED <<reg.cfg, reg.hc>> /\ reg'.full = (h >= 2)
    BY <1>8, UserWrites DEF UserFull, UserGoes
  <2>2. reg.cfg.usb3 = (h % 2 = 1)
    BY <2>1 DEF CfgInv
  <2> HIDE DEF h
  <2>3. (reg'.full <=> h \in {2, 3}) /\ (reg'.cfg.usb3 <=> h \in {1, 3})
    BY <1>5, <2>1, <2>2
  <2>4. LcLimit(reg') = LcTable[h]
    BY <1>1, <1>5, <1>6, <2>3, LcLimits
  <2>5. QED
    BY <1>5, <1>8, <2>1, <2>4 DEF GetIlim
<1>9. CASE UserLc
  <2>1. user = "lc" /\ UNCHANGED <<reg.cfg, reg.full>> /\ reg'.hc = FALSE
    BY <1>9, UserWrites DEF UserLc, UserGoes
  <2>2. GetIlim(reg') = LcTable[h]
    BY <2>1, LcSet DEF GetIlim, LcLimit
  <2>3. QED
    BY <1>5, <2>2
<1>10. CASE UserQuiet \/ UserCfgRead
  BY <1>3, <1>10, UserLeaves, UserWrites DEF LimitRegs
<1>11. CASE (UserUsb3 \/ UserFull) /\ reg.hc
  BY <1>4, <1>11, UserWrites
<1>12. ~UserIndex /\ ~UserForce
  BY DEF LcCall, UserIndex, UserForce, UserGoes
<1>13. reg.hc \in BOOLEAN
  BY <1>1 DEF Regs
<1>14. QED
  BY <1>7, <1>8, <1>9, <1>10, <1>11, <1>12, <1>13, UserKinds

(* No write of a call that sets a low limit puts a limit in force that is  *)
(* above both the asked one and the one before, but for the switch from    *)
(* 500 to 150 mA (Through900), and high current mode is left for a limit   *)
(* that is not above the asked one (smbchg_usb_set_ilim_lc).               *)
THEOREM LcEntering == HistorySpec => LcEntered
<1> DEFINE Rule ==
      LcCall /\ ~lost =>
        /\ GetIlim(reg') <= target \/ GetIlim(reg') <= GetIlim(reg) \/ Through900
        /\ reg.hc /\ ~reg'.hc => GetIlim(reg') <= target
<1>1. ASSUME IInv, IInv', HistoryInv, HistoryNext PROVE Rule
  <2>1. SUFFICES ASSUME LcCall, ~lost PROVE Rule
    OBVIOUS
  <2>2. TypeOK /\ TypeOK' /\ CallInv /\ CfgInv
    BY <1>1 DEF IInv, HistoryInv
  <2>3. User
    BY <1>1, <2>1, <2>2, ProbeLeaves, SrcLeaves, OthersLeave DEF HistoryNext, Next, LcCall
  <2>4. QED
    BY <2>1, <2>2, <2>3, LcCallStep
<1>2. IInv /\ IInv' /\ HistoryInv /\ [HistoryNext]_<<vars, history>> => [Rule]_<<vars, history>>
  BY <1>1
<1>3. QED
  BY <1>2, HistoryInvariance, PTL DEF HistorySpec, LcEntered

(* No write to the input limit undoes the probe's configuration, but in    *)
(* the one overlap of two secured writes (qcom_pmic_sec_masked_write).     *)
THEOREM ConfigStays == HistorySpec => []ConfigKept
<1>1. HistoryInv => ConfigKept
  BY DEF HistoryInv, CfgInv
<1>2. QED
  BY <1>1, HistoryInvariance, PTL

(* With every interrupt handled the extcon cables tell what is plugged in, *)
(* but when both threads sampled before either set the cables, or an       *)
(* access failed (smbchg_extcon_update).                                   *)
THEOREM ExtconTells == HistorySpec => []ExtconFollows
<1>1. HistoryInv => ExtconFollows
  BY DEF HistoryInv, ExtInv, ExtconFollows, Samples, Preparers
<1>2. QED
  BY <1>1, HistoryInvariance, PTL
=============================================================================
