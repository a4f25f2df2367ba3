----------------------------- MODULE WledProofs -----------------------------
(***************************************************************************)
(* Theorems of Wled, and of its histories in MCWled, for every value of    *)
(* the constants, and without the bounds that the run has.                 *)
(***************************************************************************)
EXTENDS MCWled, TLAPS

(* What a thread has done while it holds the lock, and what a module that  *)
(* is disabled for good excludes: the strengthening for DisabledForever.   *)
ShortHolds == short \in {"sync", "count", "sleep"}

LockInv ==
  /\ (lock = "short") <=> ShortHolds
  /\ (lock = "upd") <=> upd \in {"switch", "sync", "store"}
  /\ ShortHolds => ~modEn
  /\ short \in {"count", "sleep"} => ovp = "idle"
  /\ disabled => ~modEn /\ ovp = "idle"

IInv == TypeOK /\ LockInv /\ IrqInv

USE WledAssumption

LEMMA InitInv == Init => IInv
<1> SUFFICES ASSUME Init PROVE IInv
  OBVIOUS
<1>1. 0 \in 0..OvpMax - 1 /\ IrqInv
  BY DEF Init, IrqInv, Owed
<1>2. depth \in Int /\ shorts \in Nat
  BY DEF Init
<1>3. TypeOK
  BY <1>1, <1>2, Zenon DEF Init, TypeOK
<1>4. QED
  BY <1>1, <1>3 DEF Init, IInv, LockInv, ShortHolds

(* What wled_module_enable does to the state it writes, whatever it returns. *)
LEMMA ModuleTyped ==
  ASSUME TypeOK, ModuleOn \/ ModuleOff \/ UNCHANGED module
  PROVE  depth' \in Int /\ modEn' \in BOOLEAN /\ pending' \in BOOLEAN
<1>1. depth \in Int /\ modEn \in BOOLEAN /\ pending \in BOOLEAN
  BY DEF TypeOK
<1>2. CASE ModuleOn
  BY <1>1, <1>2, Zenon DEF ModuleOn
<1>3. CASE ModuleOff
  <2>1. depth' \in {depth, depth + 1}
    BY <1>3, Zenon DEF ModuleOff
  <2>2. depth' \in Int
    BY <1>1, <2>1
  <2>3. QED
    BY <1>3, <2>2, Zenon DEF ModuleOff
<1>4. CASE UNCHANGED module
  BY <1>1, <1>4, Zenon DEF module
<1>5. QED
  BY <1>2, <1>3, <1>4

(* Each thread's steps keep the invariant.                                 *)
LEMMA WorkInv == IInv /\ OvpWork => IInv'
<1> SUFFICES ASSUME IInv, OvpWork PROVE IInv'
  OBVIOUS
<1>1. TypeOK
  BY DEF IInv
<1>2. /\ depth' = depth - 1 /\ depth' \in Int /\ pending /\ pending' = FALSE
      /\ UNCHANGED <<auto, modEn, brightness, disabled, lock, upd, to, short, shorts,
                     ovp, ovps, failed>>
  BY <1>1 DEF OvpWork, TypeOK, updater, shorter, overvolt
<1>3. TypeOK'
  <2>1. depth' \in Int /\ pending' \in BOOLEAN
    BY <1>2
  <2>2. /\ auto' = auto /\ modEn' = modEn /\ brightness' = brightness
        /\ disabled' = disabled /\ lock' = lock /\ upd' = upd /\ to' = to
        /\ short' = short /\ shorts' = shorts /\ ovp' = ovp /\ ovps' = ovps
        /\ failed' = failed
    BY <1>2
  <2>3. QED
    BY <1>1, <2>1, <2>2 DEF TypeOK
<1>4. LockInv'
  BY <1>2 DEF IInv, LockInv, ShortHolds
<1>5. IrqInv'
  BY <1>1, <1>2 DEF IInv, IrqInv, Owed, TypeOK
<1>6. QED
  BY <1>3, <1>4, <1>5 DEF IInv

LEMMA UpdInv == IInv /\ Upd => IInv'
<1> SUFFICES ASSUME IInv, Upd PROVE IInv'
  OBVIOUS
<1> USE DEF UpdRuns, shorter, overvolt, module, IInv
<1>1. ASSUME NEW b \in BOOLEAN, UpdStart(b) PROVE IInv'
  <2>1. TypeOK'
    BY <1>1 DEF UpdStart, TypeOK
  <2>2. LockInv'
    BY <1>1 DEF UpdStart, LockInv, ShortHolds
  <2>3. IrqInv'
    BY <1>1 DEF UpdStart, IrqInv, Owed, TypeOK
  <2>4. QED
    BY <2>1, <2>2, <2>3
<1>2. ASSUME UpdLock PROVE IInv'
  <2>1. TypeOK'
    BY <1>2 DEF UpdLock, TypeOK
  <2>2. LockInv'
    BY <1>2 DEF UpdLock, LockInv, ShortHolds, TypeOK
  <2>3. IrqInv'
    BY <1>2 DEF UpdLock, IrqInv, Owed, TypeOK
  <2>4. QED
    BY <2>1, <2>2, <2>3
<1>3. ASSUME UpdSwitch PROVE IInv'
  <2>1. TypeOK'
    <3>1. depth' \in Int /\ modEn' \in BOOLEAN /\ pending' \in BOOLEAN
      <4>1. TypeOK /\ (ModuleOn \/ ModuleOff \/ UNCHANGED module)
        BY <1>3, Zenon DEF UpdSwitch, IInv
      <4>2. QED
        BY <4>1, ModuleTyped
    <3>2. upd' \in {"idle", "lock", "switch", "sync", "store"}
      BY <1>3, Zenon DEF UpdSwitch
    <3>3. /\ auto' = auto /\ brightness' = brightness /\ disabled' = disabled
          /\ lock' = lock /\ to' = to /\ short' = short /\ shorts' = shorts
          /\ ovp' = ovp /\ ovps' = ovps /\ failed' = failed
      BY <1>3, Zenon DEF UpdSwitch
    <3>4. TypeOK
      OBVIOUS
    <3> HIDE DEF IInv
    <3>5. QED
      BY <3>1, <3>2, <3>3, <3>4 DEF TypeOK
  <2> USE DEF UpdSwitch, ModuleOn, ModuleOff
  <2>2. LockInv'
    BY <1>3 DEF LockInv, ShortHolds, TypeOK
  <2>3. IrqInv'
    BY <1>3 DEF IrqInv, Owed, TypeOK
  <2>4. QED
    BY <2>1, <2>2, <2>3
<1>4. ASSUME UpdFails PROVE IInv'
  <2> USE DEF UpdFails, ModuleFails
  <2>1. TypeOK'
    <3>1. failed' \in BOOLEAN
      BY <1>4, Zenon DEF TypeOK
    <3>2. /\ upd' = "idle" /\ lock' = "none" /\ modEn' = modEn /\ depth' = depth
          /\ pending' = pending /\ auto' = auto /\ brightness' = brightness
          /\ disabled' = disabled /\ to' = to /\ short' = short /\ shorts' = shorts
          /\ ovp' = ovp /\ ovps' = ovps
      BY <1>4, Zenon
    <3>3. TypeOK
      OBVIOUS
    <3> HIDE DEF UpdFails, ModuleFails, IInv
    <3>4. QED
      BY <3>1, <3>2, <3>3 DEF TypeOK
  <2>2. LockInv'
    BY <1>4 DEF LockInv, ShortHolds, TypeOK
  <2>3. IrqInv'
    BY <1>4 DEF IrqInv, Owed, TypeOK
  <2>4. QED
    BY <2>1, <2>2, <2>3
<1>5. ASSUME UpdSync PROVE IInv'
  <2> USE DEF UpdSync
  <2>1. TypeOK'
    BY <1>5 DEF TypeOK
  <2>2. LockInv'
    BY <1>5 DEF LockInv, ShortHolds, TypeOK
  <2>3. IrqInv'
    BY <1>5 DEF IrqInv, Owed, TypeOK
  <2>4. QED
    BY <2>1, <2>2, <2>3
<1>6. ASSUME UpdStore PROVE IInv'
  <2> USE DEF UpdStore
  <2>1. TypeOK'
    BY <1>6 DEF TypeOK
  <2>2. LockInv'
    BY <1>6 DEF LockInv, ShortHolds, TypeOK
  <2>3. IrqInv'
    BY <1>6 DEF IrqInv, Owed, TypeOK
  <2>4. QED
    BY <2>1, <2>2, <2>3
<1>7. QED
  BY <1>1, <1>2, <1>3, <1>4, <1>5, <1>6 DEF Upd

LEMMA ShortInv == IInv /\ Short => IInv'
<1> SUFFICES ASSUME IInv, Short PROVE IInv'
  OBVIOUS
<1> USE DEF ShortRuns, updater, overvolt, module, IInv
<1>1. ASSUME ShortStart PROVE IInv'
  <2> USE DEF ShortStart
  <2>1. TypeOK'
    BY <1>1 DEF TypeOK
  <2>2. LockInv'
    BY <1>1 DEF LockInv, ShortHolds, TypeOK
  <2>3. IrqInv'
    BY <1>1 DEF IrqInv, Owed, TypeOK
  <2>4. QED
    BY <2>1, <2>2, <2>3
<1>2. ASSUME ShortOff PROVE IInv'
  <2>1. TypeOK'
    <3>1. depth' \in Int /\ modEn' \in BOOLEAN /\ pending' \in BOOLEAN
      BY <1>2, ModuleTyped DEF ShortOff
    <3>2. /\ lock' = "short" /\ short' = "sync"
          /\ auto' = auto /\ brightness' = brightness /\ disabled' = disabled
          /\ upd' = upd /\ to' = to /\ shorts' = shorts
          /\ ovp' = ovp /\ ovps' = ovps /\ failed' = failed
      BY <1>2, Zenon DEF ShortOff
    <3>3. TypeOK
      OBVIOUS
    <3> HIDE DEF IInv
    <3>4. QED
      BY <3>1, <3>2, <3>3 DEF TypeOK
  <2> USE DEF ShortOff, ModuleOff
  <2>2. LockInv'
    BY <1>2 DEF LockInv, ShortHolds, TypeOK
  <2>3. IrqInv'
    BY <1>2 DEF IrqInv, Owed, TypeOK
  <2>4. QED
    BY <2>1, <2>2, <2>3
<1>3. ASSUME ShortOffFails PROVE IInv'
  <2> USE DEF ShortOffFails, ModuleFails
  <2>1. TypeOK'
    BY <1>3 DEF TypeOK
  <2>2. LockInv'
    BY <1>3 DEF LockInv, ShortHolds, TypeOK
  <2>3. IrqInv'
    BY <1>3 DEF IrqInv, Owed, TypeOK
  <2>4. QED
    BY <2>1, <2>2, <2>3
<1>4. ASSUME ShortSync PROVE IInv'
  <2> USE DEF ShortSync
  <2>1. TypeOK'
    BY <1>4 DEF TypeOK
  <2>2. LockInv'
    BY <1>4 DEF LockInv, ShortHolds, TypeOK
  <2>3. IrqInv'
    BY <1>4 DEF IrqInv, Owed, TypeOK
  <2>4. QED
    BY <2>1, <2>2, <2>3
<1>5. ASSUME ShortCount PROVE IInv'
  <2> USE DEF ShortCount
  <2>1. TypeOK'
    <3>1. shorts' \in Nat
      BY <1>5 DEF TypeOK
    <3>2. disabled' \in BOOLEAN
      BY <1>5 DEF TypeOK
    <3>3. lock' \in {"none", "upd", "short"}
      BY <1>5 DEF TypeOK
    <3>4. short' \in {"idle", "sleep"}
      BY <1>5
    <3>5. /\ auto' = auto /\ modEn' = modEn /\ brightness' = brightness
          /\ depth' = depth /\ pending' = pending /\ upd' = upd /\ to' = to
          /\ ovp' = ovp /\ ovps' = ovps /\ failed' = failed
      BY <1>5
    <3>6. TypeOK
      OBVIOUS
    <3> HIDE DEF ShortCount, IInv
    <3>7. QED
      BY <3>1, <3>2, <3>3, <3>4, <3>5, <3>6 DEF TypeOK
  <2>2. LockInv'
    BY <1>5 DEF LockInv, ShortHolds, TypeOK
  <2>3. IrqInv'
    BY <1>5 DEF IrqInv, Owed, TypeOK
  <2>4. QED
    BY <2>1, <2>2, <2>3
<1>6. ASSUME ShortOn PROVE IInv'
  <2> USE DEF ShortOn, ModuleOn, ModuleFails
  <2>1. TypeOK'
    <3>1. modEn' \in BOOLEAN /\ pending' \in BOOLEAN
      BY <1>6 DEF TypeOK
    <3>2. failed' \in BOOLEAN
      BY <1>6 DEF TypeOK
    <3>3. /\ lock' = "none" /\ short' = "idle" /\ depth' = depth
          /\ auto' = auto /\ brightness' = brightness /\ disabled' = disabled
          /\ upd' = upd /\ to' = to /\ shorts' = shorts
          /\ ovp' = ovp /\ ovps' = ovps
      BY <1>6
    <3>4. TypeOK
      OBVIOUS
    <3> HIDE DEF ShortOn, ModuleOn, ModuleFails, IInv
    <3>5. QED
      BY <3>1, <3>2, <3>3, <3>4 DEF TypeOK
  <2>2. LockInv'
    BY <1>6 DEF LockInv, ShortHolds, TypeOK
  <2>3. IrqInv'
    BY <1>6 DEF IrqInv, Owed, TypeOK
  <2>4. QED
    BY <2>1, <2>2, <2>3
<1>7. QED
  BY <1>1, <1>2, <1>3, <1>4, <1>5, <1>6 DEF Short

LEMMA OvpInv == IInv /\ Ovp => IInv'
<1> SUFFICES ASSUME IInv, Ovp PROVE IInv'
  OBVIOUS
<1> USE DEF OvpRuns, updater, shorter, module, IInv
<1>1. ASSUME OvpStart PROVE IInv'
  <2> USE DEF OvpStart
  <2>1. TypeOK'
    BY <1>1 DEF TypeOK
  <2>2. LockInv'
    BY <1>1 DEF LockInv, ShortHolds, TypeOK
  <2>3. IrqInv'
    BY <1>1 DEF IrqInv, Owed, TypeOK
  <2>4. QED
    BY <2>1, <2>2, <2>3
<1>2. ASSUME OvpCheck PROVE IInv'
  <2> USE DEF OvpCheck
  <2>1. TypeOK'
    BY <1>2 DEF TypeOK
  <2>2. LockInv'
    BY <1>2 DEF LockInv, ShortHolds, TypeOK
  <2>3. IrqInv'
    BY <1>2 DEF IrqInv, Owed, TypeOK
  <2>4. QED
    BY <2>1, <2>2, <2>3
<1>3. ASSUME OvpDetect PROVE IInv'
  <2> USE DEF OvpDetect
  <2>1. TypeOK'
    <3>1. modEn' \in BOOLEAN /\ disabled' \in BOOLEAN /\ failed' \in BOOLEAN
      BY <1>3 DEF TypeOK
    <3>2. /\ ovp' = "idle" /\ depth' = depth /\ pending' = pending /\ lock' = lock
          /\ auto' = auto /\ brightness' = brightness /\ upd' = upd /\ to' = to
          /\ short' = short /\ shorts' = shorts /\ ovps' = ovps
      BY <1>3
    <3>3. TypeOK
      OBVIOUS
    <3> HIDE DEF OvpDetect, IInv
    <3>4. QED
      BY <3>1, <3>2, <3>3 DEF TypeOK
  <2>2. LockInv'
    BY <1>3 DEF LockInv, ShortHolds, TypeOK
  <2>3. IrqInv'
    BY <1>3 DEF IrqInv, Owed, TypeOK
  <2>4. QED
    BY <2>1, <2>2, <2>3
<1>4. QED
  BY <1>1, <1>2, <1>3 DEF Ovp

LEMMA StepInv == IInv /\ [Next]_vars => IInv'
<1>1. ASSUME IInv, UNCHANGED vars PROVE IInv'
  BY <1>1 DEF vars, module, updater, shorter, overvolt, IInv, TypeOK, LockInv,
     ShortHolds, IrqInv, Owed
<1>2. QED
  BY <1>1, WorkInv, UpdInv, ShortInv, OvpInv DEF Next

LEMMA Invariance == Spec => []IInv
<1>1. QED
  BY InitInv, StepInv, PTL DEF Spec
-----------------------------------------------------------------------------
(* The lamp, with the histories of MCWled.  Until a short-circuit handler  *)
(* has run with the brightness at zero, what the module shows is what has  *)
(* been set, and the count of the interrupt is exactly what is owed.       *)
Alone == ~failed /\ ~disabled /\ ~raced
Shown == IF upd \in {"sync", "store"} THEN to ELSE brightness

LampInv ==
  Alone =>
    /\ ~lit => ~brightness
    /\ upd = "sync" => ~to
    /\ lock = "short" => brightness
    /\ (lit \/ Shown) /\ lock # "short" => modEn = Shown
    /\ lit /\ ~Shown /\ upd # "sync" => ovp = "idle"

ExactInv ==
  Alone =>
    /\ Owed = (IF Shown THEN 0 ELSE 1) + (IF ShortHolds THEN 1 ELSE 0)
    /\ pending => Shown /\ lock # "short"

LEMMA HistoryInit == MCInit => LampInv /\ ExactInv
<1> SUFFICES ASSUME MCInit PROVE LampInv /\ ExactInv
  OBVIOUS
<1>1. LampInv
  BY DEF MCInit, Init, LampInv, Shown, Alone
<1>2. ExactInv
  BY DEF MCInit, Init, ExactInv, Shown, Alone, Owed, ShortHolds
<1>3. QED
  BY <1>1, <1>2

(* A thread on its own never gets out of a failure, nor the module out of  *)
(* having been disabled.                                                   *)
LEMMA AloneBefore ==
  ASSUME HistoryNext, Alone'
  PROVE  Alone
<1>1. ~failed'  /\ ~disabled' /\ ~raced'
  BY DEF Alone
<1>2. ~raced
  BY <1>1 DEF HistoryNext
<1>3. CASE OvpWork
  BY <1>1, <1>2, <1>3 DEF OvpWork, Alone
<1>4. CASE Upd
  BY <1>1, <1>2, <1>4 DEF Upd, UpdStart, UpdLock, UpdSwitch, UpdFails, UpdSync, UpdStore,
     UpdRuns, ModuleFails, Alone
<1>5. CASE Short
  BY <1>1, <1>2, <1>5 DEF Short, ShortStart, ShortOff, ShortOffFails, ShortSync, ShortCount,
     ShortOn, ModuleFails, Alone
<1>6. CASE Ovp
  BY <1>1, <1>2, <1>6 DEF Ovp, OvpStart, OvpCheck, OvpDetect, Alone
<1>7. QED
  BY <1>3, <1>4, <1>5, <1>6 DEF HistoryNext, Next

LEMMA LampStep ==
  ASSUME IInv, LampInv, ExactInv, HistoryNext
  PROVE  LampInv'
<1>1. SUFFICES ASSUME Alone' PROVE LampInv'
  BY DEF LampInv
<1>2. Alone
  BY <1>1, AloneBefore
<1>3. /\ ~lit => ~brightness
      /\ upd = "sync" => ~to
      /\ lock = "short" => brightness
      /\ (lit \/ Shown) /\ lock # "short" => modEn = Shown
      /\ lit /\ ~Shown /\ upd # "sync" => ovp = "idle"
  BY <1>2 DEF LampInv
<1>4. lit' = (lit \/ brightness')
  BY DEF HistoryNext
<1>5. TypeOK /\ LockInv
  BY DEF IInv
<1>6. CASE OvpWork
  <2>1. UNCHANGED <<modEn, lock, upd, to, brightness, ovp>>
    BY <1>6 DEF OvpWork, updater, overvolt
  <2>2. QED
    BY <1>3, <1>4, <2>1 DEF LampInv, Shown
<1>7. CASE UpdFails \/ ShortOffFails
  BY <1>1, <1>2, <1>7 DEF UpdFails, ShortOffFails, ModuleFails, Alone
<1> USE DEF LampInv, Shown, LockInv, ShortHolds
<1>8. CASE (\E b \in BOOLEAN : UpdStart(b)) \/ UpdLock
  <2>1. UNCHANGED <<modEn, brightness, ovp>> /\ Shown' = Shown /\ upd' # "sync"
        /\ upd # "sync" /\ (lock' = "short" <=> lock = "short")
    BY <1>5, <1>8 DEF UpdStart, UpdLock, UpdRuns, module, overvolt
  <2>2. QED
    BY <1>3, <1>4, <2>1
<1>9. CASE UpdSwitch
  <2>1. /\ UNCHANGED <<lock, to, brightness, ovp>> /\ upd = "switch" /\ lock = "upd"
    BY <1>5, <1>9 DEF UpdSwitch, UpdRuns, overvolt
  <2>2. CASE to = brightness
    <3>1. UNCHANGED modEn /\ upd' = "store"
      BY <1>9, <2>2 DEF UpdSwitch, module
    <3>2. QED
      BY <1>3, <1>4, <2>1, <2>2, <3>1
  <2>3. CASE to /\ ~brightness
    <3>1. modEn' = TRUE /\ upd' = "store"
      BY <1>9, <2>3 DEF UpdSwitch, ModuleOn
    <3>2. QED
      BY <1>3, <1>4, <1>5, <2>1, <2>3, <3>1 DEF TypeOK
  <2>4. CASE ~to /\ brightness
    <3>1. modEn' = FALSE /\ upd' = "sync"
      BY <1>9, <2>4 DEF UpdSwitch, ModuleOff
    <3>2. QED
      BY <1>3, <1>4, <1>5, <2>1, <2>4, <3>1 DEF TypeOK
  <2>5. QED
    BY <1>5, <2>2, <2>3, <2>4 DEF TypeOK
<1>10. CASE UpdSync
  <2>1. /\ UNCHANGED <<modEn, lock, to, brightness, ovp>> /\ ovp = "idle"
        /\ upd = "sync" /\ upd' = "store" /\ lock = "upd"
    BY <1>5, <1>10 DEF UpdSync, UpdRuns, module, overvolt
  <2>2. QED
    BY <1>3, <1>4, <2>1
<1>11. CASE UpdStore
  <2>1. /\ UNCHANGED <<modEn, to, ovp>> /\ brightness' = to
        /\ upd = "store" /\ upd' = "idle" /\ lock = "upd" /\ lock' = "none"
    BY <1>5, <1>11 DEF UpdStore, UpdRuns, module, overvolt
  <2>2. QED
    BY <1>3, <1>4, <2>1
<1>12. CASE ShortOff
  <2>1. UNCHANGED <<upd, to, brightness, ovp>> /\ brightness /\ lock' = "short" /\ lock = "none"
    BY <1>1, <1>12 DEF ShortOff, ShortRuns, updater, overvolt, HistoryNext, Alone
  <2>2. QED
    BY <1>3, <1>4, <1>5, <2>1
<1>13. CASE ShortStart \/ ShortSync \/ ShortCount
  <2>1. UNCHANGED <<upd, to, brightness, ovp, lock, modEn>>
    BY <1>1, <1>13 DEF ShortStart, ShortSync, ShortCount, ShortRuns, updater, overvolt, module,
       Alone
  <2>2. QED
    BY <1>3, <1>4, <2>1
<1>14. CASE ShortOn
  <2>1. UNCHANGED <<upd, to, brightness, ovp>> /\ lock = "short" /\ modEn' = TRUE
    BY <1>1, <1>2, <1>5, <1>14 DEF ShortOn, ShortRuns, updater, overvolt, ModuleOn,
       ModuleFails, Alone
  <2>2. brightness /\ brightness' /\ Shown' = brightness /\ upd' # "sync"
    BY <1>3, <1>5, <2>1
  <2>3. QED
    BY <1>4, <1>5, <2>1, <2>2 DEF TypeOK
<1>15. CASE OvpStart
  <2>1. UNCHANGED <<upd, to, brightness, lock, modEn>> /\ modEn
    BY <1>15 DEF OvpStart, OvpRuns, updater, module
  <2>2. lock # "short"
    BY <1>5, <2>1
  <2>3. QED
    BY <1>3, <1>4, <2>1, <2>2
<1>16. CASE OvpCheck
  <2>1. UNCHANGED <<upd, to, brightness, lock, modEn>> /\ ovp # "idle"
    BY <1>16 DEF OvpCheck, OvpRuns, updater, module
  <2>2. QED
    BY <1>3, <1>4, <2>1
<1>17. CASE OvpDetect
  <2>1. /\ UNCHANGED <<upd, to, brightness, lock>> /\ ovp # "idle" /\ ovp' = "idle"
        /\ lock = "none" /\ modEn' = TRUE
    BY <1>1, <1>17 DEF OvpDetect, OvpRuns, updater, Alone
  <2>2. Shown' = Shown /\ upd # "sync"
    BY <1>5, <2>1
  <2>3. lit \/ Shown => Shown
    BY <1>3, <2>1, <2>2
  <2>4. lit => Shown
    BY <2>3
  <2>5. Shown => brightness
    BY <1>5, <2>1
  <2>6. QED
    BY <1>3, <1>4, <1>5, <2>1, <2>2, <2>4, <2>5 DEF TypeOK
<1>18. QED
  BY <1>6, <1>7, <1>8, <1>9, <1>10, <1>11, <1>12, <1>13, <1>14, <1>15, <1>16, <1>17
  DEF HistoryNext, Next, Upd, Short, Ovp

LEMMA ExactStep ==
  ASSUME IInv, LampInv, ExactInv, HistoryNext
  PROVE  ExactInv'
<1> DEFINE Due == (IF Shown THEN 0 ELSE 1) + (IF ShortHolds THEN 1 ELSE 0)
<1>1. SUFFICES ASSUME Alone' PROVE Owed' = Due' /\ (pending' => Shown' /\ lock' # "short")
  BY DEF ExactInv
<1>2. Alone
  BY <1>1, AloneBefore
<1>3. Owed = Due /\ (pending => Shown /\ lock # "short")
  BY <1>2 DEF ExactInv
<1>4. TypeOK /\ LockInv /\ depth \in Int
  BY DEF IInv, TypeOK
<1>5. lock = "short" => brightness
  BY <1>2 DEF LampInv
<1> HIDE DEF Due
<1>6. ASSUME UNCHANGED <<depth, pending>>, Shown' = Shown, ShortHolds' = ShortHolds, 
                  lock' = "short" => lock = "short"
      PROVE  Owed' = Due' /\ (pending' => Shown' /\ lock' # "short")
  BY <1>3, <1>6 DEF Owed, Due
<1>7. CASE OvpWork
  <2>1. /\ pending /\ ~pending' /\ depth' = depth - 1
        /\ UNCHANGED <<upd, to, brightness, short, lock>>
    BY <1>7 DEF OvpWork, updater, shorter
  <2>2. Due' = Due
    BY <2>1 DEF Due, Shown, ShortHolds
  <2>3. QED
    BY <1>3, <1>4, <2>1, <2>2 DEF Owed
<1>8. CASE UpdFails \/ ShortOffFails
  BY <1>1, <1>2, <1>8 DEF UpdFails, ShortOffFails, ModuleFails, Alone
<1>9. CASE (\E b \in BOOLEAN : UpdStart(b)) \/ UpdLock \/ UpdSync \/ UpdStore
  <2>1. UNCHANGED <<depth, pending, short>> /\ Shown' = Shown /\ (lock' = "short" => lock = "short")
    BY <1>4, <1>9 DEF UpdStart, UpdLock, UpdSync, UpdStore, UpdRuns, module, shorter, Shown
  <2>2. QED
    BY <1>6, <2>1 DEF ShortHolds
<1>10. CASE UpdSwitch
  <2>1. UNCHANGED <<lock, to, brightness, short>> /\ upd = "switch" /\ lock = "upd"
    BY <1>4, <1>10 DEF UpdSwitch, UpdRuns, shorter, LockInv
  <2>2. CASE to = brightness
    <3>1. UNCHANGED <<depth, pending>> /\ upd' = "store"
      BY <1>10, <2>2 DEF UpdSwitch, module
    <3>2. QED
      BY <1>6, <2>1, <2>2, <3>1 DEF Shown, ShortHolds
  <2>3. CASE to /\ ~brightness
    <3>1. depth' = depth /\ pending' = TRUE /\ upd' = "store"
      BY <1>10, <2>3 DEF UpdSwitch, ModuleOn
    <3>2. ~Shown /\ ~ShortHolds /\ Shown' /\ ~ShortHolds'
      BY <1>4, <2>1, <2>3, <3>1 DEF Shown, ShortHolds, LockInv
    <3>3. QED
      BY <1>3, <1>4, <2>1, <3>1, <3>2 DEF Owed, Due
  <2>4. CASE ~to /\ brightness
    <3>1. /\ depth' = (IF pending THEN depth ELSE depth + 1) /\ pending' = FALSE
          /\ upd' = "sync"
      BY <1>10, <2>4 DEF UpdSwitch, ModuleOff
    <3>2. Shown /\ ~ShortHolds /\ ~Shown' /\ ~ShortHolds'
      BY <1>4, <2>1, <2>4, <3>1 DEF Shown, ShortHolds, LockInv
    <3>3. QED
      BY <1>3, <1>4, <2>1, <3>1, <3>2 DEF Owed, Due
  <2>5. QED
    BY <1>4, <2>2, <2>3, <2>4 DEF TypeOK
<1>11. CASE ShortOff
  <2>1. /\ UNCHANGED <<upd, to, brightness>> /\ lock = "none" /\ short = "lock" /\ short' = "sync"
        /\ depth' = (IF pending THEN depth ELSE depth + 1) /\ pending' = FALSE /\ brightness
    BY <1>1, <1>11 DEF ShortOff, ShortRuns, updater, ModuleOff, HistoryNext, Alone
  <2>2. ~ShortHolds /\ ShortHolds' /\ Shown /\ Shown'
    BY <1>4, <2>1 DEF Shown, ShortHolds, LockInv
  <2>3. QED
    BY <1>3, <1>4, <2>1, <2>2 DEF Owed, Due
<1>12. CASE ShortStart \/ ShortSync \/ ShortCount
  <2>1. UNCHANGED <<upd, to, brightness, lock, depth, pending>> /\ (ShortHolds' <=> ShortHolds)
    BY <1>1, <1>12 DEF ShortStart, ShortSync, ShortCount, ShortRuns, updater, module, Alone,
       ShortHolds
  <2>2. QED
    BY <1>6, <2>1 DEF Shown, ShortHolds
<1>13. CASE ShortOn
  <2>1. /\ UNCHANGED <<upd, to, brightness, depth>> /\ lock = "short" /\ lock' = "none"
        /\ short = "sleep" /\ short' = "idle" /\ pending' = TRUE
    BY <1>1, <1>2, <1>4, <1>13 DEF ShortOn, ShortRuns, updater, ModuleOn, ModuleFails, Alone,
       LockInv, ShortHolds
  <2>2. ShortHolds /\ ~ShortHolds' /\ Shown /\ Shown'
    BY <1>4, <1>5, <2>1 DEF Shown, ShortHolds, LockInv
  <2>3. QED
    BY <1>3, <1>4, <2>1, <2>2 DEF Owed, Due
<1>14. CASE Ovp
  <2>1. UNCHANGED <<upd, to, brightness, lock, depth, pending, short>>
    BY <1>14 DEF Ovp, OvpStart, OvpCheck, OvpDetect, OvpRuns, updater, shorter, module
  <2>2. QED
    BY <1>6, <2>1 DEF Shown, ShortHolds
<1>15. QED
  BY <1>7, <1>8, <1>9, <1>10, <1>11, <1>12, <1>13, <1>14 DEF HistoryNext, Next, Upd, Short

(* The lamp's histories take the driver's own steps.                       *)
LEMMA HistoryInvariance == HistorySpec => [](IInv /\ LampInv /\ ExactInv)
<1>1. MCInit => Init
  BY DEF MCInit
<1>2. IInv /\ LampInv /\ ExactInv /\ [HistoryNext]_<<vars, lit, raced>>
        => IInv' /\ LampInv' /\ ExactInv'
  <2>1. ASSUME IInv, LampInv, ExactInv, UNCHANGED <<vars, lit, raced>>
        PROVE  IInv' /\ LampInv' /\ ExactInv'
    <3>1. IInv'
      BY <2>1, StepInv
    <3>2. UNCHANGED <<modEn, depth, pending, disabled, lock, upd, to, brightness, short, ovp,
                      failed, lit, raced>>
      BY <2>1 DEF vars, module, updater, shorter, overvolt
    <3>3. LampInv'
      BY <2>1, <3>2 DEF LampInv, Alone, Shown
    <3>4. ExactInv'
      BY <2>1, <3>2 DEF ExactInv, Alone, Shown, Owed, ShortHolds
    <3>5. QED
      BY <3>1, <3>3, <3>4
  <2>2. ASSUME IInv, LampInv, ExactInv, HistoryNext
        PROVE  IInv' /\ LampInv' /\ ExactInv'
    <3>1. IInv'
      BY <2>2, StepInv DEF HistoryNext
    <3>2. QED
      BY <2>2, <3>1, LampStep, ExactStep
  <2>3. QED
    BY <2>1, <2>2
<1>3. QED
  BY <1>1, <1>2, InitInv, HistoryInit, PTL DEF HistorySpec
-----------------------------------------------------------------------------
(* The driver's state is well typed over every sequence of switching,      *)
(* faults and failures (qcom-wled.c).                                      *)
THEOREM TypeCorrect == Spec => []TypeOK
  BY Invariance, PTL DEF IInv

(* The disable count owed to the over-voltage interrupt (wled_ovp_work,    *)
(* wled_module_enable).                                                    *)
THEOREM CountOwed == Spec => []IrqInv
  BY Invariance, PTL DEF IInv

(* enable_irq is never called for an interrupt that is not disabled, for   *)
(* every limit on short circuits and over-voltages and every number of     *)
(* failures (wled_configure_ovp_irq, wled_ovp_work).                       *)
THEOREM Balanced == Spec => []IrqBalanced
<1>1. IInv => IrqBalanced
  BY DEF IInv, TypeOK, IrqInv, IrqBalanced, Owed
<1>2. QED
  BY <1>1, Invariance, PTL

(* "disabling WLED forever!" (wled_short_irq_handler,                      *)
(* wled_auto_string_detection).                                            *)
THEOREM OffForever == Spec => DisabledForever
<1>1. IInv /\ Next => (disabled /\ ~modEn => ~modEn')
  <2> SUFFICES ASSUME IInv, Next, disabled, ~modEn PROVE ~modEn'
    OBVIOUS
  <2>1. CASE OvpWork
    BY <2>1 DEF OvpWork
  <2>2. CASE Upd
    BY <2>2 DEF Upd, UpdStart, UpdLock, UpdSwitch, UpdFails, UpdSync, UpdStore, module,
       ModuleOn, ModuleOff, ModuleFails
  <2>3. CASE Short
    BY <2>3 DEF Short, ShortStart, ShortOff, ShortOffFails, ShortSync, ShortCount,
       ShortOn, module, ModuleOn, ModuleOff, ModuleFails
  <2>4. CASE Ovp
    BY <2>4 DEF Ovp, OvpStart, OvpCheck, OvpDetect, module, IInv, LockInv
  <2>5. QED
    BY <2>1, <2>2, <2>3, <2>4 DEF Next
<1>2. QED
  BY <1>1, Invariance, PTL DEF Spec, DisabledForever

(* The lamp shows what has been set, whatever short circuits, detections   *)
(* and settings interleave, but for the race named                         *)
(* (wled_update_status, wled_short_irq_handler).                           *)
THEOREM LampFollowing == HistorySpec => []LampFollowsAlone
<1>1. ASSUME IInv, LampInv, ~raced, Settled, lit PROVE modEn = brightness
  <2>1. upd \notin {"sync", "store"} /\ lock = "none"
    BY <1>1 DEF IInv, LockInv, Settled
  <2>2. QED
    BY <1>1, <2>1 DEF LampInv, Alone, Settled, Shown
<1>2. IInv /\ LampInv => LampFollowsAlone
  BY <1>1 DEF LampFollowsAlone, LampFollows
<1>3. QED
  BY <1>2, HistoryInvariance, PTL

(* The over-voltage interrupt of a lamp that is on is unmasked             *)
(* (wled_module_enable, wled_ovp_work).                                    *)
THEOREM LampProtected == HistorySpec => []Protected
<1>1. ASSUME IInv, ExactInv, Settled, ~raced, brightness, ~pending PROVE depth = 0
  <2>1. upd \notin {"sync", "store"} /\ ~ShortHolds
    BY <1>1 DEF IInv, LockInv, Settled
  <2>2. QED
    BY <1>1, <2>1 DEF ExactInv, Alone, Settled, Shown, Owed
<1>2. IInv /\ ExactInv => Protected
  BY <1>1 DEF Protected
<1>3. QED
  BY <1>2, HistoryInvariance, PTL
=============================================================================
