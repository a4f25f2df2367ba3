------------------------------- MODULE FgSram -------------------------------
(***************************************************************************)
(* Access to the SRAM of the fuel gauge, drivers/power/supply/qcom_fg.c.   *)
(* Every battery value but the capacity is read from the SRAM, which the   *)
(* gauge's firmware owns: a reader sets a request bit, waits for the       *)
(* mem-avail interrupt, transfers, and a delayed worker clears the bit     *)
(* when no reader is left.  Readers, worker, interrupt thread and hardware *)
(* run concurrently; one action is what one of them does between two       *)
(* points where others can act (a lock taken, a wait, a register read).    *)
(*                                                                         *)
(* External (modelled from how the driver uses it): the hardware, which    *)
(* answers the request bit some time later and raises the interrupt.       *)
(*                                                                         *)
(* Abstractions.  Addresses and data of a transfer are left out.  The 5 s  *)
(* limits and the 500 ms delay may expire at any time.  A signal during a  *)
(* wait only starts the wait again, and a request bit that cannot be       *)
(* written makes the call return with nothing changed: both are stutters.  *)
(* A status that cannot be read counts as not accessible; in a request     *)
(* that at most sets a bit that is set.                                    *)
(*                                                                         *)
(* An operator introduced by "Broken" is a faulty variant of the one after *)
(* it; no definition uses it.                                              *)
(***************************************************************************)
EXTENDS Integers, FiniteSets

CONSTANT Users   \* the threads that read or write the SRAM

ASSUME UsersAssumption == IsFiniteSet(Users)

VARIABLES
  pc,        \* where each user is in qcom_fg_sram_read or _write
  requests,  \* sram_requests
  granted,   \* sram_access_granted: is the completion done?
  revoked,   \* sram_access_revoked
  queued,    \* is sram_release_access_work pending?
  worker,    \* where the release worker is
  req,       \* RIF_MEM_ACCESS_REQ, the request bit
  avail,     \* MEM_INTF_AVAIL, the hardware's answer
  irq,       \* a mem-avail interrupt that is not handled yet
  handler    \* what the running interrupt thread has read of MEM_INTF_AVAIL

user == <<pc, requests>>
work == <<queued, worker>>
intr == <<irq, handler>>
vars == <<pc, requests, granted, revoked, queued, worker, req, avail, irq, handler>>

Places == {"idle", "waiting", "timedout", "granted", "ready", "access", "done"}

TypeOK ==
  /\ pc \in [Users -> Places]
  /\ requests \in Nat
  /\ granted \in BOOLEAN /\ revoked \in BOOLEAN
  /\ queued \in BOOLEAN /\ worker \in {"idle", "waiting", "woken"}
  /\ req \in BOOLEAN /\ avail \in BOOLEAN
  /\ irq \in BOOLEAN /\ handler \in {"idle", "avail", "notAvail"}

Init ==
  /\ pc = [u \in Users |-> "idle"]
  /\ requests = 0
  /\ granted = FALSE /\ revoked = FALSE
  /\ queued = FALSE /\ worker = "idle"
  /\ req = FALSE /\ avail = FALSE
  /\ irq = FALSE /\ handler = "idle"

Goto(u, from, to) == pc[u] = from /\ pc' = [pc EXCEPT ![u] = to]
-----------------------------------------------------------------------------
(* A user: qcom_fg_sram_read and qcom_fg_sram_write.                       *)

(* qcom_fg_sram_request_access, under sram_request_lock.                   *)
RequestAccess(u) ==
  /\ Goto(u, "idle", "waiting")
  /\ requests' = requests + 1
  /\ LET accessible == avail /\ req
     IN req' = (req \/ (~accessible /\ requests = 0))
  /\ UNCHANGED <<granted, revoked, work, avail, intr>>

(* Broken: the wait is not looked at. *)
GrantedAnyway(u) ==
  /\ Goto(u, "waiting", "granted")
  /\ UNCHANGED <<requests, granted, revoked, work, req, avail, intr>>

Granted(u) ==
  /\ Goto(u, "waiting", "granted")
  /\ granted
  /\ UNCHANGED <<requests, granted, revoked, work, req, avail, intr>>

TimeOut(u) ==
  /\ Goto(u, "waiting", "timedout")
  /\ ~granted
  /\ UNCHANGED <<requests, granted, revoked, work, req, avail, intr>>

(* Broken: the request is still counted. *)
GiveUpCounted(u) ==
  /\ Goto(u, "timedout", "idle")
  /\ UNCHANGED <<requests, granted, revoked, work, req, avail, intr>>

(* The request is no longer counted, but the bit is not released.          *)
GiveUp(u) ==
  /\ Goto(u, "timedout", "idle")
  /\ requests' = requests - 1
  /\ UNCHANGED <<granted, revoked, work, req, avail, intr>>

ExpectRevoke(u) ==
  /\ Goto(u, "granted", "ready")
  /\ revoked' = FALSE
  /\ UNCHANGED <<requests, granted, work, req, avail, intr>>

(* sram_rw_lock is held from BeginAccess to EndAccess.                     *)
BeginAccess(u) ==
  /\ Goto(u, "ready", "access")
  /\ \A v \in Users : pc[v] # "access"
  /\ UNCHANGED <<requests, granted, revoked, work, req, avail, intr>>

EndAccess(u) ==
  /\ Goto(u, "access", "done")
  /\ UNCHANGED <<requests, granted, revoked, work, req, avail, intr>>

(* Broken: the work is queued only while other users are left. *)
ReleaseAccessEarly(u) ==
  /\ Goto(u, "done", "idle")
  /\ requests' = requests - 1
  /\ queued' = (queued \/ requests' # 0)
  /\ UNCHANGED <<granted, revoked, worker, req, avail, intr>>

(* qcom_fg_sram_release_access, under sram_request_lock.                   *)
ReleaseAccess(u) ==
  /\ Goto(u, "done", "idle")
  /\ requests' = (IF requests - 1 < 0 THEN 0 ELSE requests - 1)
  /\ queued' = (queued \/ requests' = 0)
  /\ UNCHANGED <<granted, revoked, worker, req, avail, intr>>

User(u) ==
  \/ RequestAccess(u) \/ Granted(u) \/ TimeOut(u) \/ GiveUp(u)
  \/ ExpectRevoke(u) \/ BeginAccess(u) \/ EndAccess(u) \/ ReleaseAccess(u)
-----------------------------------------------------------------------------
(* The worker: qcom_fg_sram_release_access_worker.                         *)

(* Broken: new users are not looked for. *)
StartWorkBlind ==
  /\ queued /\ worker = "idle"
  /\ queued' = FALSE /\ worker' = "waiting" /\ req' = FALSE
  /\ UNCHANGED <<user, granted, revoked, avail, intr>>

(* Under sram_request_lock.                                                *)
StartWork ==
  /\ queued /\ worker = "idle"
  /\ queued' = FALSE
  /\ IF requests = 0 THEN req' = FALSE /\ worker' = "waiting"
                     ELSE UNCHANGED <<req, worker>>
  /\ UNCHANGED <<user, granted, revoked, avail, intr>>

(* The bit cannot be written; the worker waits all the same.               *)
StartWorkFails ==
  /\ queued /\ worker = "idle" /\ requests = 0
  /\ queued' = FALSE /\ worker' = "waiting"
  /\ UNCHANGED <<user, granted, revoked, req, avail, intr>>

Revoked ==
  /\ worker = "waiting" /\ worker' = "woken"
  /\ revoked
  /\ UNCHANGED <<user, granted, revoked, queued, req, avail, intr>>

RevokeLate ==
  /\ worker = "waiting" /\ worker' = "woken"
  /\ ~revoked
  /\ UNCHANGED <<user, granted, revoked, queued, req, avail, intr>>

EndWork ==
  /\ worker = "woken" /\ worker' = "idle"
  /\ granted' = FALSE
  /\ UNCHANGED <<user, revoked, queued, req, avail, intr>>

Worker == StartWork \/ StartWorkFails \/ Revoked \/ RevokeLate \/ EndWork
-----------------------------------------------------------------------------
(* The hardware, and the interrupt thread qcom_fg_handle_mem_avail.        *)

Hardware ==
  /\ avail # req
  /\ avail' = req /\ irq' = TRUE
  /\ UNCHANGED <<user, granted, revoked, work, req, handler>>

(* qcom_fg_sram_check_access reads the two registers without the lock.     *)
ReadAvail ==
  /\ irq /\ handler = "idle"
  /\ irq' = FALSE
  /\ handler' = IF avail THEN "avail" ELSE "notAvail"
  /\ UNCHANGED <<user, granted, revoked, work, req, avail>>

(* A failed read counts as revoked.                                        *)
Complete ==
  /\ handler # "idle" /\ handler' = "idle"
  /\ \/ handler = "avail" /\ req /\ granted' = TRUE /\ UNCHANGED revoked
     \/ revoked' = TRUE /\ UNCHANGED granted
  /\ UNCHANGED <<user, work, req, avail, irq>>
-----------------------------------------------------------------------------
Next == (\E u \in Users : User(u)) \/ Worker \/ Hardware \/ ReadAvail \/ Complete

Spec == Init /\ [][Next]_vars
-----------------------------------------------------------------------------
Counted == {u \in Users : pc[u] # "idle"}

(* sram_requests is the number of users between their request and their    *)
(* release, also after timeouts: it never becomes negative, so the WARN of *)
(* the release never fires, and the worker sees every user.                *)
RequestsCount == requests = Cardinality(Counted)

(* The request bit stays set as long as a user is counted, however the     *)
(* delayed release and new requests interleave: the hardware is never told *)
(* to take the SRAM from a user that has asked for it.                     *)
UsersHoldRequest == Counted # {} => req

(* A user that transfers data has got the SRAM: the request was not only   *)
(* made but also answered ("Request access to SRAM and wait for it").      *)
AccessHasSram == \A u \in Users : pc[u] = "access" => avail
=============================================================================
