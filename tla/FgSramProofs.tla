---------------------------- MODULE FgSramProofs ----------------------------
(***************************************************************************)
(* The request count of the fuel gauge's SRAM, for every finite set of     *)
(* users, and whichever waits time out and bus accesses fail; and, with    *)
(* the histories of MCFgSram, what the handshake guarantees by itself.     *)
(***************************************************************************)
EXTENDS MCFgSram, FiniteSetTheorems, TLAPS

IInv == TypeOK /\ RequestsCount /\ UsersHoldRequest

LEMMA CountedFinite == IsFiniteSet(Counted)
BY UsersAssumption, FS_Subset DEF Counted

(* A count of zero means that there is nobody.                             *)
LEMMA NobodyCounted ==
  ASSUME RequestsCount
  PROVE  requests = 0 <=> Counted = {}
BY CountedFinite, FS_EmptySet DEF RequestsCount

LEMMA InitIInv == Init => IInv
<1> SUFFICES ASSUME Init PROVE IInv
  OBVIOUS
<1>1. Counted = {}
  BY DEF Init, Counted
<1> QED BY <1>1, FS_EmptySet DEF Init, IInv, TypeOK, RequestsCount, UsersHoldRequest, Places

(* A user that is still counted, or still not, leaves the count alone.     *)
LEMMA SameCount ==
  ASSUME TypeOK, NEW u \in Users, NEW from \in Places \ {"idle"},
         NEW to \in Places \ {"idle"}, Goto(u, from, to)
  PROVE  Counted' = Counted /\ pc' \in [Users -> Places]
BY DEF TypeOK, Goto, Counted

LEMMA RequestCounts ==
  ASSUME IInv, NEW u \in Users, RequestAccess(u)
  PROVE  IInv'
<1>1. Counted' = Counted \union {u} /\ u \notin Counted
  BY DEF IInv, TypeOK, RequestAccess, Goto, Counted
<1>2. Cardinality(Counted') = Cardinality(Counted) + 1
  BY <1>1, CountedFinite, FS_AddElement
<1>3. RequestsCount'
  BY <1>2 DEF IInv, RequestAccess, RequestsCount
<1>4. TypeOK'
  BY DEF IInv, TypeOK, RequestAccess, Goto, work, intr, Places
<1>5. req'
  BY NobodyCounted DEF IInv, TypeOK, RequestAccess, UsersHoldRequest
<1> QED BY <1>3, <1>4, <1>5 DEF IInv, UsersHoldRequest

LEMMA LeaveCounts ==
  ASSUME IInv, NEW u \in Users, GiveUp(u) \/ ReleaseAccess(u)
  PROVE  IInv'
<1>1. Counted' = Counted \ {u} /\ u \in Counted
  BY DEF IInv, TypeOK, GiveUp, ReleaseAccess, Goto, Counted
<1>2. Cardinality(Counted') = Cardinality(Counted) - 1
  BY <1>1, CountedFinite, FS_RemoveElement
<1>3. Cardinality(Counted) \in Nat /\ requests # 0
  BY <1>1, CountedFinite, FS_CardinalityType, NobodyCounted DEF IInv
<1>4. requests' = requests - 1 /\ requests' \in Nat
  BY <1>3 DEF IInv, RequestsCount, GiveUp, ReleaseAccess
<1>5. RequestsCount'
  BY <1>2, <1>4 DEF IInv, RequestsCount
<1>6. TypeOK'
  <2>1. TypeOK
    BY DEF IInv
  <2>2. pc' \in [Users -> Places]
    BY <2>1 DEF TypeOK, GiveUp, ReleaseAccess, Goto, Places
  <2>3. queued' \in BOOLEAN
    BY <2>1 DEF TypeOK, GiveUp, ReleaseAccess, work
  <2>4. UNCHANGED <<granted, revoked, worker, req, avail, irq, handler>>
    BY DEF GiveUp, ReleaseAccess, work, intr
  <2> QED BY <1>4, <2>1, <2>2, <2>3, <2>4 DEF TypeOK
<1>7. UsersHoldRequest'
  BY <1>1 DEF IInv, UsersHoldRequest, GiveUp, ReleaseAccess
<1> QED BY <1>5, <1>6, <1>7 DEF IInv

LEMMA UserIInv ==
  ASSUME IInv, NEW u \in Users, User(u)
  PROVE  IInv'
<1>1. CASE RequestAccess(u)
  BY <1>1, RequestCounts
<1>2. CASE GiveUp(u) \/ ReleaseAccess(u)
  BY <1>2, LeaveCounts
<1>3. CASE Granted(u) \/ TimeOut(u) \/ ExpectRevoke(u) \/ BeginAccess(u) \/ EndAccess(u)
  <2>1. Counted' = Counted /\ pc' \in [Users -> Places]
    BY <1>3, SameCount
       DEF IInv, Granted, TimeOut, ExpectRevoke, BeginAccess, EndAccess, Places
  <2>2. /\ UNCHANGED <<requests, granted, queued, worker, req, avail, irq, handler>>
        /\ revoked' \in {revoked, FALSE}
    BY <1>3 DEF Granted, TimeOut, ExpectRevoke, BeginAccess, EndAccess, work, intr
  <2>3. TypeOK'
    BY <2>1, <2>2 DEF IInv, TypeOK
  <2> QED BY <2>1, <2>2, <2>3 DEF IInv, RequestsCount, UsersHoldRequest
<1> QED BY <1>1, <1>2, <1>3 DEF User

LEMMA WorkerIInv ==
  ASSUME IInv, Worker
  PROVE  IInv'
<1>1. UNCHANGED <<pc, requests>> /\ TypeOK' /\ Counted' = Counted
  BY DEF IInv, TypeOK, Worker, StartWork, StartWorkFails, Revoked, RevokeLate, EndWork,
         user, intr, Counted
<1>2. req' = req \/ requests = 0
  BY DEF Worker, StartWork, StartWorkFails, Revoked, RevokeLate, EndWork
<1> QED BY <1>1, <1>2, NobodyCounted DEF IInv, RequestsCount, UsersHoldRequest

LEMMA InterruptIInv ==
  ASSUME IInv, Hardware \/ ReadAvail \/ Complete
  PROVE  IInv'
<1>1. UNCHANGED <<pc, requests, req>> /\ TypeOK' /\ Counted' = Counted
  BY DEF IInv, TypeOK, Hardware, ReadAvail, Complete, user, work, Counted
<1> QED BY <1>1 DEF IInv, RequestsCount, UsersHoldRequest

LEMMA NextIInv == IInv /\ [Next]_vars => IInv'
<1> SUFFICES ASSUME IInv, [Next]_vars PROVE IInv'
  OBVIOUS
<1>1. CASE Next
  BY <1>1, UserIInv, WorkerIInv, InterruptIInv DEF Next
<1>2. CASE UNCHANGED vars
  BY <1>2 DEF vars, IInv, TypeOK, RequestsCount, UsersHoldRequest, Counted
<1> QED BY <1>1, <1>2

LEMMA Invariance == Spec => []IInv
BY InitIInv, NextIInv, PTL DEF Spec

(* Between releases there is no grant.  In a lease that did not begin      *)
(* early, whatever says that the SRAM is there is true: what the interrupt *)
(* thread has read, the completion, and the users that have seen that.     *)
Leased == {"granted", "ready", "access", "done"}
LeaseInv ==
  /\ ~req /\ worker = "idle" => ~granted
  /\ req /\ ~early =>
       /\ handler = "avail" => avail
       /\ granted => avail
       /\ \A u \in Users : pc[u] \in Leased => avail

LEMMA LeaseStep ==
  ASSUME IInv, LeaseInv, MCNext
  PROVE  LeaseInv'
<1> USE DEF IInv
<1>1. CASE ~req /\ req'
  <2>1. PICK u \in Users : RequestAccess(u)
    BY <1>1 DEF MCNext, Next, User, RequestAccess, Granted, TimeOut, GiveUp, ExpectRevoke,
                BeginAccess, EndAccess, ReleaseAccess, Worker, StartWork, StartWorkFails,
                Revoked, RevokeLate, EndWork, Hardware, ReadAvail, Complete, user
  <2>2. UNCHANGED <<granted, worker, avail, handler>> /\ early' = ReleaseNotOver
    BY <1>1, <2>1 DEF MCNext, RequestAccess, work, intr
  <2>3. \A v \in Users : pc'[v] \notin Leased
    BY <1>1, <2>1 DEF UsersHoldRequest, Counted, RequestAccess, Goto, TypeOK, Leased
  <2> QED BY <1>1, <2>2, <2>3 DEF LeaseInv, ReleaseNotOver
<1>2. CASE ~(~req /\ req')
  <2>1. early' = early
    BY <1>2 DEF MCNext
  <2>2. ASSUME NEW u \in Users, User(u) PROVE LeaseInv'
    <3>1. UNCHANGED <<avail, handler, granted, worker, req>>
      BY <1>2, <2>2 DEF User, RequestAccess, Granted, TimeOut, GiveUp, ExpectRevoke,
                        BeginAccess, EndAccess, ReleaseAccess, work, intr, TypeOK
    <3>2. \A v \in Users : v # u => pc'[v] = pc[v]
      BY <2>2 DEF User, RequestAccess, Granted, TimeOut, GiveUp, ExpectRevoke, BeginAccess,
                  EndAccess, ReleaseAccess, Goto, TypeOK
    <3>3. pc'[u] \in Leased => pc[u] \in Leased \/ granted
      <4>1. CASE Granted(u)
        BY <4>1 DEF Granted
      <4>2. CASE ExpectRevoke(u) \/ BeginAccess(u) \/ EndAccess(u)
        BY <4>2 DEF ExpectRevoke, BeginAccess, EndAccess, Goto, Leased
      <4>3. CASE RequestAccess(u) \/ TimeOut(u) \/ GiveUp(u) \/ ReleaseAccess(u)
        BY <4>3 DEF RequestAccess, TimeOut, GiveUp, ReleaseAccess, Goto, TypeOK, Leased
      <4> QED BY <2>2, <4>1, <4>2, <4>3 DEF User
    <3> QED BY <2>1, <3>1, <3>2, <3>3 DEF LeaseInv
  <2>3. CASE Worker
    <3>1. UNCHANGED <<pc, avail, handler>> /\ (granted' => granted) /\ (req' => req)
      BY <2>3 DEF Worker, StartWork, StartWorkFails, Revoked, RevokeLate, EndWork, user, intr
    <3>2. worker' = "idle" => ~granted' \/ (worker = "idle" /\ req' = req)
      BY <2>3 DEF Worker, StartWork, StartWorkFails, Revoked, RevokeLate, EndWork, user, intr
    <3> QED BY <2>1, <3>1, <3>2 DEF LeaseInv
  <2>4. CASE Hardware
    <3>1. UNCHANGED <<pc, granted, handler, req, worker>> /\ avail' = req
      BY <2>4 DEF Hardware, user, work
    <3> QED BY <2>1, <3>1 DEF LeaseInv
  <2>5. CASE ReadAvail
    BY <2>1, <2>5 DEF ReadAvail, user, work, LeaseInv
  <2>6. CASE Complete
    BY <2>1, <2>6 DEF Complete, user, work, LeaseInv
  <2> QED BY <2>2, <2>3, <2>4, <2>5, <2>6 DEF MCNext, Next
<1> QED BY <1>1, <1>2

LEMMA LeaseInvariance == HistorySpec => [](IInv /\ LeaseInv)
<1>1. MCInit => IInv /\ LeaseInv
  BY InitIInv DEF MCInit, Init, LeaseInv
<1>2. IInv /\ LeaseInv /\ [MCNext]_<<vars, kept, early>> => IInv' /\ LeaseInv'
  <2> SUFFICES ASSUME IInv, LeaseInv, [MCNext]_<<vars, kept, early>>
               PROVE  IInv' /\ LeaseInv'
    OBVIOUS
  <2>1. CASE MCNext
    BY <2>1, NextIInv, LeaseStep DEF MCNext
  <2>2. CASE UNCHANGED <<vars, kept, early>>
    BY <2>2, NextIInv DEF vars, LeaseInv
  <2> QED BY <2>1, <2>2
<1> QED BY <1>1, <1>2, PTL DEF HistorySpec

(* Every variable keeps its type: sram_requests never falls below zero.    *)
THEOREM TypeCorrect == Spec => []TypeOK
<1>1. IInv => TypeOK
  BY DEF IInv
<1> QED BY <1>1, Invariance, PTL

(* sram_requests is the number of users between request and release.       *)
THEOREM UsersAreCounted == Spec => []RequestsCount
<1>1. IInv => RequestsCount
  BY DEF IInv
<1> QED BY <1>1, Invariance, PTL

(* The request bit is set as long as there is a user.                      *)
THEOREM UsersKeepRequest == Spec => []UsersHoldRequest
<1>1. IInv => UsersHoldRequest
  BY DEF IInv
<1> QED BY <1>1, Invariance, PTL

(* In every lease that begins when the release of the last one is over,    *)
(* the SRAM is there for all that transfer, over every interleaving of     *)
(* users, worker, hardware and interrupt thread                            *)
(* (qcom_fg_sram_request_access, qcom_fg_handle_mem_avail).                *)
THEOREM LeasesHeld == HistorySpec => []LeaseHeld
<1>1. IInv /\ LeaseInv => LeaseHeld
  BY DEF IInv, UsersHoldRequest, Counted, LeaseInv, Leased, LeaseHeld, AccessHasSram
<1> QED BY <1>1, LeaseInvariance, PTL
=============================================================================
