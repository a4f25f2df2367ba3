------------------------------ MODULE MCFgSram ------------------------------
(***************************************************************************)
(* FgSram with three users (readers of battery properties and the writer   *)
(* of a temperature threshold), and with history variables.                *)
(***************************************************************************)
EXTENDS FgSram

CONSTANTS u1, u2, u3

MCUsers == {u1, u2, u3}

VARIABLES
  kept,   \* has a time-out, or a failed write, left the request bit set?
  early   \* did this lease begin before the release of the last one was over?

MCInit == Init /\ kept = FALSE /\ early = FALSE

(* The release worker has not returned, or the interrupt thread is about   *)
(* to report an availability that is gone.                                 *)
ReleaseNotOver == worker # "idle" \/ (handler = "avail" /\ ~avail)

MCNext ==
  /\ Next
  /\ kept' = IF StartWorkFails \/ \E u \in Users : GiveUp(u) THEN TRUE
             ELSE kept /\ requests' = requests
  /\ early' = IF ~req /\ req' THEN ReleaseNotOver ELSE early

HistorySpec == MCInit /\ [][MCNext]_<<vars, kept, early>>

(* A pending work is run, and its wait is limited to 5 s.                  *)
MCSpec ==
  /\ HistorySpec
  /\ WF_vars(StartWork) /\ WF_vars(Revoked \/ RevokeLate) /\ WF_vars(EndWork)

(* The SRAM is given back to the firmware after the last user, whatever    *)
(* requests come while the worker waits (qcom_fg_sram_release_access and   *)
(* its worker).                                                            *)
SramReleased == <>[](requests = 0 /\ ~kept) => <>[]~req

(* In every lease, from the request that sets the bit to the release that *)
(* clears it, the SRAM is there for each user that transfers data, also    *)
(* for one that finds it granted to another; except in a lease that begins *)
(* before the release of the last one is over (the stale grant)            *)
(* (qcom_fg_sram_request_access, qcom_fg_handle_mem_avail).                *)
LeaseHeld == ~early => AccessHasSram
=============================================================================
