------------------------------- MODULE MC_LAM -------------------------------
(* Small instance of LocalActivityManager for TLC. *)
EXTENDS LAMRefinement, TLC

CONSTANTS a1, a2

MC_Ids == {a1, a2}
MC_Symmetry == Permutations(MC_Ids)

(* Requests either configure every timeout or none of them. *)
MC_Configs == {[s2c |-> TRUE, stc |-> TRUE, s2s |-> TRUE],
               [s2c |-> FALSE, stc |-> FALSE, s2s |-> FALSE]}

(* The liveness run: requests with a schedule-to-close timeout or none,  *)
(* so that its three mints go to a retry racing a second admission for   *)
(* the permit, and a Timeout can hold next_pending between its lookup    *)
(* and its complete.  The other timers are left out for the run's size.  *)
MC_ConfigsS2C == {[s2c |-> b, stc |-> FALSE, s2s |-> FALSE] : b \in BOOLEAN}

(* The state TLC tells apart in the safety runs.  res is a ghost no guard  *)
(* reads, and npMsg / npTT are read only while npPc = "timeout" (they are  *)
(* next_pending's locals): states that differ only there have the same     *)
(* futures, and no property of those runs mentions them.                   *)
MC_View == <<idToTT, nextTT, outstanding, backoff, bags, newQ, cancelQ, avail,
             langHas, npPc, IF npPc = "timeout" THEN <<npMsg, npTT>> ELSE <<>>,
             sd, notifyPermit>>

=============================================================================
