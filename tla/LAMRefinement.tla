---------------------------- MODULE LAMRefinement ----------------------------
(***************************************************************************)
(* The detailed model of local_activities.rs implements the promise of     *)
(* LAMAbstract.  An id is admitted while id_to_tt holds a token for it     *)
(* (enqueue inserts it, complete removes or replaces it); an id is running *)
(* while outstanding_activity_tasks holds an entry for it.                 *)
(***************************************************************************)
EXTENDS LocalActivityManager

AdmittedIds == {id \in Ids : idToTT[id] # NoTT}

RunningIds == {outstanding[t].id : t \in DOMAIN outstanding}

LAM == INSTANCE LAMAbstract WITH admitted <- AdmittedIds, running <- RunningIds

(* enqueue, next_pending and complete together implement LAMAbstract: a    *)
(* New is admitted only for an id not in id_to_tt, next_pending dispatches *)
(* only an admitted id that is not already outstanding and only within the *)
(* semaphore's limit, and complete ends exactly one outstanding attempt,    *)
(* keeping the admission only when WillBeRetried re-keys the id.           *)
Implements == LAM!Spec

=============================================================================
